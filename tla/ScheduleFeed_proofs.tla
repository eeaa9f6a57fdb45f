------------------------- MODULE ScheduleFeed_proofs -------------------------
(* Theorems of ScheduleRunner and ScheduleFeed, for any time zone from     *)
(* UTC eastwards, any schedules, devices, runs in flight and open pages.   *)
EXTENDS ScheduleFeed, TLAPS

(* A run that has nothing to do, and one just called, have their types.    *)
LEMMA IdleIsRun ==
    /\ Idle \in RunState
    /\ \A t \in Time : [Idle EXCEPT !.pc = "read", !.at = t] \in RunState
<1>1. [day |-> 0, min |-> 0] \in Time
    BY ClockAssumption DEF Time, Minute
<1>2. \A t \in Time : [pc |-> "read", at |-> t,
          act |-> [d \in Device |-> "none"], step |-> [d \in Device |-> "command"]] \in RunState
    BY DEF RunState
<1> QED BY <1>1, <1>2 DEF Idle, RunState

(* A run goes on as a run.                                                 *)
LEMMA SettledIsRun ==
    ASSUME NEW r \in RunState, NEW d \in Device
    PROVE  /\ Settled(r, d) \in RunState
           /\ \A s \in {"command", "write", "emit"} : [r EXCEPT !.step[d] = s] \in RunState
<1> DEFINE a == [r.act EXCEPT ![d] = "none"]
<1>1. a \in [Device -> Action \cup {"none"}]
    BY DEF RunState
<1>2. \A s \in {"command", "write", "emit"} :
          [r.step EXCEPT ![d] = s] \in [Device -> {"command", "write", "emit"}]
    BY DEF RunState
<1> HIDE DEF a
<1>3. [r EXCEPT !.act = a, !.step[d] = "command"] \in RunState
    BY <1>1, <1>2 DEF RunState
<1>4. \A s \in {"command", "write", "emit"} : [r EXCEPT !.step[d] = s] \in RunState
    BY <1>2 DEF RunState
<1> QED BY <1>3, <1>4, IdleIsRun DEF Settled, a

------------------------------------------------------------------------------
(* East of UTC the query by UTC date loses no schedule of the local date,  *)
(* and what run() checks again leaves none over: its choice is what is due.*)
LEMMA ChosenIsDue ==
    ASSUME TypeOK, NEW t \in Time, NEW d
    PROVE  Chosen(d, t) = Due(d, t)
<1>1. t.day \in Nat /\ t.min \in Minute
    BY ClockAssumption DEF Time
<1>2. Local(t).day \in {t.day, t.day + 1} /\ Local(t).min \in Minute
    BY <1>1, ClockAssumption DEF Local, Minute
<1>3. ASSUME NEW s \in Schedule, Enabled(s)
      PROVE  s \in Chosen(d, t) <=> s \in Due(d, t)
  <2>1. sched[s].dateFrom \in Nat /\ sched[s].dateTo \in Nat
      BY <1>3, RowsAssumption DEF Enabled, TypeOK, Row
  <2>2. InRange(sched[s], t) <=> Local(t).day \in sched[s].dateFrom .. sched[s].dateTo
      BY <1>1, <1>2, <2>1 DEF InRange
  <2>3. InRange(sched[s], t) => sched[s].dateFrom <= t.day + 1 /\ sched[s].dateTo >= t.day
      BY <1>1, <1>2, <2>1 DEF InRange
  <2> QED BY <1>3, <2>2, <2>3 DEF Chosen, Due, FindActiveToday, Matches
<1>4. \A s : s \in Chosen(d, t) \/ s \in Due(d, t) => s \in Schedule /\ Enabled(s)
    BY DEF Chosen, Due, FindActiveToday
<1> QED BY <1>3, <1>4

(* Reading keeps the type of a run, and takes on what is due.              *)
LEMMA ReadIsDue ==
    ASSUME TypeOK, NEW n \in Run, Read(n), NEW d \in Device
    PROVE  LET t == run[n].at
           IN  /\ run' \in [Run -> RunState]
               /\ run'[n].act[d] = "none" <=> Due(d, t) = {}
               /\ run'[n].act[d] = "on" =>
                      \E s \in Due(d, t) : sched[s].offTime # Local(t).min
               /\ run'[n].act[d] = "off" =>
                      \E s \in Due(d, t) : sched[s].offTime = Local(t).min
<1> DEFINE t == run[n].at
<1>1. t \in Time /\ run[n] \in RunState
    BY DEF TypeOK, RunState
<1>2. PICK act \in [Device -> Action \cup {"none"}] :
          /\ \A e \in Device :
              IF Chosen(e, t) = {} THEN act[e] = "none"
                  ELSE \E s \in Chosen(e, t) : act[e] = Wanted(sched[s], t)
          /\ run' = [run EXCEPT ![n] =
                        IF \A e \in Device : act[e] = "none"
                            THEN Idle
                            ELSE [run[n] EXCEPT !.pc = "act", !.act = act]]
    BY DEF Read
<1> DEFINE r == IF \A e \in Device : act[e] = "none"
                    THEN Idle
                    ELSE [run[n] EXCEPT !.pc = "act", !.act = act]
<1>3. [run[n] EXCEPT !.pc = "act", !.act = act] \in RunState
    BY <1>1 DEF RunState
<1>4. r \in RunState
    BY <1>3, IdleIsRun
<1>5. [run[n] EXCEPT !.pc = "act", !.act = act].act = act
    BY <1>1 DEF RunState
<1>6. r.act[d] = act[d]
    BY <1>5 DEF Idle
<1>7. run' = [run EXCEPT ![n] = r]
    BY <1>2
<1> HIDE DEF r
<1>8. run' \in [Run -> RunState] /\ run'[n].act[d] = act[d]
    BY <1>4, <1>6, <1>7 DEF TypeOK
<1>9. Chosen(d, t) = Due(d, t)
    BY <1>1, ChosenIsDue
<1>10. /\ act[d] = "none" <=> Due(d, t) = {}
       /\ act[d] = "on" => \E s \in Due(d, t) : sched[s].offTime # Local(t).min
       /\ act[d] = "off" => \E s \in Due(d, t) : sched[s].offTime = Local(t).min
    BY <1>2, <1>9 DEF Wanted
<1> QED BY <1>8, <1>10

(* The initial state is typed.                                             *)
LEMMA RunnerInit == Init => TypeOK
<1>1. [day |-> 0, min |-> 0] \in Time
    BY ClockAssumption DEF Time, Minute
<1> QED BY <1>1, IdleIsRun DEF Init, TypeOK

(* The minute turns within the clock, and calls run() in a free slot.      *)
LEMMA TickTyped == ASSUME TypeOK, Tick PROVE TypeOK'
<1>1. clock' \in Time
    BY DEF Tick
<1>2. run' \in [Run -> RunState]
    BY <1>1, IdleIsRun DEF Tick, TypeOK
<1> QED BY <1>1, <1>2 DEF Tick, TypeOK

(* The steps of a run keep the types.                                      *)
LEMMA RunStepTyped == ASSUME TypeOK, RunStep PROVE TypeOK'
<1>1. ASSUME NEW n \in Run, Read(n) PROVE TypeOK'
  <2>1. CASE Device = {}
    <3>1. run' = [run EXCEPT ![n] = Idle]
        BY <1>1, <2>1 DEF Read
    <3> QED BY <1>1, <3>1, IdleIsRun DEF Read, TypeOK
  <2>2. CASE Device # {}
    BY <1>1, <2>2, ReadIsDue DEF Read, TypeOK
  <2> QED BY <2>1, <2>2
<1>2. ASSUME NEW n \in Run, ReadFails(n) PROVE TypeOK'
    BY <1>2, IdleIsRun DEF ReadFails, TypeOK
<1>3. ASSUME NEW n \in Run, NEW d \in Device, Command(n, d) PROVE TypeOK'
    BY <1>3, SettledIsRun DEF Command, Advance, TypeOK
<1>4. ASSUME NEW n \in Run, NEW d \in Device, Write(n, d) PROVE TypeOK'
    BY <1>4, SettledIsRun DEF Write, Advance, TypeOK
<1>5. ASSUME NEW n \in Run, NEW d \in Device, Fails(n, d) PROVE TypeOK'
    BY <1>5, SettledIsRun DEF Fails, Settle, TypeOK
<1> QED BY <1>1, <1>2, <1>3, <1>4, <1>5 DEF RunStep

(* The users' edits keep the types.                                        *)
LEMMA EditsTyped == ASSUME TypeOK, Edits PROVE TypeOK'
<1>1. ASSUME NEW s \in Schedule, NEW r \in Rows \cup {Null}, Store(s, r) PROVE TypeOK'
    BY <1>1 DEF Store, TypeOK
<1>2. ASSUME NEW d \in Device, DropDevice(d) PROVE TypeOK'
    BY <1>2 DEF DropDevice, TypeOK
<1> QED BY <1>1, <1>2 DEF Edits

(* So do an event, a crash and a restart.                                  *)
LEMMA OthersTyped ==
    ASSUME TypeOK
    PROVE  /\ \A n \in Run, d \in Device : Emit(n, d) => TypeOK'
           /\ Crash => TypeOK'
           /\ Start => TypeOK'
<1>1. ASSUME NEW n \in Run, NEW d \in Device, Emit(n, d) PROVE TypeOK'
    BY <1>1, SettledIsRun DEF Emit, Settle, TypeOK
<1>2. Crash => TypeOK'
    BY IdleIsRun DEF Crash, TypeOK
<1>3. Start => TypeOK'
    BY DEF Start, TypeOK
<1> QED BY <1>1, <1>2, <1>3

(* Every step of the runner keeps the types.                               *)
LEMMA RunnerStep == TypeOK /\ [Next]_vars => TypeOK'
<1>1. ASSUME TypeOK, UNCHANGED vars PROVE TypeOK'
    BY <1>1 DEF vars, TypeOK
<1> QED BY <1>1, TickTyped, RunStepTyped, EditsTyped, OthersTyped DEF Next

(* Every run takes on exactly the devices with a schedule due by the wall  *)
(* clock, in every time zone from UTC eastwards, and off wins in a         *)
(* schedule that has both times at one minute.                             *)
THEOREM RunsTakeWhatIsDue == Spec => TakesWhatIsDue
<1>1. TypeOK /\ [Next]_vars => [ReadTakesWhatIsDue]_vars
    BY ReadIsDue DEF ReadTakesWhatIsDue
<1> QED BY <1>1, RunnerInit, RunnerStep, PTL DEF Spec, TakesWhatIsDue

------------------------------------------------------------------------------
(* A device another action leaves alone is as much to be told as before.   *)
LEMMA StillToBeTold ==
    ASSUME NEW n \in Run, NEW d \in Device, NEW e \in Device, TypeOK,
           \/ run' = [run EXCEPT ![n] = Settled(run[n], d)] /\ ~At(n, d, "emit")
           \/ \E s \in {"write", "emit"} :
                  run' = [run EXCEPT ![n].step[d] = s] /\ ~At(n, d, "emit")
    PROVE  ToBeTold(e) => ToBeTold(e)'
<1> SUFFICES ASSUME NEW m \in Run, At(m, e, "emit") PROVE At(m, e, "emit")'
    BY DEF ToBeTold
<1>1. CASE m # n
    BY <1>1 DEF At, TypeOK
<1>2. CASE m = n /\ e # d
  <2>1. run[n] \in RunState /\ run[n].pc = "act" /\ run[n].act[e] # "none"
        /\ run[n].step[e] = "emit"
      BY <1>2 DEF TypeOK, At
  <2>2. Settled(run[n], d) = [run[n] EXCEPT !.act[d] = "none", !.step[d] = "command"]
      BY <1>2, <2>1 DEF Settled, RunState
  <2>3. CASE run' = [run EXCEPT ![n] = Settled(run[n], d)]
      BY <1>2, <2>1, <2>2, <2>3 DEF At, TypeOK, RunState
  <2>4. CASE \E s \in {"write", "emit"} : run' = [run EXCEPT ![n].step[d] = s]
      BY <1>2, <2>1, <2>4 DEF At, TypeOK, RunState
  <2> QED BY <2>3, <2>4
<1>3. CASE m = n /\ e = d
    BY <1>3
<1> QED BY <1>1, <1>2, <1>3

(* What the runner does before the event, and what users do, loses no page.*)
LEMMA RunnerFollowed ==
    ASSUME FeedInv, Tick \/ RunStep \/ Edits \/ Start, UNCHANGED feed
    PROVE  FeedInv'
<1> USE DEF FeedInv
<1>1. FeedTypeOK'
    BY TickTyped, RunStepTyped, EditsTyped, OthersTyped DEF FeedTypeOK, feed
<1>2. \A c \in Client : Coming(c)' = Coming(c)
    BY DEF Coming, feed
<1>3. SUFFICES ASSUME NEW e \in Device
               PROVE  ToBeTold(e)' \/ (isOn'[e] = isOn[e] /\ (ToBeTold(e) => ToBeTold(e)'))
    BY <1>1, <1>2 DEF PagesFollow, feed
<1>4. TypeOK
    BY DEF FeedTypeOK
<1>5. ASSUME UNCHANGED <<isOn, run>> PROVE isOn'[e] = isOn[e] /\ (ToBeTold(e) => ToBeTold(e)')
    BY <1>5 DEF ToBeTold, At
<1>6. ASSUME NEW n \in Run, NEW r, run[n].pc # "act", run' = [run EXCEPT ![n] = r]
      PROVE  ToBeTold(e) => ToBeTold(e)'
  <2> SUFFICES ASSUME NEW m \in Run, At(m, e, "emit") PROVE At(m, e, "emit")'
      BY DEF ToBeTold
  <2> QED BY <1>4, <1>6 DEF At, TypeOK
<1>7. CASE Tick
  <2>1. CASE up
      BY <1>6, <1>7, <2>1 DEF Tick
  <2>2. CASE ~up
      BY <1>5, <1>7, <2>2 DEF Tick
  <2> QED BY <2>1, <2>2
<1>8. ASSUME NEW n \in Run, Read(n) \/ ReadFails(n)
      PROVE  isOn'[e] = isOn[e] /\ (ToBeTold(e) => ToBeTold(e)')
    BY <1>6, <1>8 DEF Read, ReadFails
<1>9. ASSUME NEW n \in Run, NEW d \in Device, Command(n, d)
      PROVE  isOn'[e] = isOn[e] /\ (ToBeTold(e) => ToBeTold(e)')
    BY <1>4, <1>9, StillToBeTold DEF Command, Advance, At
<1>10. ASSUME NEW n \in Run, NEW d \in Device, Fails(n, d)
       PROVE  isOn'[e] = isOn[e] /\ (ToBeTold(e) => ToBeTold(e)')
    BY <1>4, <1>10, StillToBeTold DEF Fails, Settle, At
<1>11. ASSUME NEW n \in Run, NEW d \in Device, Write(n, d)
       PROVE  ToBeTold(e)' \/ (isOn'[e] = isOn[e] /\ (ToBeTold(e) => ToBeTold(e)'))
  <2>1. CASE e = d
      BY <1>4, <1>11, <2>1 DEF Write, Advance, At, ToBeTold, TypeOK, RunState
  <2>2. CASE e # d
    <3>1. isOn'[e] = isOn[e]
        BY <1>4, <1>11, <2>2 DEF Write, TypeOK
    <3>2. ToBeTold(e) => ToBeTold(e)'
        BY <1>4, <1>11, StillToBeTold DEF Write, Advance, At
    <3> QED BY <3>1, <3>2
  <2> QED BY <2>1, <2>2
<1>12. CASE RunStep
    BY <1>8, <1>9, <1>10, <1>11, <1>12 DEF RunStep
<1>13. CASE Edits \/ Start
    BY <1>5, <1>13 DEF Edits, Store, DropDevice, Start
<1> QED BY <1>7, <1>12, <1>13

(* An event reaches every connected page, or breaks with its connection.   *)
LEMMA BroadcastFollowed ==
    ASSUME FeedInv, NEW n \in Run, NEW d \in Device, Broadcast(n, d)
    PROVE  FeedInv'
<1> USE DEF FeedInv, Broadcast
<1>1. FeedTypeOK'
    BY OthersTyped DEF FeedTypeOK
<1>2. PagesFollow'
    BY DEF PagesFollow
<1> QED BY <1>1, <1>2

(* A page's own steps: an event makes it fetch, a fetch shows the rows as  *)
(* they were after every event it has had, and a failure is a loss.        *)
LEMMA PageFollowed ==
    ASSUME FeedInv, NEW c \in Client,
           Receive(c) \/ Serve(c) \/ Answer(c) \/ FetchFails(c) \/ Connect(c) \/ Disconnect(c)
    PROVE  FeedInv'
<1> USE DEF FeedInv
<1>1. /\ UNCHANGED vars
      /\ TypeOK' /\ \A d \in Device : ToBeTold(d)' <=> ToBeTold(d)
    BY DEF FeedTypeOK, TypeOK, vars, ToBeTold, At,
           Receive, Serve, Answer, FetchFails, Connect, Disconnect
<1>2. isOn # Null /\ isOn \in [Device -> BOOLEAN]
    BY NoFetchAssumption DEF FeedTypeOK, TypeOK
<1>3. CASE Receive(c)
    BY <1>1, <1>3 DEF Receive, Refetch, JoinFirstFetch, FeedTypeOK, PagesFollow, Coming, vars
<1>4. CASE Serve(c)
    BY <1>1, <1>2, <1>4 DEF Serve, FeedTypeOK, PagesFollow, Coming, vars
<1>5. CASE Answer(c)
    BY <1>1, <1>5 DEF Answer, FeedTypeOK, PagesFollow, Coming, vars
<1>6. CASE FetchFails(c)
    BY <1>1, <1>6 DEF FetchFails, FeedTypeOK, PagesFollow, Coming, vars
<1>7. CASE Connect(c) \/ Disconnect(c)
    BY <1>1, <1>7 DEF Connect, Disconnect, FeedTypeOK, PagesFollow, Coming, vars
<1> QED BY <1>3, <1>4, <1>5, <1>6, <1>7

(* Every step of the feed keeps the invariant.                             *)
LEMMA FeedStep == FeedInv /\ [FeedNext]_fvars => FeedInv'
<1> SUFFICES ASSUME FeedInv, [FeedNext]_fvars PROVE FeedInv'
    OBVIOUS
<1>1. CASE CrashFeed
    BY <1>1, OthersTyped DEF CrashFeed, FeedInv, FeedTypeOK, PagesFollow
<1>2. ASSUME NEW d \in Device, NEW on \in BOOLEAN, WriteElsewhere(d, on) PROVE FeedInv'
    BY <1>2 DEF WriteElsewhere, FeedInv, FeedTypeOK, TypeOK, PagesFollow
<1>3. CASE UNCHANGED fvars
    BY <1>3 DEF fvars, vars, feed, FeedInv, FeedTypeOK, TypeOK, PagesFollow, Coming, ToBeTold, At
<1> QED BY <1>1, <1>2, <1>3, RunnerFollowed, BroadcastFollowed, PageFollowed DEF FeedNext

(* A page that lost no event and no answer shows what the runner wrote, is *)
(* about to, or is going to be told: whatever the order of runs, events,   *)
(* polls and answers.                                                      *)
THEOREM FeedIsFollowed == FeedSpec => []FeedInv
<1>1. FeedInit => FeedInv
  <2>1. FeedInit => FeedTypeOK
      BY RunnerInit DEF FeedInit, FeedTypeOK, TypeOK
  <2>2. FeedInit => PagesFollow
      BY DEF FeedInit, PagesFollow, Coming
  <2> QED BY <2>1, <2>2 DEF FeedInv
<1> QED BY <1>1, FeedStep, PTL DEF FeedSpec
==============================================================================
