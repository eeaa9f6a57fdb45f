---------------------------- MODULE MCScheduleFeed ----------------------------
(* Small instances of ScheduleFeed for TLC. *)
EXTENDS ScheduleFeed, TLC

CONSTANT d1

OneDevice == [s \in Schedule |-> d1]

(* On at the first minute of a local day, off then or at the second, from  *)
(* the first day, to the last, or neither.                                 *)
SomeRows ==
    {r \in [onTime: {0}, offTime: {0, 1}, dateFrom: 0 .. 1, dateTo: 1 .. 2, enabled: {TRUE}] :
        r.dateFrom = 1 \/ r.dateTo = 1}
==============================================================================
