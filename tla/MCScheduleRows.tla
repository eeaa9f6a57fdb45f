--------------------------- MODULE MCScheduleRows ---------------------------
(* Small instances of ScheduleRows for TLC. *)
EXTENDS ScheduleRows, TLC

CONSTANT d1

OneDevice == [s \in Schedule |-> d1]

(* Handlers are interchangeable. *)
Symmetry == Permutations(Request)
=============================================================================
