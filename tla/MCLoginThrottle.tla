--------------------------- MODULE MCLoginThrottle ---------------------------
(* Small instances of LoginThrottle for TLC. *)
EXTENDS LoginThrottle, TLC

Symmetry == Permutations(Attempt) \cup Permutations(Request)
==============================================================================
