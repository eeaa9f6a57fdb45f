------------------------------ MODULE MCAccess ------------------------------
(* Small instances of Access for TLC. *)
EXTENDS Access, TLC

(* Users and slots are each interchangeable; any user may be the seed. *)
Symmetry == Permutations(User) \cup Permutations(Slot)
=============================================================================
