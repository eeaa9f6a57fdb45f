----------------------------- MODULE MCEditForms -----------------------------
(* Small instances of EditForms for TLC. *)
EXTENDS EditForms, TLC

Symmetry == Permutations(Row) \cup Permutations(Value)
=============================================================================
