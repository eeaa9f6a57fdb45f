----------------------------- MODULE MCWebSession -----------------------------
(* Small instances of WebSession for TLC. *)
EXTENDS WebSession, TLC

Slots == Page \X Caller

Symmetry == Permutations(Token) \cup Permutations(Page)
==============================================================================
