---------------------------- MODULE MCAuthTokens ----------------------------
(* Small instances of AuthTokens for TLC. *)
EXTENDS AuthTokens, TLC

(* Tokens, users and slots are each interchangeable. *)
Symmetry == Permutations(Token) \cup Permutations(User) \cup Permutations(Request)
=============================================================================
