----------------------------- MODULE MCAuthTokens -----------------------------
(* Instances of AuthTokens for TLC. *)
EXTENDS AuthTokens, TLC

Symmetry == Permutations(Workers) \cup Permutations(Tokens)
=============================================================================
