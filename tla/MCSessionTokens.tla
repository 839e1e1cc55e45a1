--------------------------- MODULE MCSessionTokens ---------------------------
(* Small instances of SessionTokens for TLC. *)
EXTENDS SessionTokens, TLC

TokenSymmetry == Permutations(Token)
RequestSymmetry == Permutations(Req)
==============================================================================
