---------------------------- MODULE MCTwoFactor ------------------------------
(* Finite instances of TwoFactor. *)
EXTENDS TwoFactor, TLC

RequestSecretSymmetry == Permutations(Req) \cup Permutations(Secret)
==============================================================================
