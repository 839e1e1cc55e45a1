----------------------------- MODULE MCTeamVault -----------------------------
(* Finite instances of TeamVault. *)
EXTENDS TeamVault, TLC

UserRecordSymmetry == Permutations(User) \cup Permutations(Record)
==============================================================================
