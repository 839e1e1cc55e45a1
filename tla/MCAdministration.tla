-------------------------- MODULE MCAdministration ---------------------------
(* Instances of Administration.                                             *)
EXTENDS Administration, TLC
CONSTANTS u1, u2, u3
MCUser == {u1, u2, u3}
MCStart == {{}, {u1, u2}}
RequestSymmetry == Permutations(Request)
=============================================================================
