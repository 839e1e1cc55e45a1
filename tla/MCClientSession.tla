--------------------------- MODULE MCClientSession ---------------------------
(* Instances of ClientSession with two servers.                             *)
EXTENDS ClientSession, TLC

CONSTANTS s1, s2
MCServer == {s1, s2}
MCSymmetry == Permutations(MCServer)
=============================================================================
