-------------------------- MODULE MCVaultRotation ----------------------------
(* Finite instances of VaultRotation. *)
EXTENDS VaultRotation, TLC

DeviceRecordSymmetry == Permutations(Device) \cup Permutations(Record)
==============================================================================
