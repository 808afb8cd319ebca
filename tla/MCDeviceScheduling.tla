-------------------------- MODULE MCDeviceScheduling --------------------------
(* The symmetry of DeviceScheduling: names are only told apart by identity.  *)
EXTENDS DeviceScheduling, TLC

Symmetry == Permutations(Sessions) \cup Permutations(Calls) \cup Permutations(Batches)
===============================================================================
