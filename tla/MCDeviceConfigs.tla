--------------------------- MODULE MCDeviceConfigs ---------------------------
(* Instances of DeviceConfigs for model checking. *)
EXTENDS DeviceConfigs, TLC

Symmetry == Permutations(Keys) \cup Permutations(Versions)
=============================================================================
