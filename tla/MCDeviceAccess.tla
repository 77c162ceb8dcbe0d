--------------------------- MODULE MCDeviceAccess ---------------------------
(* Devices, logins, handlers and away nodes are alike.                       *)
EXTENDS DeviceAccess, TLC

Symmetry ==
  Permutations(Devices) \cup Permutations(Logins) \cup Permutations(Workers)
  \cup Permutations(AwayNodes)
=============================================================================
