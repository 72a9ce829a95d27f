------------------------- MODULE MCDeviceSettings -------------------------
(* An instance of DeviceSettings for TLC.  Relays are interchangeable, so that the
   one configured at first may be the first. *)
EXTENDS DeviceSettings

CONSTANT theNode

InstanceInit == Init /\ config = "r"
InstanceSpec == InstanceInit /\ [][Next]_vars /\ Fairness
=============================================================================
