---------------------------- MODULE MCDeviceHub -----------------------------
(***************************************************************************)
(* DeviceHub on small instances.  "ghost" is an id that no device has; the *)
(* empty string is a field the client left out.                            *)
(***************************************************************************)
EXTENDS DeviceHub

MCDevices      == {"smart_plug", "leak_sensor"}
MCSentIds      == MCDevices \cup {"", "ghost"}
MCSentCommands == {"", "turn_off", "restart", "reset_energy"}
=============================================================================
