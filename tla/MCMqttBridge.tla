---------------------------- MODULE MCMqttBridge ----------------------------
(***************************************************************************)
(* MqttBridge on small instances: two devices, two discovery entries and   *)
(* two state topics each, three broker connections.                        *)
(***************************************************************************)
EXTENDS MqttBridge

NoFaults == {}
TwoDevices == {"ep2000", "ac300"}
=============================================================================
