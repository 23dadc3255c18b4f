-------------------------- MODULE MCBluetoothClient --------------------------
(***************************************************************************)
(* BluetoothClient on small instances: the pollers' reads "status" and     *)
(* "packs", of equal size (the EP2000 is polled with several reads of 60   *)
(* registers), and a "switch" write, with an answer of another size and    *)
(* function code.                                                          *)
(***************************************************************************)
EXTENDS BluetoothClient

TwoReads == {"status", "packs"}
ReadAndSwitch == {"status", "switch"}
AllCommands == {"status", "packs", "switch"}

MCSize == [c \in Commands |-> IF c = "switch" THEN 3 ELSE 2]
MCFunctionCode == [c \in Commands |-> IF c = "switch" THEN 6 ELSE 3]

\* Faults that the client answers without ending its task.
SurvivedFaults == AllFaults \ {"setup_crash", "disconnect_crash", "cancel_task"}
NoImpatience == {}
ImpatientPacks == {"packs"}
NoFaults == {}
=============================================================================
