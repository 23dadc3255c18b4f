----------------------------- MODULE ClientLife -----------------------------
(***************************************************************************)
(* The life of a BluetoothClient as the rest of the program sees it: its   *)
(* task, its state and the link to the station.  The link is made once per *)
(* session, a client that is ready has had it in that session, a session   *)
(* that fails is closed before the next one, and the task ends through its *)
(* finally clause, connected or not.                                       *)
(*                                                                         *)
(* BluetoothClient implements it, and so does the client that              *)
(* DeviceHandler assumes: what one promises is what the other relies on.   *)
(***************************************************************************)

VARIABLES task,       \* "running", "finally", "ended"
          state,      \* ClientState; "READY" includes the service of a command
          connected   \* the link exists

lifeVars == <<task, state, connected>>

Init ==
    /\ task = "running"
    /\ state = "NOT_CONNECTED"
    /\ connected = FALSE

Connect ==
    /\ task = "running" /\ state = "NOT_CONNECTED" /\ ~connected
    /\ state' = "CONNECTED" /\ connected' = TRUE
    /\ UNCHANGED task

Listen ==
    /\ task = "running" /\ state = "CONNECTED" /\ connected
    /\ state' = "READY"
    /\ UNCHANGED <<task, connected>>

\* The session fails: while it is set up, or in the service of a command.
Fail ==
    /\ task = "running" /\ state \in {"CONNECTED", "READY"}
    /\ state' = "DISCONNECTING"
    /\ UNCHANGED <<task, connected>>

Disconnect ==
    /\ task = "running" /\ state = "DISCONNECTING"
    /\ state' = "NOT_CONNECTED" /\ connected' = FALSE
    /\ UNCHANGED task

\* The link goes away, and nobody is told.
Drop ==
    /\ connected
    /\ connected' = FALSE
    /\ UNCHANGED <<task, state>>

\* An exception or a cancellation.
End ==
    /\ task = "running"
    /\ task' = "finally"
    /\ UNCHANGED <<state, connected>>

\* A finally clause that is interrupted or fails leaves the link.
Finish ==
    /\ task = "finally"
    /\ task' = "ended"
    /\ connected' \in {FALSE, connected}
    /\ UNCHANGED state

Next == Connect \/ Listen \/ Fail \/ Disconnect \/ Drop \/ End \/ Finish

Spec == Init /\ [][Next]_lifeVars
=============================================================================
