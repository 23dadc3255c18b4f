--------------------------- MODULE CommandChannel ---------------------------
(***************************************************************************)
(* What a BluetoothClient promises to whoever calls perform(): a first-in  *)
(* first-out channel of commands to one device.  Every command is settled  *)
(* at most once and in the order of submission, whatever the radio does,   *)
(* until the channel closes.  A caller may abandon its command; a channel  *)
(* that comes to settle an abandoned command closes.  Nothing submitted to *)
(* or left in a closed channel is ever settled.                            *)
(***************************************************************************)
EXTENDS Sequences

CONSTANTS Commands,   \* the commands callers may submit
          Outcomes    \* how the channel may settle a command

VARIABLES waiting,    \* commands submitted and not settled, oldest first
          future,     \* what the caller of each command sees
          open        \* FALSE once the channel has closed

channelVars == <<waiting, future, open>>

Init ==
    /\ waiting = <<>>
    /\ future = [c \in Commands |-> "none"]
    /\ open = TRUE

Submit(c) ==
    /\ future[c] = "none"
    /\ future' = [future EXCEPT ![c] = "pending"]
    /\ waiting' = Append(waiting, c)
    /\ UNCHANGED open

Abandon(c) ==
    /\ future[c] = "pending"
    /\ future' = [future EXCEPT ![c] = "cancelled"]
    /\ UNCHANGED <<waiting, open>>

Settle(outcome) ==
    /\ open /\ waiting # <<>>
    /\ future[Head(waiting)] = "pending"
    /\ future' = [future EXCEPT ![Head(waiting)] = outcome]
    /\ waiting' = Tail(waiting)
    /\ UNCHANGED open

\* The command being served when the channel closes is dropped with it.
Close ==
    /\ open
    /\ open' = FALSE
    /\ \/ waiting' = waiting
       \/ waiting # <<>> /\ waiting' = Tail(waiting)
    /\ UNCHANGED future

Next ==
    \/ \E c \in Commands : Submit(c) \/ Abandon(c)
    \/ \E outcome \in Outcomes : Settle(outcome)
    \/ Close

Spec == Init /\ [][Next]_channelVars
=============================================================================
