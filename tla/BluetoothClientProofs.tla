------------------------ MODULE BluetoothClientProofs ------------------------
(***************************************************************************)
(* Proofs about BluetoothClient, for every set of commands, response sizes,*)
(* number of attempts and set of faults.                                   *)
(***************************************************************************)
EXTENDS BluetoothClient, TLAPS

-----------------------------------------------------------------------------
(* The inductive invariant, in five parts.                                 *)

\* Where run() is, against the state and the attempt it is making.
RunInv ==
    /\ Serving \/ notify_future # "none" => current_command \in Commands
    /\ pc \in {"write", "wait"} => retries < MaxRetries
    /\ pc = "connect_sleep" => state = "NOT_CONNECTED"
    /\ pc = "error_wait" => state = "COMMAND_ERROR_WAIT"
    /\ RunStateExpected

\* A command is in at most one place, and not settled while it is there.
QueueInv ==
    /\ \A i, j \in DOMAIN command_queue :
           command_queue[i] = command_queue[j] => i = j
    /\ \A i \in DOMAIN command_queue :
           /\ future[command_queue[i]] \in {"pending", "cancelled"}
           /\ Serving => command_queue[i] # current_command
    /\ ServedIsOpen
    /\ NoLostCommand

\* What the notification handler has established about an accepted answer.
ResultInv ==
    /\ notify_future = "result" =>
           /\ is_valid_response(notify_response)
           /\ Len(notify_response) = Size[current_command]
    /\ ResultHasExpectedSize

\* Without a timeout, whatever is in the air belongs to the attempt under way
\* and nothing is left of it once the attempt is over.
LinkInv ==
    /\ pc \notin {"final", "dead"} /\ state = "NOT_CONNECTED" => air = <<>>
    /\ pc = "reconnect_delay" => air = <<>>

OrderInv == ~timedOut =>
    /\ ~Stopped /\ state \in {"CONNECTED", "READY", "COMMAND_ERROR_WAIT"} => air = <<>>
    /\ notify_future \in {"result", "parse_error", "modbus_error"} /\ Serving => air = <<>>
    /\ Serving /\ notify_future # "none" =>
           /\ \A i \in DOMAIN air : air[i].of = current_command
           /\ \A i \in DOMAIN notify_response :
                  notify_response[i].of = current_command
    /\ Serving /\ notify_future = "pending" =>
           /\ Len(notify_response) + Len(air) <= Size[current_command]
           /\ \A i \in DOMAIN air : air[i].kind = "exception" =>
                  Len(air) = 1 /\ notify_response = <<>>
           /\ \A i \in DOMAIN notify_response : notify_response[i].kind # "exception"

IInv == TypeOK /\ RunInv /\ QueueInv /\ ResultInv /\ LinkInv /\ OrderInv

-----------------------------------------------------------------------------
(* What the device may send, and what a valid response is.                 *)

\* A reply is a sequence of units about its command, one per unit of its size.
LEMMA ReplyFacts ==
    ASSUME NEW c \in Commands, NEW kind \in {"data", "noise"}
    PROVE  /\ Reply(c, kind) \in Seq(Units)
           /\ Len(Reply(c, kind)) = Size[c]
           /\ \A i \in 1..Size[c] : Reply(c, kind)[i] = [of |-> c, part |-> i, kind |-> kind]
<1>1. Size[c] \in Nat
  BY CommandsAssumption
<1>2. \A i \in 1..Size[c] : [of |-> c, part |-> i, kind |-> kind] \in Units
  BY <1>1 DEF Units
<1>3. Reply(c, kind) \in [1..Size[c] -> Units]
  BY <1>2 DEF Reply
<1>4. /\ Reply(c, kind) \in Seq(Units)
      /\ Len(Reply(c, kind)) = Size[c]
  BY <1>1, <1>3
<1>5. \A i \in 1..Size[c] : Reply(c, kind)[i] = [of |-> c, part |-> i, kind |-> kind]
  BY DEF Reply
<1>6. QED
  BY <1>4, <1>5

\* Whatever the device sends for one request is about that request, no longer
\* than its answer, and alone if it is an exception.
LEMMA ReactionFacts ==
    ASSUME NEW c \in Commands, NEW sent \in Reactions(c)
    PROVE  /\ sent \in Seq(Units)
           /\ Len(sent) <= Size[c]
           /\ \A i \in DOMAIN sent : sent[i].of = c
           /\ \A i \in DOMAIN sent : sent[i].kind = "exception" => Len(sent) = 1
<1>1. CASE sent = Reply(c, "data") \/ sent = Reply(c, "noise")
  <2>1. PICK kind \in {"data", "noise"} : sent = Reply(c, kind)
    BY <1>1
  <2>2. /\ sent \in Seq(Units)
        /\ Len(sent) = Size[c]
        /\ \A i \in 1..Size[c] : sent[i] = [of |-> c, part |-> i, kind |-> kind]
    BY <2>1, ReplyFacts
  <2>3. Size[c] \in Nat
    BY CommandsAssumption
  <2>4. DOMAIN sent = 1..Size[c]
    BY <2>2
  <2>5. \A i \in DOMAIN sent : sent[i].of = c /\ sent[i].kind # "exception"
    <3>1. kind # "exception"
      BY <2>1
    <3>2. TAKE i \in DOMAIN sent
    <3>3. sent[i] = [of |-> c, part |-> i, kind |-> kind]
      BY <2>2, <2>4
    <3>4. QED
      BY <3>1, <3>3
  <2>6. QED
    BY <2>2, <2>3, <2>5
<1>2. CASE sent = Single(c, "exception") \/ sent = Single(c, "at_notification")
  <2>1. PICK kind \in {"exception", "at_notification"} :
            sent = <<[of |-> c, part |-> 1, kind |-> kind]>>
    BY <1>2 DEF Single
  <2>2. [of |-> c, part |-> 1, kind |-> kind] \in Units
    BY <2>1 DEF Units
  <2>3. sent \in Seq(Units) /\ Len(sent) = 1 /\ DOMAIN sent = {1}
    BY <2>1, <2>2
  <2>4. sent[1].of = c
    BY <2>1
  <2>5. 1 <= Size[c]
    BY CommandsAssumption
  <2>6. QED
    BY <2>3, <2>4, <2>5
<1>3. CASE sent = <<>>
  BY <1>3, CommandsAssumption
<1>4. QED
  BY <1>1, <1>2, <1>3 DEF Reactions

\* A response that passes the checksum is the complete answer to the command
\* its first unit answers.
LEMMA ValidResponse ==
    ASSUME NEW received, is_valid_response(received)
    PROVE  /\ received[1].of \in Commands
           /\ Size[received[1].of] = Len(received)
<1>1. PICK c \in Commands : received = Reply(c, "data")
  BY DEF is_valid_response
<1>2. 1 \in 1..Size[c]
  BY CommandsAssumption
<1>3. received[1] = [of |-> c, part |-> 1, kind |-> "data"]
  BY <1>1, <1>2, ReplyFacts
<1>4. Len(received) = Size[c]
  BY <1>1, ReplyFacts
<1>5. QED
  BY <1>3, <1>4

\* An attempt starts with an empty buffer, and the device may answer it.
LEMMA StartAttemptFacts ==
    ASSUME TypeOK, NEW c \in Commands, StartAttempt(c)
    PROVE  /\ state' = "PERFORMING_COMMAND"
           /\ pc' = "write"
           /\ current_command' = c
           /\ notify_future' = "pending"
           /\ notify_response' = <<>>
           /\ \E sent \in Seq(Units) :
                  /\ air' = air \o sent
                  /\ Len(sent) <= Size[c]
                  /\ \A i \in DOMAIN sent : sent[i].of = c
                  /\ \A i \in DOMAIN sent : sent[i].kind = "exception" => Len(sent) = 1
           /\ air' \in Seq(Units)
           /\ notify_response' \in Seq(Units)
<1>1. PICK sent \in IF link THEN Reactions(c) ELSE {<<>>} : air' = air \o sent
  BY DEF StartAttempt
<1>2. /\ sent \in Seq(Units)
      /\ Len(sent) <= Size[c]
      /\ \A i \in DOMAIN sent : sent[i].of = c
      /\ \A i \in DOMAIN sent : sent[i].kind = "exception" => Len(sent) = 1
  <2>1. CASE sent \in Reactions(c)
    BY <2>1, ReactionFacts
  <2>2. CASE sent = <<>>
    BY <2>2, CommandsAssumption
  <2>3. QED
    BY <1>1, <2>1, <2>2
<1>3. air' \in Seq(Units)
  BY <1>1, <1>2 DEF TypeOK
<1>4. <<>> \in Seq(Units)
  OBVIOUS
<1>5. QED
  BY <1>1, <1>2, <1>3, <1>4 DEF StartAttempt

-----------------------------------------------------------------------------
(* Type correctness.                                                       *)

\* Settling a future, or failing to, keeps the types of what it changes.
LEMMA SetFutureTyped ==
    ASSUME TypeOK, NEW outcome \in Outcomes, NEW next \in States, NEW here \in States,
           SetFuture(outcome, next, here)
    PROVE  /\ state' \in States
           /\ pc' \in {"loop", "final"}
           /\ future' \in [Commands -> {"none", "pending", "cancelled"} \cup Outcomes]
  BY DEF SetFuture, Crash, TypeOK

\* The type of the variables TimeoutRaised and ErrorWaitEnds change.
LEMMA RetryTyped ==
    ASSUME TypeOK, current_command \in Commands, NEW attempts, RetryOrGiveUp(attempts)
    PROVE  /\ state' \in States
           /\ pc' \in Locations
           /\ air' \in Seq(Units)
           /\ future' \in [Commands -> {"none", "pending", "cancelled"} \cup Outcomes]
           /\ current_command' = current_command
           /\ notify_future' \in NotifyStates
           /\ notify_response' \in Seq(Units)
<1>1. CASE StartAttempt(current_command) /\ UNCHANGED future
  BY <1>1, StartAttemptFacts DEF TypeOK, States, Locations, NotifyStates
<1>2. CASE GiveUp
  <2>1. SetFuture("too_many_retries", "DISCONNECTING", "COMMAND_ERROR_WAIT")
    BY <1>2 DEF GiveUp
  <2>2. QED
    BY <1>2, <2>1, SetFutureTyped DEF GiveUp, TypeOK, States, Outcomes, Locations
<1>3. QED
  BY <1>1, <1>2 DEF RetryOrGiveUp

\* A timeout keeps every type: the attempts stay within MaxRetries.
LEMMA TimeoutTyped ==
    ASSUME TypeOK, current_command \in Commands, retries < MaxRetries, TimeoutRaised
    PROVE  TypeOK'
<1>1. retries' \in 0..MaxRetries
  BY RetriesAssumption DEF TimeoutRaised, TypeOK
<1>2. RetryOrGiveUp(retries + 1)
  BY DEF TimeoutRaised
<1>3. QED
  BY <1>1, <1>2, RetryTyped DEF TimeoutRaised, TypeOK

\* Delivering a notification keeps every type.
LEMMA NotificationTyped ==
    ASSUME TypeOK, RunInv, Notification
    PROVE  TypeOK'
<1>1. Head(air) \in Units /\ air' \in Seq(Units)
  BY DEF Notification, TypeOK
<1>2. notify_future' \in NotifyStates /\ notify_response' \in Seq(Units)
  <2>1. HandleNotification(Head(air))
    BY DEF Notification
  <2>2. CASE UNCHANGED <<notify_future, notify_response>>
    BY <2>2 DEF TypeOK
  <2>3. CASE notify_future' = "bad_connection" /\ UNCHANGED notify_response
    BY <2>3 DEF TypeOK, NotifyStates
  <2>4. CASE /\ notify_response' = Append(notify_response, Head(air))
             /\ notify_future' = Verdict(current_command, notify_response')
    BY <1>1, <2>4 DEF Verdict, NotifyStates, TypeOK
  <2>5. QED
    BY <2>1, <2>2, <2>3, <2>4 DEF HandleNotification
<1>3. QED
  BY <1>1, <1>2 DEF Notification, TypeOK, callerVars

\* Every step keeps the types.
LEMMA TypeStep ==
    ASSUME TypeOK, RunInv, ResultInv, [Next]_vars
    PROVE  TypeOK'
<1> USE DEF TypeOK
<1>0. <<>> \in Seq(Units)
  OBVIOUS
<1>1. ASSUME NEW c \in Commands, Perform(c)
      PROVE  TypeOK'
  BY <1>1 DEF Perform, attemptVars
<1>2. ASSUME NEW c \in Commands, CancelFuture(c)
      PROVE  TypeOK'
  BY <1>2 DEF CancelFuture, attemptVars
<1>3. CASE Session
  <2>1. CASE Connect
    BY <2>1 DEF Connect, callerVars, attemptVars, States, Locations
  <2>2. CASE ConnectFails
    BY <2>2 DEF ConnectFails, callerVars, attemptVars, States, Locations
  <2>3. CASE ConnectSleepEnds
    BY <2>3 DEF ConnectSleepEnds, callerVars, attemptVars, States, Locations
  <2>4. CASE GetName
    BY <2>4 DEF GetName, callerVars, attemptVars, States, Locations
  <2>5. CASE StartListening
    BY <2>5 DEF StartListening, callerVars, attemptVars, States, Locations
  <2>6. CASE SetupFails
    BY <2>6 DEF SetupFails, callerVars, attemptVars, States, Locations
  <2>7. CASE SetupCrashes
    BY <2>7 DEF SetupCrashes, callerVars, attemptVars, States, Locations, Crash
  <2>8. CASE Disconnect
    BY <1>0, <2>8 DEF Disconnect, callerVars, attemptVars, States, Locations
  <2>9. CASE ReconnectDelayEnds
    BY <2>9 DEF ReconnectDelayEnds, callerVars, attemptVars, States, Locations
  <2>10. QED
    BY <1>3, <2>1, <2>2, <2>3, <2>4, <2>5, <2>6, <2>7, <2>8, <2>9 DEF Session
<1>4. CASE PerformCommand
  <2>1. CASE TakeCommand
    <3>1. Head(command_queue) \in Commands /\ command_queue' \in Seq(Commands)
      BY <2>1 DEF TakeCommand
    <3>2. StartAttempt(Head(command_queue))
      BY <2>1 DEF TakeCommand
    <3>3. QED
      BY <2>1, <3>1, <3>2, StartAttemptFacts, RetriesAssumption
      DEF TakeCommand, States, Locations, NotifyStates
  <2>2. CASE WriteReturns
    BY <2>2 DEF WriteReturns, callerVars, attemptVars, Locations
  <2>3. CASE WriteFails
    <3>1. SetFuture("connection_error", "DISCONNECTING", state)
      BY <2>3 DEF WriteFails
    <3>2. QED
      BY <2>3, <3>1, SetFutureTyped DEF WriteFails, attemptVars, States, Outcomes, Locations
  <2>4. CASE WriteTimesOut \/ ResponseTimeout
    BY <2>4, TimeoutTyped DEF WriteTimesOut, ResponseTimeout, RunInv, Serving
  <2>5. CASE ResponseTimer
    BY <2>5 DEF ResponseTimer, callerVars, NotifyStates
  <2>6. CASE ResponseReceived
    <3>1. SetFuture("result", "READY", state)
      BY <2>6 DEF ResponseReceived
    <3>2. notify_response[1].of \in Commands
      BY <2>6, ValidResponse DEF ResponseReceived, ResultInv
    <3>3. QED
      BY <2>6, <3>1, <3>2, SetFutureTyped DEF ResponseReceived, attemptVars, States, Outcomes, Locations
  <2>7. CASE ModbusErrorRaised
    <3>1. SetFuture("modbus_error", "READY", state)
      BY <2>7 DEF ModbusErrorRaised
    <3>2. QED
      BY <2>7, <3>1, SetFutureTyped DEF ModbusErrorRaised, attemptVars, States, Outcomes, Locations
  <2>8. CASE BadConnectionRaised
    <3>1. SetFuture("bad_connection", "DISCONNECTING", state)
      BY <2>8 DEF BadConnectionRaised
    <3>2. QED
      BY <2>8, <3>1, SetFutureTyped DEF BadConnectionRaised, attemptVars, States, Outcomes, Locations
  <2>9. CASE ParseErrorRaised
    <3>1. retries < MaxRetries
      BY <2>9 DEF ParseErrorRaised, RunInv
    <3>2. QED
      BY <2>9, <3>1, RetriesAssumption DEF ParseErrorRaised, callerVars, States, Locations
  <2>10. CASE ErrorWaitEnds
    <3>1. current_command \in Commands
      BY <2>10 DEF ErrorWaitEnds, RunInv, Serving
    <3>2. QED
      BY <2>10, <3>1, RetryTyped DEF ErrorWaitEnds
  <2>11. QED
    BY <1>4, <2>1, <2>2, <2>3, <2>4, <2>5, <2>6, <2>7, <2>8, <2>9, <2>10 DEF PerformCommand
<1>5. CASE Finally
  BY <1>0, <1>5 DEF Finally, callerVars, attemptVars, Locations
<1>6. CASE Notification
  BY <1>6, NotificationTyped
<1>7. CASE LinkDrop
  BY <1>0, <1>7 DEF LinkDrop, callerVars, attemptVars
<1>8. CASE CancelTask
  BY <1>8 DEF CancelTask, Crash, callerVars, Locations, NotifyStates
<1>9. CASE UNCHANGED vars
  BY <1>9 DEF vars
<1>10. QED
  BY <1>1, <1>2, <1>3, <1>4, <1>5, <1>6, <1>7, <1>8, <1>9 DEF Next, Caller, Run

-----------------------------------------------------------------------------
(* Where run() is.                                                         *)

\* An attempt that follows another, or the end of the command.
LEMMA RetryRunInv ==
    ASSUME TypeOK, RunInv, current_command \in Commands, RetryOrGiveUp(retries')
    PROVE  RunInv'
<1>1. CASE StartAttempt(current_command) /\ retries' < MaxRetries
  BY <1>1 DEF StartAttempt, RunInv, RunStateExpected, Serving
<1>2. CASE GiveUp
  BY <1>2 DEF GiveUp, SetFuture, Crash, RunInv, RunStateExpected, Serving
<1>3. QED
  BY <1>1, <1>2 DEF RetryOrGiveUp

\* Every step keeps run() in a state its location expects.
LEMMA RunStep ==
    ASSUME TypeOK, RunInv, [Next]_vars
    PROVE  RunInv'
<1> USE DEF RunInv, RunStateExpected, Serving
<1>1. ASSUME NEW c \in Commands, Perform(c) \/ CancelFuture(c)
      PROVE  RunInv'
  BY <1>1 DEF Perform, CancelFuture, attemptVars
<1>2. CASE Session
  <2>1. CASE Connect \/ ConnectFails \/ ConnectSleepEnds \/ GetName
    BY <2>1 DEF Connect, ConnectFails, ConnectSleepEnds, GetName, attemptVars
  <2>2. CASE StartListening \/ SetupFails \/ SetupCrashes
    BY <2>2 DEF StartListening, SetupFails, SetupCrashes, Crash, attemptVars
  <2>3. CASE Disconnect \/ ReconnectDelayEnds
    BY <2>3 DEF Disconnect, ReconnectDelayEnds, attemptVars
  <2>4. QED
    BY <1>2, <2>1, <2>2, <2>3 DEF Session
<1>3. CASE PerformCommand
  <2>1. CASE TakeCommand
    <3>1. Head(command_queue) \in Commands
      BY <2>1 DEF TakeCommand, TypeOK
    <3>2. QED
      BY <2>1, <3>1, RetriesAssumption DEF TakeCommand, StartAttempt
  <2>2. CASE WriteReturns \/ ResponseTimer
    BY <2>2 DEF WriteReturns, ResponseTimer, attemptVars
  <2>3. CASE WriteFails \/ ModbusErrorRaised \/ BadConnectionRaised \/ ResponseReceived
    BY <2>3 DEF WriteFails, ModbusErrorRaised, BadConnectionRaised,
                ResponseReceived, SetFuture, Crash, attemptVars
  <2>4. CASE WriteTimesOut \/ ResponseTimeout
    <3>1. current_command \in Commands /\ RetryOrGiveUp(retries')
      BY <2>4 DEF WriteTimesOut, ResponseTimeout, TimeoutRaised
    <3>2. QED
      BY <3>1, RetryRunInv
  <2>5. CASE ParseErrorRaised
    BY <2>5 DEF ParseErrorRaised
  <2>6. CASE ErrorWaitEnds
    <3>1. current_command \in Commands /\ RetryOrGiveUp(retries')
      BY <2>6 DEF ErrorWaitEnds
    <3>2. QED
      BY <3>1, RetryRunInv
  <2>7. QED
    BY <1>3, <2>1, <2>2, <2>3, <2>4, <2>5, <2>6 DEF PerformCommand
<1>4. CASE Finally \/ CancelTask
  BY <1>4 DEF Finally, CancelTask, Crash, attemptVars
<1>5. CASE Notification
  BY <1>5 DEF Notification, HandleNotification
<1>6. CASE LinkDrop
  BY <1>6 DEF LinkDrop, attemptVars
<1>7. CASE UNCHANGED vars
  BY <1>7 DEF vars
<1>8. QED
  BY <1>1, <1>2, <1>3, <1>4, <1>5, <1>6, <1>7 DEF Next, Caller, Run

-----------------------------------------------------------------------------
(* The queue and the futures.                                              *)

\* The command being served leaves run()'s hands settled or not at all.
LEMMA SetFutureQueueInv ==
    ASSUME TypeOK, RunInv, QueueInv, Serving, UNCHANGED <<command_queue, current_command>>,
           NEW outcome \in Outcomes, NEW next, NEW here, SetFuture(outcome, next, here)
    PROVE  QueueInv'
<1>1. CASE /\ future[current_command] = "pending"
           /\ future' = [future EXCEPT ![current_command] = outcome]
           /\ pc' = "loop"
  BY <1>1 DEF QueueInv, ServedIsOpen, NoLostCommand, Serving, Queued, Stopped,
              TypeOK, RunInv, Outcomes
<1>2. CASE pc' = "final" /\ UNCHANGED future
  BY <1>2 DEF QueueInv, ServedIsOpen, NoLostCommand, Serving, Queued, Stopped
<1>3. QED
  BY <1>1, <1>2 DEF SetFuture, Crash

\* Going on to the next attempt keeps the command in hand.
LEMMA RetryQueueInv ==
    ASSUME TypeOK, RunInv, QueueInv, Serving, UNCHANGED command_queue,
           NEW attempts, RetryOrGiveUp(attempts)
    PROVE  QueueInv'
<1>1. CASE StartAttempt(current_command) /\ UNCHANGED future
  BY <1>1 DEF StartAttempt, QueueInv, ServedIsOpen, NoLostCommand, Serving, Queued, Stopped
<1>2. CASE GiveUp
  BY <1>2, SetFutureQueueInv DEF GiveUp, Outcomes
<1>3. QED
  BY <1>1, <1>2 DEF RetryOrGiveUp

\* Steps that leave queue and futures alone and stay inside or outside of
\* _perform_command(), or end run().
LEMMA SameQueueInv ==
    ASSUME QueueInv, UNCHANGED <<command_queue, future, current_command>>,
           Serving' = Serving, Stopped => Stopped'
    PROVE  QueueInv'
  BY DEF QueueInv, ServedIsOpen, NoLostCommand, Queued

\* A step that ends run() makes no claim about what it was serving.
LEMMA StoppingQueueInv ==
    ASSUME QueueInv, UNCHANGED <<command_queue, future, current_command>>, Stopped'
    PROVE  QueueInv'
  BY DEF QueueInv, ServedIsOpen, NoLostCommand, Queued, Serving, Stopped

\* Every step keeps each unsettled command in exactly one place.
LEMMA QueueStep ==
    ASSUME TypeOK, RunInv, QueueInv, [Next]_vars
    PROVE  QueueInv'
<1>1. ASSUME NEW c \in Commands, Perform(c)
      PROVE  QueueInv'
  <2>1. \A i \in DOMAIN command_queue : command_queue[i] # c
    BY <1>1 DEF Perform, QueueInv
  <2>2. Serving => current_command # c
    BY <1>1 DEF Perform, QueueInv, ServedIsOpen
  <2>3. /\ command_queue' \in Seq(Commands)
        /\ Len(command_queue') = Len(command_queue) + 1
        /\ \A i \in DOMAIN command_queue :
               i \in DOMAIN command_queue' /\ command_queue'[i] = command_queue[i]
        /\ command_queue'[Len(command_queue')] = c
    BY <1>1 DEF Perform, TypeOK
  <2>4. \A i \in DOMAIN command_queue' : i \in DOMAIN command_queue \/ i = Len(command_queue')
    BY <2>3 DEF TypeOK
  <2>5. future' = [future EXCEPT ![c] = "pending"] /\ UNCHANGED <<pc, current_command>>
    BY <1>1 DEF Perform, attemptVars
  <2>6. Queued(c)'
    BY <2>3 DEF Queued, TypeOK
  <2>7. \A d \in Commands : Queued(d) => Queued(d)'
    BY <2>3 DEF Queued
  <2>8. NoLostCommand'
    BY <2>5, <2>6, <2>7 DEF QueueInv, NoLostCommand, Stopped, Serving, TypeOK
  <2>9. ServedIsOpen'
    BY <2>5 DEF QueueInv, ServedIsOpen, Serving, TypeOK
  <2>10. \A i, j \in DOMAIN command_queue' :
             command_queue'[i] = command_queue'[j] => i = j
    BY <2>1, <2>3, <2>4 DEF QueueInv
  <2>11. \A i \in DOMAIN command_queue' :
            /\ future'[command_queue'[i]] \in {"pending", "cancelled"}
            /\ Serving' => command_queue'[i] # current_command'
    BY <2>1, <2>2, <2>3, <2>4, <2>5 DEF QueueInv, Serving, TypeOK
  <2>12. QED
    BY <2>8, <2>9, <2>10, <2>11 DEF QueueInv
<1>2. ASSUME NEW c \in Commands, CancelFuture(c)
      PROVE  QueueInv'
  BY <1>2 DEF CancelFuture, attemptVars, QueueInv, ServedIsOpen, NoLostCommand,
              Serving, Stopped, Queued, TypeOK
<1>3. CASE Session
  <2>1. CASE \/ Connect \/ ConnectFails \/ ConnectSleepEnds \/ GetName \/ StartListening
             \/ SetupFails \/ Disconnect \/ ReconnectDelayEnds
    BY <2>1, SameQueueInv
    DEF Connect, ConnectFails, ConnectSleepEnds, GetName, StartListening, SetupFails,
        Disconnect, ReconnectDelayEnds, Serving, Stopped, callerVars, attemptVars
  <2>2. CASE SetupCrashes
    BY <2>2, StoppingQueueInv DEF SetupCrashes, Crash, Stopped, callerVars, attemptVars
  <2>3. QED
    BY <1>3, <2>1, <2>2 DEF Session
<1>4. CASE PerformCommand
  <2>1. CASE TakeCommand
    <3>1. /\ Head(command_queue) = command_queue[1]
          /\ 1 \in DOMAIN command_queue
          /\ \A i \in DOMAIN command_queue' :
                 i + 1 \in DOMAIN command_queue /\ command_queue'[i] = command_queue[i + 1]
          /\ \A i \in DOMAIN command_queue : i # 1 =>
                 i - 1 \in DOMAIN command_queue' /\ command_queue'[i - 1] = command_queue[i]
          /\ DOMAIN command_queue' \subseteq Nat \ {0}
      BY <2>1 DEF TakeCommand, TypeOK
    <3>2. current_command' = Head(command_queue) /\ pc' = "write" /\ UNCHANGED future
      BY <2>1 DEF TakeCommand, StartAttempt
    <3>3. \A d \in Commands : Queued(d) => d = current_command' \/ Queued(d)'
      BY <3>1, <3>2 DEF Queued
    <3>4. ~Serving /\ ~Stopped
      BY <2>1 DEF TakeCommand, Serving, Stopped
    <3>5. NoLostCommand'
      BY <3>2, <3>3, <3>4 DEF QueueInv, NoLostCommand, Serving
    <3>6. ServedIsOpen'
      BY <3>1, <3>2 DEF QueueInv, ServedIsOpen, Serving
    <3>7. \A i, j \in DOMAIN command_queue' :
              command_queue'[i] = command_queue'[j] => i = j
      BY <3>1 DEF QueueInv
    <3>8. \A i \in DOMAIN command_queue' :
              /\ future'[command_queue'[i]] \in {"pending", "cancelled"}
              /\ Serving' => command_queue'[i] # current_command'
      <4>1. \A i \in DOMAIN command_queue' : i + 1 # 1
        BY <3>1
      <4>2. QED
        BY <3>1, <3>2, <4>1 DEF QueueInv
    <3>9. QED
      BY <3>5, <3>6, <3>7, <3>8 DEF QueueInv
  <2>2. CASE WriteReturns \/ ResponseTimer \/ ParseErrorRaised
    BY <2>2, SameQueueInv DEF WriteReturns, ResponseTimer, ParseErrorRaised, Serving,
                              Stopped, callerVars, attemptVars
  <2>3. CASE WriteFails \/ ModbusErrorRaised \/ BadConnectionRaised \/ ResponseReceived
    <3>1. Serving /\ UNCHANGED <<command_queue, current_command>>
      BY <2>3 DEF WriteFails, ModbusErrorRaised, BadConnectionRaised, ResponseReceived,
                  Serving, attemptVars
    <3>2. PICK outcome \in Outcomes, next \in States :
              SetFuture(outcome, next, state)
      BY <2>3 DEF WriteFails, ModbusErrorRaised, BadConnectionRaised, ResponseReceived,
                  Outcomes, States
    <3>3. QED
      BY <3>1, <3>2, SetFutureQueueInv
  <2>4. CASE WriteTimesOut \/ ResponseTimeout \/ ErrorWaitEnds
    <3>1. Serving /\ UNCHANGED command_queue
      BY <2>4 DEF WriteTimesOut, ResponseTimeout, ErrorWaitEnds, TimeoutRaised, Serving
    <3>2. RetryOrGiveUp(retries + 1) \/ RetryOrGiveUp(retries)
      BY <2>4 DEF WriteTimesOut, ResponseTimeout, ErrorWaitEnds, TimeoutRaised
    <3>3. QED
      BY <3>1, <3>2, RetryQueueInv
  <2>5. QED
    BY <1>4, <2>1, <2>2, <2>3, <2>4 DEF PerformCommand
<1>5. CASE Finally \/ CancelTask
  BY <1>5, StoppingQueueInv DEF Finally, CancelTask, Crash, Stopped, callerVars, attemptVars
<1>6. CASE Notification \/ LinkDrop
  BY <1>6, SameQueueInv DEF Notification, LinkDrop, Serving, Stopped, callerVars, attemptVars
<1>7. CASE UNCHANGED vars
  BY <1>7, SameQueueInv DEF vars, Serving, Stopped
<1>8. QED
  BY <1>1, <1>2, <1>3, <1>4, <1>5, <1>6, <1>7 DEF Next, Caller, Run

-----------------------------------------------------------------------------
(* Results.                                                                *)

\* A result is recorded only for an accepted response; every other step keeps
\* answers and the futures that hold a result.
LEMMA ResultStep ==
    ASSUME TypeOK, RunInv, QueueInv, ResultInv, [Next]_vars
    PROVE  ResultInv'
<1> DEFINE Accepted == notify_future = "result" =>
                           /\ is_valid_response(notify_response)
                           /\ Len(notify_response) = Size[current_command]
<1>1. Accepted'
  <2>1. CASE Notification
    <3>1. CASE UNCHANGED <<notify_future, notify_response>>
      BY <2>1, <3>1 DEF Notification, ResultInv, is_valid_response
    <3>2. CASE notify_future' = "bad_connection"
      BY <3>2
    <3>3. CASE notify_future' = Verdict(current_command, notify_response')
      BY <2>1, <3>3 DEF Notification, Verdict, is_valid_response
    <3>4. QED
      BY <2>1, <3>1, <3>2, <3>3 DEF Notification, HandleNotification
  <2>2. CASE UNCHANGED attemptVars
    BY <2>2 DEF attemptVars, ResultInv, is_valid_response
  <2>3. CASE \E c \in Commands : StartAttempt(c)
    BY <2>3 DEF StartAttempt
  <2>4. CASE UNCHANGED <<current_command, notify_future, notify_response>>
    BY <2>4 DEF ResultInv, is_valid_response
  <2>5. CASE notify_future' = "cancelled"
    BY <2>5
  <2>6. QED
    <3>1. CASE Caller
      BY <2>2, <3>1 DEF Caller, Perform, CancelFuture
    <3>2. CASE Session
      BY <2>2, <3>2 DEF Session, Connect, ConnectFails, ConnectSleepEnds, GetName,
         StartListening, SetupFails, SetupCrashes, Disconnect, ReconnectDelayEnds
    <3>3. CASE TakeCommand
      <4>1. Head(command_queue) \in Commands
        BY <3>3 DEF TakeCommand, TypeOK
      <4>2. QED
        BY <2>3, <3>3, <4>1 DEF TakeCommand
    <3>4. CASE WriteTimesOut \/ ResponseTimeout \/ ErrorWaitEnds
      <4>1. current_command \in Commands
        BY <3>4 DEF WriteTimesOut, ResponseTimeout, ErrorWaitEnds, RunInv, Serving
      <4>2. QED
        BY <2>3, <2>4, <3>4, <4>1 DEF WriteTimesOut, ResponseTimeout, ErrorWaitEnds,
           TimeoutRaised, RetryOrGiveUp, GiveUp
    <3>5. CASE WriteReturns \/ WriteFails \/ ResponseTimer \/ ResponseReceived
               \/ ModbusErrorRaised \/ BadConnectionRaised \/ ParseErrorRaised
      BY <2>2, <2>4, <2>5, <3>5 DEF WriteReturns, WriteFails, ResponseTimer,
         ResponseReceived, ModbusErrorRaised, BadConnectionRaised, ParseErrorRaised
    <3>6. CASE Finally \/ CancelTask \/ LinkDrop \/ UNCHANGED vars
      BY <2>2, <2>4, <2>5, <3>6 DEF Finally, CancelTask, LinkDrop, vars, attemptVars
    <3>7. QED
      BY <2>1, <3>1, <3>2, <3>3, <3>4, <3>5, <3>6 DEF Next, Run, PerformCommand
<1>2. ResultHasExpectedSize'
  <2>1. CASE ResponseReceived
    <3>1. /\ notify_response[1].of \in Commands
          /\ Size[notify_response[1].of] = Size[current_command]
      BY <2>1, ValidResponse DEF ResponseReceived, ResultInv
    <3>2. QED
      BY <2>1, <3>1 DEF ResponseReceived, SetFuture, ResultInv, ResultHasExpectedSize, TypeOK
  <2>2. CASE /\ UNCHANGED answer
             /\ \A c \in Commands : future'[c] = "result" => future[c] = "result"
    BY <2>2 DEF ResultInv, ResultHasExpectedSize
  <2>3. CASE ~ResponseReceived
    <3>1. CASE Caller
      BY <2>2, <3>1 DEF Caller, Perform, CancelFuture, TypeOK
    <3>2. CASE Session
      BY <2>2, <3>2 DEF Session, Connect, ConnectFails, ConnectSleepEnds, GetName,
         StartListening, SetupFails, SetupCrashes, Disconnect, ReconnectDelayEnds, callerVars
    <3>3. CASE TakeCommand \/ WriteReturns \/ ResponseTimer \/ ParseErrorRaised
      BY <2>2, <3>3 DEF TakeCommand, WriteReturns, ResponseTimer, ParseErrorRaised, callerVars
    <3>4. CASE WriteFails \/ ModbusErrorRaised \/ BadConnectionRaised
      BY <2>2, <3>4 DEF WriteFails, ModbusErrorRaised, BadConnectionRaised, SetFuture, TypeOK
    <3>5. CASE WriteTimesOut \/ ResponseTimeout \/ ErrorWaitEnds
      BY <2>2, <3>5 DEF WriteTimesOut, ResponseTimeout, ErrorWaitEnds, TimeoutRaised,
         RetryOrGiveUp, GiveUp, SetFuture, TypeOK
    <3>6. CASE Finally \/ CancelTask \/ LinkDrop \/ Notification \/ UNCHANGED vars
      BY <2>2, <3>6 DEF Finally, CancelTask, LinkDrop, Notification, vars, callerVars
    <3>7. QED
      BY <2>3, <3>1, <3>2, <3>3, <3>4, <3>5, <3>6 DEF Next, Run, PerformCommand
  <2>4. QED
    BY <2>1, <2>3
<1>3. QED
  BY <1>1, <1>2 DEF ResultInv

-----------------------------------------------------------------------------
(* What is in the air.                                                     *)

\* What is in the air after a step that starts no attempt and delivers
\* nothing: what was there before, or nothing.
LEMMA LinkStep ==
    ASSUME TypeOK, RunInv, LinkInv, [Next]_vars
    PROVE  LinkInv'
<1> USE DEF LinkInv
<1>1. CASE Caller
  BY <1>1 DEF Caller, Perform, CancelFuture
<1>2. CASE Session
  BY <1>2 DEF Session, Connect, ConnectFails, ConnectSleepEnds, GetName, StartListening,
     SetupFails, SetupCrashes, Disconnect, ReconnectDelayEnds, Crash, RunInv
<1>3. CASE \E c \in Commands : StartAttempt(c)
  BY <1>3 DEF StartAttempt
<1>4. CASE \E outcome \in Outcomes, next \in States \ {"NOT_CONNECTED"}, here \in States :
              SetFuture(outcome, next, here)
  BY <1>4 DEF SetFuture, Crash
<1>5. CASE TakeCommand
  <2>1. Head(command_queue) \in Commands
    BY <1>5 DEF TakeCommand, TypeOK
  <2>2. QED
    BY <1>3, <1>5, <2>1 DEF TakeCommand
<1>6. CASE WriteReturns \/ ResponseTimer \/ ParseErrorRaised
  BY <1>6 DEF WriteReturns, ResponseTimer, ParseErrorRaised
<1>7. CASE WriteFails \/ ModbusErrorRaised \/ BadConnectionRaised \/ ResponseReceived
  BY <1>4, <1>7 DEF WriteFails, ModbusErrorRaised, BadConnectionRaised, ResponseReceived,
     Outcomes, States, TypeOK
<1>8. CASE WriteTimesOut \/ ResponseTimeout \/ ErrorWaitEnds
  <2>1. current_command \in Commands
    BY <1>8 DEF WriteTimesOut, ResponseTimeout, ErrorWaitEnds, RunInv, Serving
  <2>2. QED
    BY <1>3, <1>4, <1>8, <2>1 DEF WriteTimesOut, ResponseTimeout, ErrorWaitEnds,
       TimeoutRaised, RetryOrGiveUp, GiveUp, Outcomes, States
<1>9. CASE Notification
  <2>1. air # <<>> /\ UNCHANGED <<pc, state>>
    BY <1>9 DEF Notification
  <2>2. QED
    BY <2>1
<1>10. CASE Finally \/ CancelTask \/ LinkDrop \/ UNCHANGED vars
  BY <1>10 DEF Finally, CancelTask, Crash, LinkDrop, vars
<1>11. QED
  BY <1>1, <1>2, <1>5, <1>6, <1>7, <1>8, <1>9, <1>10 DEF Next, Run, PerformCommand

\* An attempt that starts with nothing in the air meets only its own answer.
LEMMA AttemptOrderInv ==
    ASSUME TypeOK, NEW c \in Commands, air = <<>>, StartAttempt(c)
    PROVE  OrderInv'
<1>1. PICK sent \in Seq(Units) :
          /\ air' = air \o sent
          /\ Len(sent) <= Size[c]
          /\ \A i \in DOMAIN sent : sent[i].of = c
          /\ \A i \in DOMAIN sent : sent[i].kind = "exception" => Len(sent) = 1
  BY StartAttemptFacts
<1>2. air' = sent
  BY <1>1
<1>3. /\ state' = "PERFORMING_COMMAND" /\ pc' = "write" /\ current_command' = c
      /\ notify_future' = "pending" /\ notify_response' = <<>>
  BY StartAttemptFacts
<1>4. Len(notify_response') = 0 /\ DOMAIN notify_response' = {}
  BY <1>3
<1>5. Len(sent) \in Nat /\ Size[c] \in Nat
  BY <1>1, CommandsAssumption
<1>6. QED
  BY <1>1, <1>2, <1>3, <1>4, <1>5 DEF OrderInv, Stopped

\* Delivering a unit of the awaited answer leaves the rest of it in the air,
\* and nothing once the answer is accepted or rejected.
LEMMA NotificationOrderInv ==
    ASSUME TypeOK, RunInv, OrderInv, ~timedOut, Notification
    PROVE  OrderInv'
<1>1. /\ Len(air') = Len(air) - 1
      /\ Len(air) > 0
      /\ Head(air) = air[1] /\ 1 \in DOMAIN air
      /\ \A i \in DOMAIN air' : i + 1 \in DOMAIN air /\ air'[i] = air[i + 1]
      /\ air \in Seq(Units) /\ air' \in Seq(Units)
  BY DEF Notification, TypeOK
<1>2. UNCHANGED <<pc, state, timedOut, current_command>>
  BY DEF Notification
<1>3. ~(~Stopped /\ state \in {"CONNECTED", "READY", "COMMAND_ERROR_WAIT"})
  BY <1>1 DEF OrderInv
<1>4. ~(notify_future \in {"result", "parse_error", "modbus_error"} /\ Serving)
  BY <1>1 DEF OrderInv
<1>5. CASE ~Serving
  BY <1>2, <1>3, <1>5 DEF OrderInv, Serving, Stopped
<1>6. CASE Serving /\ UNCHANGED <<notify_future, notify_response>> /\ notify_future # "pending"
  BY <1>1, <1>2, <1>3, <1>4, <1>6 DEF OrderInv, Serving, Stopped
<1>7. CASE Serving /\ notify_future = "pending" /\ notify_future' = "bad_connection"
           /\ UNCHANGED notify_response
  BY <1>1, <1>2, <1>3, <1>7 DEF OrderInv, Serving, Stopped
<1>8. CASE /\ Serving /\ notify_future = "pending"
           /\ notify_response' = Append(notify_response, Head(air))
           /\ notify_future' = Verdict(current_command, notify_response')
  <2>1. /\ Len(notify_response') = Len(notify_response) + 1
        /\ Len(notify_response) \in Nat
        /\ \A i \in DOMAIN notify_response' :
               \/ notify_response'[i] = notify_response[i] /\ i \in DOMAIN notify_response
               \/ notify_response'[i] = air[1]
        /\ notify_response' \in Seq(Units)
    BY <1>1, <1>8 DEF TypeOK
  <2>2. Len(notify_response') + Len(air') <= Size[current_command]
    BY <1>1, <1>8, <2>1 DEF OrderInv
  <2>3. /\ \A i \in DOMAIN air' : air'[i].of = current_command'
        /\ \A i \in DOMAIN notify_response' :
               notify_response'[i].of = current_command'
    BY <1>1, <1>2, <1>8, <2>1 DEF OrderInv
  <2>4. current_command \in Commands /\ Size[current_command] \in Nat \ {0, 1}
    BY <1>8, CommandsAssumption DEF RunInv
  <2>5. CASE air[1].kind = "exception"
    <3>1. Len(air) = 1 /\ notify_response = <<>>
      BY <1>1, <1>8, <2>5 DEF OrderInv
    <3>2. notify_response' = <<air[1]>> /\ air' = <<>>
      BY <1>1, <1>8, <3>1
    <3>3. is_exception_response(current_command, notify_response')
      BY <1>1, <1>8, <2>5, <3>2 DEF is_exception_response, OrderInv
    <3>4. notify_future' = "modbus_error"
      BY <1>8, <2>1, <2>4, <3>1, <3>3 DEF Verdict
    <3>5. QED
      BY <1>2, <1>3, <2>3, <3>2, <3>4 DEF OrderInv, Serving, Stopped
  <2>6. CASE air[1].kind # "exception"
    <3>1. /\ \A i \in DOMAIN notify_response' : notify_response'[i].kind # "exception"
          /\ \A i \in DOMAIN air' : air'[i].kind # "exception"
      <4>1. \A i \in DOMAIN air' : Len(air) # 1
        BY <1>1
      <4>2. QED
        BY <1>1, <1>8, <2>1, <2>6, <4>1 DEF OrderInv
    <3>2. notify_future' \in {"result", "parse_error"} => air' = <<>>
      <4>1. notify_future' \in {"result", "parse_error"} => Len(notify_response') = Size[current_command]
        BY <1>8 DEF Verdict
      <4>2. QED
        BY <1>1, <2>1, <2>2, <2>4, <4>1
    <3>3. notify_future' # "modbus_error"
      <4>1. 1 \in DOMAIN notify_response'
        BY <2>1
      <4>2. ~is_exception_response(current_command, notify_response')
        BY <3>1, <4>1 DEF is_exception_response
      <4>3. QED
        BY <1>8, <4>2 DEF Verdict
    <3>4. QED
      BY <1>2, <1>3, <2>2, <2>3, <3>1, <3>2, <3>3 DEF OrderInv, Serving, Stopped
  <2>7. QED
    BY <2>5, <2>6
<1>9. QED
  BY <1>5, <1>6, <1>7, <1>8 DEF Notification, HandleNotification

\* Every step keeps the order between attempts and answers.
LEMMA OrderStep ==
    ASSUME TypeOK, RunInv, LinkInv, OrderInv, [Next]_vars
    PROVE  OrderInv'
<1>1. CASE timedOut'
  BY <1>1 DEF OrderInv
<1>2. CASE Connect
  BY <1>2 DEF Connect, OrderInv, LinkInv, Serving
<1>3. CASE ~timedOut /\ ~timedOut'
  <2> USE <1>3
  <2>1. CASE Caller
    BY <2>1 DEF Caller, Perform, CancelFuture, OrderInv, Serving, Stopped, attemptVars
  <2>2. CASE Session /\ ~Connect
    BY <2>2 DEF Session, ConnectFails, ConnectSleepEnds, GetName, StartListening, SetupFails,
       SetupCrashes, Disconnect, ReconnectDelayEnds, Crash, OrderInv, LinkInv, RunInv,
       Serving, Stopped, attemptVars
  <2>3. CASE TakeCommand
    <3>1. Head(command_queue) \in Commands /\ StartAttempt(Head(command_queue)) /\ air = <<>>
      BY <2>3 DEF TakeCommand, TypeOK, OrderInv, Stopped
    <3>2. QED
      BY <3>1, AttemptOrderInv
  <2>4. CASE WriteReturns \/ ResponseTimer
    BY <2>4 DEF WriteReturns, ResponseTimer, OrderInv, Serving, Stopped, attemptVars
  <2>5. CASE WriteFails \/ BadConnectionRaised
    BY <2>5 DEF WriteFails, BadConnectionRaised, SetFuture, Crash, OrderInv, Serving, Stopped
  <2>6. CASE ModbusErrorRaised \/ ResponseReceived
    BY <2>6 DEF ModbusErrorRaised, ResponseReceived, SetFuture, Crash, OrderInv, Serving, Stopped
  <2>7. CASE ParseErrorRaised
    BY <2>7 DEF ParseErrorRaised, OrderInv, Serving, Stopped
  <2>8. CASE WriteTimesOut \/ ResponseTimeout
    BY <2>8 DEF WriteTimesOut, ResponseTimeout, TimeoutRaised
  <2>9. CASE ErrorWaitEnds
    <3>1. current_command \in Commands /\ air = <<>> /\ RetryOrGiveUp(retries)
      BY <2>9 DEF ErrorWaitEnds, RunInv, OrderInv, Serving, Stopped
    <3>2. CASE StartAttempt(current_command)
      BY <3>1, <3>2, AttemptOrderInv
    <3>3. CASE GiveUp
      BY <3>1, <3>3 DEF GiveUp, SetFuture, Crash, OrderInv, Serving, Stopped
    <3>4. QED
      BY <3>1, <3>2, <3>3 DEF RetryOrGiveUp
  <2>10. CASE Notification
    BY <2>10, NotificationOrderInv
  <2>11. CASE Finally \/ CancelTask \/ UNCHANGED vars
    BY <2>11 DEF Finally, CancelTask, Crash, vars, OrderInv, Serving, Stopped
  <2>12. CASE LinkDrop
    <3>1. /\ air' = <<>> /\ Len(air') = 0 /\ DOMAIN air' = {}
          /\ UNCHANGED <<pc, state, notify_future, notify_response, current_command>>
      BY <2>12 DEF LinkDrop, attemptVars
    <3>2. Len(air) \in Nat /\ Len(notify_response) \in Nat
      BY DEF TypeOK
    <3>3. notify_future = "pending" => Size[current_command] \in Nat
      BY CommandsAssumption DEF RunInv
    <3>4. QED
      BY <3>1, <3>2, <3>3 DEF OrderInv, Serving, Stopped
  <2>13. QED
    BY <2>1, <2>2, <2>3, <2>4, <2>5, <2>6, <2>7, <2>8, <2>9, <2>10, <2>11, <2>12, <1>2
    DEF Next, Run, PerformCommand
<1>4. timedOut' \in BOOLEAN /\ (~timedOut' => Connect \/ ~timedOut)
  <2>1. timedOut' = timedOut \/ timedOut' = TRUE \/ Connect
    BY DEF Next, Caller, Perform, CancelFuture, Run, Session, ConnectFails, ConnectSleepEnds,
       GetName, StartListening, SetupFails, SetupCrashes, Disconnect, ReconnectDelayEnds,
       PerformCommand, TakeCommand, WriteReturns, WriteFails, WriteTimesOut, ResponseTimer,
       ResponseTimeout, TimeoutRaised, ResponseReceived, ModbusErrorRaised,
       BadConnectionRaised, ParseErrorRaised, ErrorWaitEnds, Finally, Notification,
       LinkDrop, CancelTask, vars
  <2>2. QED
    BY <2>1 DEF TypeOK, Connect
<1>5. QED
  BY <1>1, <1>2, <1>3, <1>4

-----------------------------------------------------------------------------
(* The theorems.                                                           *)

\* The inductive invariant holds before run() starts.
THEOREM InitIInv == Init => IInv
<1> SUFFICES ASSUME Init PROVE IInv
  OBVIOUS
<1> USE DEF Init
<1>1. <<>> \in Seq(Units) /\ <<>> \in Seq(Commands) /\ DOMAIN <<>> = {}
  OBVIOUS
<1>2. TypeOK
  <2>1. 0 \in 0..MaxRetries
    BY RetriesAssumption
  <2>2. /\ future \in [Commands -> {"none", "pending", "cancelled"} \cup Outcomes]
        /\ answer \in [Commands -> Commands \cup {NoCommand}]
    OBVIOUS
  <2>3. QED
    BY <1>1, <2>1, <2>2 DEF TypeOK, States, Locations, NotifyStates
<1>3. RunInv /\ LinkInv
  BY DEF RunInv, LinkInv, RunStateExpected, Serving
<1>4. QueueInv /\ ResultInv
  BY <1>1 DEF QueueInv, ServedIsOpen, NoLostCommand, Serving, ResultInv, ResultHasExpectedSize
<1>5. OrderInv
  BY DEF OrderInv, Serving
<1>6. QED
  BY <1>2, <1>3, <1>4, <1>5 DEF IInv

\* Every step of callers, run(), device and environment keeps the inductive
\* invariant.
THEOREM NextIInv == IInv /\ [Next]_vars => IInv'
<1> SUFFICES ASSUME IInv, [Next]_vars PROVE IInv'
  OBVIOUS
<1> USE DEF IInv
<1>1. TypeOK' /\ RunInv' /\ QueueInv' /\ ResultInv'
  BY TypeStep, RunStep, QueueStep, ResultStep
<1>2. LinkInv' /\ OrderInv'
  BY LinkStep, OrderStep
<1>3. QED
  BY <1>1, <1>2

\* The inductive invariant holds of every reachable state.
THEOREM Invariance == Spec => []IInv
  BY InitIInv, NextIInv, PTL DEF Spec

\* Every variable keeps its type; in particular at most MaxRetries attempts
\* are made for a command.
THEOREM TypeCorrect == Spec => []TypeOK
<1>1. IInv => TypeOK
  BY DEF IInv
<1>2. QED
  BY <1>1, Invariance, PTL

\* _perform_command() loses no command: a caller that waits is queued or being
\* served as long as run() lives.
THEOREM CommandsAreNotLost == Spec => []NoLostCommand
<1>1. IInv => NoLostCommand
  BY DEF IInv, QueueInv
<1>2. QED
  BY <1>1, Invariance, PTL

\* set_result() and set_exception() meet an unsettled future, or one that its
\* caller cancelled.
THEOREM ServedCommandIsOpen == Spec => []ServedIsOpen
<1>1. IInv => ServedIsOpen
  BY DEF IInv, QueueInv
<1>2. QED
  BY <1>1, Invariance, PTL

\* A result is a complete answer of the expected size.
THEOREM ResultsHaveExpectedSize == Spec => []ResultHasExpectedSize
<1>1. IInv => ResultHasExpectedSize
  BY DEF IInv, ResultInv
<1>2. QED
  BY <1>1, Invariance, PTL

\* run() never meets a state it has no branch for.
THEOREM NoUnexpectedState == Spec => []RunStateExpected
<1>1. IInv => RunStateExpected
  BY DEF IInv, RunInv
<1>2. QED
  BY <1>1, Invariance, PTL

\* On a connection without a timeout, a command that gets a result gets its own
\* answer, for any mixture of sizes, faults and retries.
LEMMA OwnAnswerStep ==
    ASSUME IInv, [Next]_vars, NEW c \in Commands, answer'[c] # answer[c], ~timedOut
    PROVE  answer'[c] = c
<1>1. CASE ResponseReceived
  <2>1. /\ answer' = [answer EXCEPT ![current_command] = notify_response[1].of]
        /\ notify_future = "result" /\ Serving
    BY <1>1 DEF ResponseReceived, Serving
  <2>2. 1 \in DOMAIN notify_response
    <3>1. is_valid_response(notify_response)
      BY <2>1 DEF IInv, ResultInv
    <3>2. PICK d \in Commands : notify_response = Reply(d, "data")
      BY <3>1 DEF is_valid_response
    <3>3. QED
      BY <3>2, CommandsAssumption DEF Reply
  <2>3. notify_response[1].of = current_command
    BY <2>1, <2>2 DEF IInv, OrderInv
  <2>4. QED
    BY <2>1, <2>3 DEF IInv, TypeOK
<1>2. CASE UNCHANGED answer
  BY <1>2
<1>3. QED
  BY <1>1, <1>2 DEF Next, Caller, Perform, CancelFuture, Run, Session, Connect, ConnectFails,
     ConnectSleepEnds, GetName, StartListening, SetupFails, SetupCrashes, Disconnect,
     ReconnectDelayEnds, PerformCommand, TakeCommand, WriteReturns, WriteFails,
     WriteTimesOut, ResponseTimer, ResponseTimeout, TimeoutRaised, ModbusErrorRaised,
     BadConnectionRaised, ParseErrorRaised, ErrorWaitEnds, Finally, Notification, LinkDrop,
     CancelTask, vars, callerVars

\* Answers are mixed up only after a timeout on the same connection.
THEOREM OwnAnswers == Spec => OwnAnswerUnlessTimedOut
<1>1. IInv /\ [Next]_vars =>
          [\A c \in Commands : answer'[c] \notin {answer[c], c} => timedOut]_vars
  BY OwnAnswerStep DEF IInv, TypeOK
<1>2. QED
  BY <1>1, Invariance, PTL DEF Spec, OwnAnswerUnlessTimedOut

-----------------------------------------------------------------------------
(* The service of a command comes to its end.                              *)

\* The places of an attempt in their order.
LEMMA ProgressValues ==
    ASSUME TypeOK
    PROVE  /\ retries \in Nat /\ Progress \in Nat
           /\ Progress <= 4 * retries + 3
           /\ pc = "error_wait" => Progress = 4 * retries
           /\ pc = "write" => Progress = 4 * retries + 1
           /\ pc = "wait" /\ notify_future = "pending" => Progress = 4 * retries + 2
           /\ pc = "wait" /\ notify_future # "pending" => Progress = 4 * retries + 3
<1>1. retries \in Nat
  BY RetriesAssumption DEF TypeOK
<1>2. QED
  BY <1>1 DEF Progress

\* The same after a step.
LEMMA ProgressPrimed ==
    ASSUME TypeOK'
    PROVE  /\ retries' \in Nat /\ Progress' \in Nat
           /\ Progress' <= 4 * retries' + 3
           /\ pc' = "error_wait" => Progress' = 4 * retries'
           /\ pc' = "write" => Progress' = 4 * retries' + 1
           /\ pc' = "wait" /\ notify_future' = "pending" => Progress' = 4 * retries' + 2
           /\ pc' = "wait" /\ notify_future' # "pending" => Progress' = 4 * retries' + 3
<1>1. retries' \in Nat
  BY RetriesAssumption DEF TypeOK
<1>2. QED
  BY <1>1 DEF Progress

\* The service ends, or its next attempt begins.
LEMMA RetryStartsAttempt ==
    ASSUME NEW attempts, RetryOrGiveUp(attempts), Serving'
    PROVE  pc' = "write"
BY DEF RetryOrGiveUp, StartAttempt, GiveUp, SetFuture, Crash, Serving

\* A failed attempt is counted before the next one begins.
LEMMA TimeoutAdvances ==
    ASSUME TypeOK, TypeOK', TimeoutRaised, Serving'
    PROVE  Progress < Progress'
<1>1. retries' = retries + 1 /\ pc' = "write"
  BY RetryStartsAttempt DEF TimeoutRaised
<1>2. Progress' = 4 * retries' + 1
  BY <1>1, ProgressValues, ProgressPrimed
<1>3. QED
  BY <1>1, <1>2, ProgressValues

\* Each step of run() within a service brings it nearer to its end.
LEMMA PerformAdvances ==
    ASSUME TypeOK, TypeOK', RunInv, PerformCommand, Serving, Serving'
    PROVE  Progress < Progress'
<1>1. ~TakeCommand
  BY DEF TakeCommand, Serving
<1>2. CASE WriteReturns
  <2>1. pc = "write" /\ pc' = "wait" /\ retries' = retries
    BY <1>2 DEF WriteReturns, attemptVars
  <2>2. QED
    BY <2>1, ProgressValues, ProgressPrimed
<1>3. ~WriteFails /\ ~ResponseReceived /\ ~ModbusErrorRaised /\ ~BadConnectionRaised
  BY DEF WriteFails, ResponseReceived, ModbusErrorRaised, BadConnectionRaised, SetFuture,
     Crash, Serving
<1>4. CASE WriteTimesOut \/ ResponseTimeout
  BY <1>4, TimeoutAdvances DEF WriteTimesOut, ResponseTimeout
<1>5. CASE ResponseTimer
  <2>1. /\ pc = "wait" /\ notify_future = "pending"
        /\ pc' = "wait" /\ notify_future' = "cancelled" /\ retries' = retries
    BY <1>5 DEF ResponseTimer
  <2>2. QED
    BY <2>1, ProgressValues, ProgressPrimed
<1>6. CASE ParseErrorRaised
  <2>1. /\ pc' = "error_wait" /\ retries' = retries + 1
    BY <1>6 DEF ParseErrorRaised
  <2>2. QED
    BY <2>1, ProgressValues, ProgressPrimed
<1>7. CASE ErrorWaitEnds
  <2>1. /\ pc = "error_wait" /\ pc' = "write" /\ retries' = retries
    BY <1>7, RetryStartsAttempt DEF ErrorWaitEnds
  <2>2. QED
    BY <2>1, ProgressValues, ProgressPrimed
<1>8. QED
  BY <1>1, <1>2, <1>3, <1>4, <1>5, <1>6, <1>7 DEF PerformCommand

\* No step of the others sets it back.
LEMMA OthersKeepProgress ==
    ASSUME TypeOK, TypeOK', [Next]_vars, ~PerformCommand, Serving, Serving'
    PROVE  Progress <= Progress'
<1>1. ~Session /\ ~Finally /\ ~CancelTask
  BY DEF Session, Connect, ConnectFails, ConnectSleepEnds, GetName, StartListening, SetupFails,
     SetupCrashes, Disconnect, ReconnectDelayEnds, Finally, CancelTask, Crash, Serving
<1>2. UNCHANGED <<pc, retries>>
  BY <1>1 DEF Next, Run, Caller, Perform, CancelFuture, Notification, LinkDrop, vars, attemptVars
<1>3. notify_future # "pending" => notify_future' = notify_future
  BY <1>1 DEF Next, Run, Caller, Perform, CancelFuture, Notification, HandleNotification,
     LinkDrop, vars, attemptVars
<1>4. QED
  BY <1>2, <1>3, ProgressValues, ProgressPrimed DEF Serving

\* Every failed attempt is counted: no step of the service comes back to a place
\* it has left.
THEOREM ServicesAdvance == Spec => ServiceAdvances
<1>1. IInv /\ IInv' /\ [Next]_vars =>
          [Serving /\ Serving' =>
               Progress <= Progress' /\ (PerformCommand => Progress < Progress')]_vars
  <2> SUFFICES ASSUME IInv, IInv', [Next]_vars, Serving, Serving'
               PROVE  Progress <= Progress' /\ (PerformCommand => Progress < Progress')
    OBVIOUS
  <2>1. TypeOK /\ TypeOK' /\ RunInv
    BY DEF IInv
  <2>2. PerformCommand => Progress < Progress'
    BY <2>1, PerformAdvances
  <2>3. ~PerformCommand => Progress <= Progress'
    BY <2>1, OthersKeepProgress
  <2>4. Progress \in Nat /\ Progress' \in Nat
    BY <2>1, ProgressValues, ProgressPrimed
  <2>5. QED
    BY <2>2, <2>3, <2>4
<1>2. QED
  BY <1>1, Invariance, PTL DEF Spec, ServiceAdvances

\* So the service of a command ends after 4 * MaxRetries steps of run() at most,
\* whatever the station answers.
THEOREM ServicesEnd == Spec => [](Serving => Progress <= 4 * MaxRetries)
<1>1. ASSUME TypeOK, RunInv, Serving
      PROVE  Progress <= 4 * MaxRetries
  <2>1. retries \in Nat /\ MaxRetries \in Nat /\ retries <= MaxRetries
    BY <1>1, RetriesAssumption DEF TypeOK
  <2>2. CASE pc = "error_wait"
    BY <1>1, <2>1, <2>2, ProgressValues
  <2>3. CASE pc \in {"write", "wait"}
    <3>1. retries < MaxRetries
      BY <1>1, <2>3 DEF RunInv
    <3>2. Progress <= 4 * retries + 3
      BY <1>1, <2>1, <2>3, ProgressValues
    <3> QED
      BY <2>1, <3>1, <3>2, <1>1, ProgressValues
  <2> QED
    BY <1>1, <2>2, <2>3 DEF Serving
<1> QED
  BY <1>1, Invariance, PTL DEF IInv

-----------------------------------------------------------------------------
(* The client implements the channel.                                      *)

Waiting == IF Serving THEN <<current_command>> \o command_queue ELSE command_queue

\* The head of the channel is the command being served, if there is one.
LEMMA WaitingFacts ==
    ASSUME TypeOK, RunInv, Serving
    PROVE  /\ Waiting # <<>>
           /\ Head(Waiting) = current_command
           /\ Tail(Waiting) = command_queue
<1>1. current_command \in Commands /\ command_queue \in Seq(Commands)
  BY DEF TypeOK, RunInv
<1>2. QED
  BY <1>1 DEF Waiting

\* Settling the future of the command being served, or failing to.
LEMMA SetFutureRefines ==
    ASSUME TypeOK, RunInv, Serving, UNCHANGED command_queue,
           NEW outcome \in Outcomes, NEW next, NEW here, SetFuture(outcome, next, here)
    PROVE  Channel!Settle(outcome) \/ Channel!Close
<1>1. ~Stopped /\ Waiting # <<>> /\ Head(Waiting) = current_command
      /\ Tail(Waiting) = command_queue
  BY WaitingFacts DEF Serving, Stopped
<1>2. CASE pc' = "loop"
  <2>1. Waiting' = command_queue /\ ~Stopped'
    BY <1>2 DEF Waiting, Serving, Stopped
  <2>2. /\ future[current_command] = "pending"
        /\ future' = [future EXCEPT ![current_command] = outcome]
    BY <1>2 DEF SetFuture, Crash
  <2>3. QED
    BY <1>1, <2>1, <2>2 DEF Channel!Settle, Waiting
<1>3. CASE pc' = "final"
  <2>1. Waiting' = command_queue /\ Stopped'
    BY <1>3 DEF Waiting, Serving, Stopped
  <2>2. UNCHANGED future
    BY <1>3 DEF SetFuture, Crash
  <2>3. QED
    BY <1>1, <2>1, <2>2 DEF Channel!Close, Waiting
<1>4. QED
  BY <1>2, <1>3 DEF SetFuture, Crash

\* Another attempt is invisible to callers; giving up settles the command.
LEMMA RetryRefines ==
    ASSUME TypeOK, RunInv, Serving, UNCHANGED command_queue, NEW attempts,
           RetryOrGiveUp(attempts)
    PROVE  Channel!Next \/ UNCHANGED Channel!channelVars
<1>1. CASE StartAttempt(current_command) /\ UNCHANGED future
  BY <1>1 DEF StartAttempt, Serving, Stopped, Channel!channelVars
<1>2. CASE GiveUp
  BY <1>2, SetFutureRefines DEF GiveUp, Outcomes, Channel!Next
<1>3. QED
  BY <1>1, <1>2 DEF RetryOrGiveUp

\* The end of run(), wherever it was.
LEMMA StoppingRefines ==
    ASSUME TypeOK, RunInv, UNCHANGED <<command_queue, future, current_command>>,
           ~Stopped, Stopped'
    PROVE  Channel!Close
<1>1. Waiting' = command_queue
  BY DEF Waiting, Serving, Stopped
<1>2. Waiting' = Waiting \/ (Waiting # <<>> /\ Waiting' = Tail(Waiting))
  BY <1>1, WaitingFacts DEF Waiting
<1>3. QED
  BY <1>2 DEF Channel!Close, Waiting

\* Every step of the client is a step of the channel or invisible to callers.
LEMMA StepRefines ==
    ASSUME TypeOK, RunInv, [Next]_vars
    PROVE  Channel!Next \/ UNCHANGED Channel!channelVars
<1>1. ASSUME NEW c \in Commands, Perform(c)
      PROVE  Channel!Submit(c)
  <2>1. Waiting' = Append(Waiting, c)
    <3>1. /\ command_queue \in Seq(Commands)
          /\ command_queue' = Append(command_queue, c)
          /\ UNCHANGED <<pc, current_command>>
      BY <1>1 DEF Perform, TypeOK, attemptVars
    <3>2. CASE Serving
      <4>1. current_command \in Commands
        BY <3>2 DEF RunInv
      <4>2. <<current_command>> \o Append(command_queue, c)
                = Append(<<current_command>> \o command_queue, c)
        BY <3>1, <4>1
      <4>3. QED
        BY <3>1, <3>2, <4>2 DEF Waiting, Serving
    <3>3. CASE ~Serving
      BY <3>1, <3>3 DEF Waiting, Serving
    <3>4. QED
      BY <3>2, <3>3
  <2>2. QED
    BY <1>1, <2>1 DEF Perform, Channel!Submit, Waiting, Stopped
<1>2. ASSUME NEW c \in Commands, CancelFuture(c)
      PROVE  Channel!Abandon(c)
  BY <1>2 DEF CancelFuture, Channel!Abandon, attemptVars, Serving, Stopped
<1>3. CASE Session
  <2>1. CASE \/ Connect \/ ConnectFails \/ ConnectSleepEnds \/ GetName \/ StartListening
             \/ SetupFails \/ Disconnect \/ ReconnectDelayEnds
    BY <2>1 DEF Connect, ConnectFails, ConnectSleepEnds, GetName, StartListening, SetupFails,
       Disconnect, ReconnectDelayEnds, callerVars, attemptVars, Serving, Stopped,
       Channel!channelVars
  <2>2. CASE SetupCrashes
    BY <2>2, StoppingRefines DEF SetupCrashes, Crash, Stopped, callerVars, attemptVars,
       Channel!Next
  <2>3. QED
    BY <1>3, <2>1, <2>2 DEF Session
<1>4. CASE PerformCommand
  <2>1. CASE TakeCommand
    <3>1. /\ command_queue \in Seq(Commands) /\ command_queue # <<>>
          /\ command_queue' = Tail(command_queue)
          /\ current_command' = Head(command_queue)
          /\ ~Serving /\ Serving' /\ ~Stopped /\ ~Stopped'
          /\ UNCHANGED future
      BY <2>1 DEF TakeCommand, StartAttempt, Serving, Stopped, TypeOK
    <3>2. <<Head(command_queue)>> \o Tail(command_queue) = command_queue
      BY <3>1
    <3>3. QED
      BY <3>1, <3>2 DEF Channel!channelVars
  <2>2. CASE WriteReturns \/ ResponseTimer \/ ParseErrorRaised
    BY <2>2 DEF WriteReturns, ResponseTimer, ParseErrorRaised, callerVars, attemptVars,
       Serving, Stopped, Channel!channelVars
  <2>3. CASE WriteFails \/ ModbusErrorRaised \/ BadConnectionRaised \/ ResponseReceived
    <3>1. Serving /\ UNCHANGED command_queue
      BY <2>3 DEF WriteFails, ModbusErrorRaised, BadConnectionRaised, ResponseReceived, Serving
    <3>2. PICK outcome \in Outcomes, next \in States : SetFuture(outcome, next, state)
      BY <2>3 DEF WriteFails, ModbusErrorRaised, BadConnectionRaised, ResponseReceived,
                  Outcomes, States
    <3>3. QED
      BY <3>1, <3>2, SetFutureRefines DEF Channel!Next
  <2>4. CASE WriteTimesOut \/ ResponseTimeout \/ ErrorWaitEnds
    <3>1. Serving /\ UNCHANGED command_queue
      BY <2>4 DEF WriteTimesOut, ResponseTimeout, ErrorWaitEnds, TimeoutRaised, Serving
    <3>2. RetryOrGiveUp(retries + 1) \/ RetryOrGiveUp(retries)
      BY <2>4 DEF WriteTimesOut, ResponseTimeout, ErrorWaitEnds, TimeoutRaised
    <3>3. QED
      BY <3>1, <3>2, RetryRefines
  <2>5. QED
    BY <1>4, <2>1, <2>2, <2>3, <2>4 DEF PerformCommand
<1>5. CASE CancelTask
  BY <1>5, StoppingRefines DEF CancelTask, Crash, Stopped, callerVars, Channel!Next
<1>6. CASE Finally \/ Notification \/ LinkDrop \/ UNCHANGED vars
  BY <1>6 DEF Finally, Notification, LinkDrop, vars, callerVars, attemptVars, Serving,
     Stopped, Channel!channelVars
<1>7. QED
  BY <1>1, <1>2, <1>3, <1>4, <1>5, <1>6 DEF Next, Caller, Run, Channel!Next

\* The client is a first-in first-out channel: commands are settled at most
\* once and in the order they were submitted, whatever goes wrong.
THEOREM Refinement == Spec => ImplementsChannel
<1>1. Init => Channel!Init
  BY DEF Init, Channel!Init, Serving, Stopped
<1>2. IInv /\ [Next]_vars => [Channel!Next]_Channel!channelVars
  BY StepRefines DEF IInv
<1>3. QED
  BY <1>1, <1>2, Invariance, PTL DEF Spec, ImplementsChannel, Channel!Spec
-----------------------------------------------------------------------------
(* The client lives as the rest of the program assumes.                    *)

\* Where the task is, against its state and the link: a session is over before
\* its link is, and a client without a session has no link.
LifeInv ==
    /\ Serving => state \in {"PERFORMING_COMMAND", "COMMAND_ERROR_WAIT"}
    /\ pc = "reconnect_delay" => state = "DISCONNECTING"
    /\ pc = "reconnect_delay" \/ state = "NOT_CONNECTED" => ~link

\* Settling a command leaves the service, and never to NOT_CONNECTED.
LEMMA SetFutureLifeInv ==
    ASSUME LifeInv, Serving, UNCHANGED link, NEW outcome,
           NEW next \in {"READY", "DISCONNECTING"}, NEW here \in {state, "COMMAND_ERROR_WAIT"},
           SetFuture(outcome, next, here)
    PROVE  LifeInv'
BY DEF SetFuture, Crash, LifeInv, Serving

\* So does giving up; another attempt stays in it.
LEMMA RetryLifeInv ==
    ASSUME LifeInv, Serving, UNCHANGED link, NEW attempts, RetryOrGiveUp(attempts)
    PROVE  LifeInv'
<1>1. CASE StartAttempt(current_command)
  BY <1>1 DEF StartAttempt, LifeInv, Serving
<1>2. CASE GiveUp
  BY <1>2, SetFutureLifeInv DEF GiveUp
<1> QED
  BY <1>1, <1>2 DEF RetryOrGiveUp

\* Every step keeps it.
LEMMA LifeStep ==
    ASSUME RunInv, LifeInv, [Next]_vars
    PROVE  LifeInv'
<1>1. CASE Session
  BY <1>1 DEF Session, Connect, ConnectFails, ConnectSleepEnds, GetName, StartListening,
     SetupFails, SetupCrashes, Crash, Disconnect, ReconnectDelayEnds, LifeInv, RunInv, Serving
<1>2. CASE PerformCommand
  <2>1. CASE TakeCommand
    BY <2>1 DEF TakeCommand, StartAttempt, LifeInv, Serving
  <2>2. CASE WriteReturns \/ ResponseTimer \/ ParseErrorRaised
    BY <2>2 DEF WriteReturns, ResponseTimer, ParseErrorRaised, LifeInv, Serving
  <2>3. CASE WriteFails \/ ModbusErrorRaised \/ BadConnectionRaised \/ ResponseReceived
    BY <2>3, SetFutureLifeInv
       DEF WriteFails, ModbusErrorRaised, BadConnectionRaised, ResponseReceived, Serving
  <2>4. CASE WriteTimesOut \/ ResponseTimeout \/ ErrorWaitEnds
    BY <2>4, RetryLifeInv
       DEF WriteTimesOut, ResponseTimeout, ErrorWaitEnds, TimeoutRaised, Serving
  <2> QED
    BY <1>2, <2>1, <2>2, <2>3, <2>4 DEF PerformCommand
<1>3. CASE Caller \/ Finally \/ Notification \/ LinkDrop \/ CancelTask \/ UNCHANGED vars
  BY <1>3 DEF Caller, Perform, CancelFuture, Finally, Notification, LinkDrop, CancelTask,
     Crash, Stopped, attemptVars, vars, LifeInv, Serving
<1> QED
  BY <1>1, <1>2, <1>3 DEF Next, Run

\* A command that is served or settled leaves the client ready, fails the
\* session or ends the task.
LEMMA SetFutureLives ==
    ASSUME LifeInv, Serving, UNCHANGED link, NEW outcome,
           NEW next \in {"READY", "DISCONNECTING"}, NEW here \in {state, "COMMAND_ERROR_WAIT"},
           SetFuture(outcome, next, here)
    PROVE  [Life!Next]_Life!lifeVars
<1> USE DEF LifeInv, Serving, Task, SessionState
<1>1. Task = "running" /\ SessionState = "READY"
  OBVIOUS
<1>2. CASE pc' = "loop" /\ state' = next
  <2>1. Task' = "running" /\ SessionState' = next
    BY <1>2
  <2> QED
    BY <1>1, <2>1 DEF Life!Next, Life!Fail, Life!lifeVars
<1>3. CASE pc' = "final" /\ state' = here
  <2>1. Task' = "finally" /\ SessionState' = "READY"
    BY <1>3
  <2> QED
    BY <1>1, <2>1 DEF Life!Next, Life!End
<1> QED
  BY <1>2, <1>3 DEF SetFuture, Crash

LEMMA RetryLives ==
    ASSUME LifeInv, Serving, UNCHANGED link, NEW attempts, RetryOrGiveUp(attempts)
    PROVE  [Life!Next]_Life!lifeVars
<1>1. CASE StartAttempt(current_command)
  BY <1>1 DEF StartAttempt, LifeInv, Serving, Task, SessionState, Life!lifeVars
<1>2. CASE GiveUp
  BY <1>2, SetFutureLives DEF GiveUp
<1> QED
  BY <1>1, <1>2 DEF RetryOrGiveUp

\* Every step of the client is a step of its life or invisible.
LEMMA StepLives ==
    ASSUME TypeOK, RunInv, LifeInv, [Next]_vars
    PROVE  [Life!Next]_Life!lifeVars
<1>1. CASE Session
  <2> USE DEF Task, SessionState
  <2>1. Connect => Life!Connect
    BY DEF Connect, LifeInv, Life!Connect
  <2>2. StartListening => Life!Listen
    BY DEF StartListening, Life!Listen
  <2>3. SetupFails => Life!Fail
    BY DEF SetupFails, Life!Fail
  <2>4. SetupCrashes => Life!End
    BY DEF SetupCrashes, Crash, Life!End
  <2>5. Disconnect => Life!Drop \/ UNCHANGED Life!lifeVars
    BY DEF Disconnect, TypeOK, Life!Drop, Life!lifeVars
  <2>6. ReconnectDelayEnds => Life!Disconnect
    BY DEF ReconnectDelayEnds, LifeInv, TypeOK, Life!Disconnect
  <2>7. ConnectFails \/ ConnectSleepEnds \/ GetName => UNCHANGED Life!lifeVars
    BY DEF ConnectFails, ConnectSleepEnds, GetName, Life!lifeVars
  <2> QED
    BY <1>1, <2>1, <2>2, <2>3, <2>4, <2>5, <2>6, <2>7 DEF Session, Life!Next
<1>2. CASE PerformCommand
  <2>1. CASE TakeCommand
    BY <2>1 DEF TakeCommand, StartAttempt, Task, SessionState, Life!lifeVars
  <2>2. CASE WriteReturns \/ ResponseTimer \/ ParseErrorRaised
    BY <2>2 DEF WriteReturns, ResponseTimer, ParseErrorRaised, LifeInv, Serving, Task,
       SessionState, Life!lifeVars
  <2>3. CASE WriteFails \/ ModbusErrorRaised \/ BadConnectionRaised \/ ResponseReceived
    BY <2>3, SetFutureLives
       DEF WriteFails, ModbusErrorRaised, BadConnectionRaised, ResponseReceived, Serving
  <2>4. CASE WriteTimesOut \/ ResponseTimeout \/ ErrorWaitEnds
    BY <2>4, RetryLives
       DEF WriteTimesOut, ResponseTimeout, ErrorWaitEnds, TimeoutRaised, Serving
  <2> QED
    BY <1>2, <2>1, <2>2, <2>3, <2>4 DEF PerformCommand
<1>3. CASE CancelTask
  BY <1>3 DEF CancelTask, Crash, Stopped, Task, SessionState, Life!Next, Life!End
<1>4. CASE Finally
  BY <1>4 DEF Finally, Task, SessionState, Life!Next, Life!Finish
<1>5. CASE LinkDrop
  BY <1>5 DEF LinkDrop, Task, SessionState, Life!Next, Life!Drop
<1>6. CASE Caller \/ Notification \/ UNCHANGED vars
  BY <1>6 DEF Caller, Perform, CancelFuture, Notification, vars, Task, SessionState,
     Life!lifeVars
<1> QED
  BY <1>1, <1>2, <1>3, <1>4, <1>5, <1>6 DEF Next, Run

\* The client is the one DeviceHandler assumes: it never connects on top of a
\* connection, and it always disconnects between two sessions.
THEOREM LivesAsAssumed == Spec => ImplementsLife
<1>1. Init => LifeInv /\ Life!Init
  BY DEF Init, LifeInv, Serving, Task, SessionState, Life!Init
<1>2. IInv /\ LifeInv /\ [Next]_vars => LifeInv'
  BY LifeStep DEF IInv
<1>3. IInv /\ LifeInv /\ [Next]_vars => [Life!Next]_Life!lifeVars
  BY StepLives DEF IInv
<1> QED
  BY <1>1, <1>2, <1>3, Invariance, PTL DEF Spec, ImplementsLife, Life!Spec
=============================================================================
