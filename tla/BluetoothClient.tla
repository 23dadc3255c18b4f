--------------------------- MODULE BluetoothClient ---------------------------
(***************************************************************************)
(* One BluetoothClient (bluetooth/client.py): the run() task that connects *)
(* to a device, takes commands from command_queue and serves them one at a *)
(* time; the notification callback that assembles answers; the callers of  *)
(* perform(); and the device at the other end of the radio link.           *)
(*                                                                         *)
(* An action is what runs between two awaits.  The bytes of an answer are  *)
(* abstracted to units: Size[c] units make up a complete answer to c.  A   *)
(* unit remembers which command it answers, which the bytes do not say.    *)
(***************************************************************************)
EXTENDS Naturals, Sequences

CONSTANTS
    Commands,       \* the commands callers submit, each at most once
    NoCommand,      \* "no command": current_command before the first one
    Size,           \* Size[c]: response_size() of c, in units
    FunctionCode,   \* FunctionCode[c]: the MODBUS function code of c
    MaxRetries,     \* attempts per command (5 in the code)
    Impatient,      \* commands whose caller may cancel the future (wait_for)
    Faults          \* what may go wrong, a subset of AllFaults

AllFaults ==
    {"connect_error", "setup_error", "setup_crash", "write_error",
     "write_timeout", "disconnect_crash", "link_drop", "cancel_task",
     "silent", "corrupt", "exception", "at_notification"}

\* An exception answer (5 bytes) is one unit and shorter than any answer.
ASSUME CommandsAssumption ==
    /\ NoCommand \notin Commands
    /\ Size \in [Commands -> Nat \ {0, 1}]
    /\ DOMAIN FunctionCode = Commands
    /\ Impatient \subseteq Commands
ASSUME RetriesAssumption == MaxRetries \in Nat \ {0}
ASSUME FaultsAssumption == Faults \subseteq AllFaults

VARIABLES
    state,            \* ClientState
    pc,               \* where run() waits; "loop" is the await of its branch
    name,             \* whether the device name is known
    link,             \* whether the BLE link is up
    air,              \* units sent by the device and not yet delivered
    timedOut,         \* history: an attempt timed out on this connection
    command_queue,
    future,           \* the future perform() gave the caller of each command
    answer,           \* the command whose answer a "result" carries
    current_command,
    retries,
    notify_future,
    notify_response

callerVars == <<command_queue, future, answer>>
attemptVars == <<current_command, retries, notify_future, notify_response>>
vars == <<state, pc, name, link, air, timedOut, command_queue, future, answer,
          current_command, retries, notify_future, notify_response>>

States == {"NOT_CONNECTED", "CONNECTED", "READY", "PERFORMING_COMMAND",
           "COMMAND_ERROR_WAIT", "DISCONNECTING"}
Locations == {"loop", "connect_sleep", "write", "wait", "error_wait",
              "reconnect_delay", "final", "dead"}
Outcomes == {"result", "modbus_error", "connection_error", "bad_connection",
             "too_many_retries"}
NotifyStates == {"none", "pending", "cancelled", "result", "parse_error",
                 "modbus_error", "bad_connection"}
Units == [of : Commands, part : Nat,
          kind : {"data", "noise", "exception", "at_notification"}]

is_ready == state \in {"READY", "PERFORMING_COMMAND"}
Serving == pc \in {"write", "wait", "error_wait"}
Stopped == pc \in {"final", "dead"}
Queued(c) == \E i \in DOMAIN command_queue : command_queue[i] = c

Init ==
    /\ state = "NOT_CONNECTED"
    /\ pc = "loop"
    /\ name = FALSE
    /\ link = FALSE
    /\ air = <<>>
    /\ timedOut = FALSE
    /\ command_queue = <<>>
    /\ future = [c \in Commands |-> "none"]
    /\ answer = [c \in Commands |-> NoCommand]
    /\ current_command = NoCommand
    /\ retries = 0
    /\ notify_future = "none"
    /\ notify_response = <<>>

-----------------------------------------------------------------------------
(* The device: what it may send once a request has been written.           *)

Reply(c, kind) == [i \in 1..Size[c] |-> [of |-> c, part |-> i, kind |-> kind]]
Single(c, kind) == <<[of |-> c, part |-> 1, kind |-> kind]>>

Reactions(c) ==
    {Reply(c, "data")}
    \cup {Reply(c, "noise") : f \in Faults \cap {"corrupt"}}
    \cup {Single(c, f) : f \in Faults \cap {"exception", "at_notification"}}
    \cup {<<>> : f \in Faults \cap {"silent"}}

-----------------------------------------------------------------------------
(* Callers.                                                                *)

\* perform(): the caller gets a future, the command goes to the queue.
Perform(c) ==
    /\ future[c] = "none"
    /\ future' = [future EXCEPT ![c] = "pending"]
    /\ command_queue' = Append(command_queue, c)
    /\ UNCHANGED <<state, pc, name, link, air, timedOut, answer, attemptVars>>

\* asyncio.wait_for() around the future gives up: the future is cancelled,
\* the command stays where it is.
CancelFuture(c) ==
    /\ c \in Impatient
    /\ future[c] = "pending"
    /\ future' = [future EXCEPT ![c] = "cancelled"]
    /\ UNCHANGED <<state, pc, name, link, air, timedOut, command_queue, answer,
                   attemptVars>>

-----------------------------------------------------------------------------
(* run(): connecting, reading the name, subscribing, disconnecting.        *)

\* An exception nobody catches leaves run() through its finally clause;
\* the state stays what it was.
Crash == pc' = "final"

Connect ==
    /\ pc = "loop" /\ state = "NOT_CONNECTED"
    /\ state' = "CONNECTED"
    /\ link' = TRUE
    /\ timedOut' = FALSE
    /\ UNCHANGED <<pc, name, air, callerVars, attemptVars>>

\* BleakError: tried again at once; EOFError or TimeoutError: one second later.
ConnectFails ==
    /\ "connect_error" \in Faults
    /\ pc = "loop" /\ state = "NOT_CONNECTED"
    /\ pc' \in {"loop", "connect_sleep"}
    /\ UNCHANGED <<state, name, link, air, timedOut, callerVars, attemptVars>>

ConnectSleepEnds ==
    /\ pc = "connect_sleep"
    /\ pc' = "loop"
    /\ UNCHANGED <<state, name, link, air, timedOut, callerVars, attemptVars>>

\* An empty name counts as none and is read again.
GetName ==
    /\ pc = "loop" /\ state = "CONNECTED" /\ ~name /\ link
    /\ name' \in BOOLEAN
    /\ UNCHANGED <<state, pc, link, air, timedOut, callerVars, attemptVars>>

StartListening ==
    /\ pc = "loop" /\ state = "CONNECTED" /\ name /\ link
    /\ state' = "READY"
    /\ UNCHANGED <<pc, name, link, air, timedOut, callerVars, attemptVars>>

\* Mutant: a failure to subscribe leads to the next connection at once.
SetupReconnects ==
    /\ ~link \/ "setup_error" \in Faults
    /\ pc = "loop" /\ state = "CONNECTED"
    /\ state' = "NOT_CONNECTED"
    /\ UNCHANGED <<pc, name, link, air, timedOut, callerVars, attemptVars>>

\* BleakError from reading the name or from subscribing.
SetupFails ==
    /\ ~link \/ "setup_error" \in Faults
    /\ pc = "loop" /\ state = "CONNECTED"
    /\ state' = "DISCONNECTING"
    /\ UNCHANGED <<pc, name, link, air, timedOut, callerVars, attemptVars>>

\* Any other exception there (EOFError, TimeoutError, a name that is not
\* ASCII) or any exception while disconnecting.
SetupCrashes ==
    /\ pc = "loop"
    /\ \/ "setup_crash" \in Faults /\ state = "CONNECTED"
       \/ "disconnect_crash" \in Faults /\ state = "DISCONNECTING"
    /\ Crash
    /\ UNCHANGED <<state, name, link, air, timedOut, callerVars, attemptVars>>

Disconnect ==
    /\ pc = "loop" /\ state = "DISCONNECTING"
    /\ link' = FALSE
    /\ air' = <<>>
    /\ pc' = "reconnect_delay"
    /\ UNCHANGED <<state, name, timedOut, callerVars, attemptVars>>

\* Mutant: the state is left DISCONNECTING after the delay.
ReconnectDelayForgetsState ==
    /\ pc = "reconnect_delay"
    /\ pc' = "loop"
    /\ UNCHANGED <<state, name, link, air, timedOut, callerVars, attemptVars>>

ReconnectDelayEnds ==
    /\ pc = "reconnect_delay"
    /\ state' = "NOT_CONNECTED"
    /\ pc' = "loop"
    /\ UNCHANGED <<name, link, air, timedOut, callerVars, attemptVars>>

-----------------------------------------------------------------------------
(* run(): performing one command.                                          *)

\* A fresh notify_future and buffer, and the request written out.
StartAttempt(c) ==
    /\ state' = "PERFORMING_COMMAND"
    /\ pc' = "write"
    /\ current_command' = c
    /\ notify_future' = "pending"
    /\ notify_response' = <<>>
    /\ \E sent \in IF link THEN Reactions(c) ELSE {<<>>} : air' = air \o sent

\* Mutant: the newest command is taken first.
TakeNewestCommand ==
    /\ pc = "loop" /\ state = "READY"
    /\ command_queue # <<>>
    /\ command_queue' = SubSeq(command_queue, 1, Len(command_queue) - 1)
    /\ retries' = 0
    /\ StartAttempt(command_queue[Len(command_queue)])
    /\ UNCHANGED <<name, link, timedOut, future, answer>>

TakeCommand ==
    /\ pc = "loop" /\ state = "READY"
    /\ command_queue # <<>>
    /\ command_queue' = Tail(command_queue)
    /\ retries' = 0
    /\ StartAttempt(Head(command_queue))
    /\ UNCHANGED <<name, link, timedOut, future, answer>>

\* cmd_future.set_result() or set_exception(), then on to state "next".  On a
\* future that is done it raises InvalidStateError, in state "here".
SetFuture(outcome, next, here) ==
    \/ /\ future[current_command] = "pending"
       /\ future' = [future EXCEPT ![current_command] = outcome]
       /\ state' = next
       /\ pc' = "loop"
    \/ /\ future[current_command] # "pending"
       /\ Crash
       /\ state' = here
       /\ UNCHANGED future

\* Mutants: the caller is not told; the state is not set.
GiveUpSilently ==
    /\ state' = "DISCONNECTING"
    /\ pc' = "loop"
    /\ UNCHANGED <<future, air, current_command, notify_future, notify_response>>

GiveUpForgetsState ==
    /\ SetFuture("too_many_retries", "COMMAND_ERROR_WAIT", "COMMAND_ERROR_WAIT")
    /\ UNCHANGED <<air, current_command, notify_future, notify_response>>

GiveUp ==
    /\ SetFuture("too_many_retries", "DISCONNECTING", "COMMAND_ERROR_WAIT")
    /\ UNCHANGED <<air, current_command, notify_future, notify_response>>

\* Mutant: one attempt too many.
RetryOnceMore(attempts) ==
    \/ attempts <= MaxRetries /\ StartAttempt(current_command) /\ UNCHANGED future
    \/ attempts > MaxRetries /\ GiveUp

RetryOrGiveUp(attempts) ==
    \/ attempts < MaxRetries /\ StartAttempt(current_command) /\ UNCHANGED future
    \/ attempts = MaxRetries /\ GiveUp

\* asyncio.TimeoutError: counted, and tried again without any wait.
TimeoutRaised ==
    /\ timedOut' = TRUE
    /\ retries' = retries + 1
    /\ RetryOrGiveUp(retries + 1)
    /\ UNCHANGED <<name, link, command_queue, answer>>

WriteReturns ==
    /\ pc = "write" /\ link
    /\ pc' = "wait"
    /\ UNCHANGED <<state, name, link, air, timedOut, callerVars, attemptVars>>

\* BleakError (always when the link is down) or EOFError from the write.
WriteFails ==
    /\ ~link \/ "write_error" \in Faults
    /\ pc = "write"
    /\ SetFuture("connection_error", "DISCONNECTING", state)
    /\ UNCHANGED <<name, link, air, timedOut, command_queue, answer, attemptVars>>

WriteTimesOut ==
    /\ "write_timeout" \in Faults
    /\ pc = "write"
    /\ TimeoutRaised

\* wait_for()'s timer cancels notify_future; the task resumes later.
ResponseTimer ==
    /\ pc = "wait" /\ notify_future = "pending"
    /\ notify_future' = "cancelled"
    /\ UNCHANGED <<state, pc, name, link, air, timedOut, callerVars,
                   current_command, retries, notify_response>>

\* Since Python 3.12 a timer that expires after notify_future is done and
\* before the task resumes raises TimeoutError as well.
ResponseTimeout ==
    /\ pc = "wait" /\ notify_future # "pending"
    /\ TimeoutRaised

ResponseReceived ==
    /\ pc = "wait" /\ notify_future = "result"
    /\ SetFuture("result", "READY", state)
    /\ answer' = IF future[current_command] = "pending"
                 THEN [answer EXCEPT ![current_command] = notify_response[1].of]
                 ELSE answer
    /\ UNCHANGED <<name, link, air, timedOut, command_queue, attemptVars>>

\* Mutant: a device error is reported and then tried again.
ModbusErrorRetried ==
    /\ pc = "wait" /\ notify_future = "modbus_error"
    /\ future[current_command] = "pending"
    /\ future' = [future EXCEPT ![current_command] = "modbus_error"]
    /\ StartAttempt(current_command)
    /\ UNCHANGED <<name, link, timedOut, command_queue, answer, retries>>

ModbusErrorRaised ==
    /\ pc = "wait" /\ notify_future = "modbus_error"
    /\ SetFuture("modbus_error", "READY", state)
    /\ UNCHANGED <<name, link, air, timedOut, command_queue, answer, attemptVars>>

BadConnectionRaised ==
    /\ pc = "wait" /\ notify_future = "bad_connection"
    /\ SetFuture("bad_connection", "DISCONNECTING", state)
    /\ UNCHANGED <<name, link, air, timedOut, command_queue, answer, attemptVars>>

\* Mutant: a bad checksum does not count as an attempt.
ParseErrorNotCounted ==
    /\ pc = "wait" /\ notify_future = "parse_error"
    /\ state' = "COMMAND_ERROR_WAIT"
    /\ pc' = "error_wait"
    /\ UNCHANGED <<name, link, air, timedOut, callerVars, attemptVars>>

\* A bad checksum is waited out before the next attempt.
ParseErrorRaised ==
    /\ pc = "wait" /\ notify_future = "parse_error"
    /\ state' = "COMMAND_ERROR_WAIT"
    /\ pc' = "error_wait"
    /\ retries' = retries + 1
    /\ UNCHANGED <<name, link, air, timedOut, callerVars, current_command,
                   notify_future, notify_response>>

ErrorWaitEnds ==
    /\ pc = "error_wait"
    /\ RetryOrGiveUp(retries)
    /\ UNCHANGED <<name, link, timedOut, command_queue, answer, retries>>

-----------------------------------------------------------------------------
(* _notification_handler(), called by bleak for what the device sent.      *)

\* is_valid_response(): the checksum holds for an answer received from its
\* first to its last unit.  It does not say which command was answered.
is_valid_response(received) ==
    \E c \in Commands : received = Reply(c, "data")

is_exception_response(c, received) ==
    /\ received[1].kind = "exception"
    /\ FunctionCode[received[1].of] = FunctionCode[c]

\* Mutants: the checksum alone decides; the first notification decides.
VerdictIgnoresSize(c, received) ==
    CASE is_valid_response(received) -> "result"
      [] OTHER -> "pending"

VerdictAfterFirstUnit(c, received) ==
    CASE received[1].kind = "data" -> "result"
      [] OTHER -> "pending"

Verdict(c, received) ==
    CASE Len(received) = Size[c] /\ is_valid_response(received) -> "result"
      [] Len(received) = Size[c] /\ ~is_valid_response(received) -> "parse_error"
      [] Len(received) # Size[c] /\ is_exception_response(c, received) -> "modbus_error"
      [] OTHER -> "pending"

HandleNotification(unit) ==
    \/ /\ notify_future # "pending"
       /\ UNCHANGED <<notify_future, notify_response>>
    \/ /\ notify_future = "pending" /\ unit.kind = "at_notification"
       /\ notify_future' = "bad_connection"
       /\ UNCHANGED notify_response
    \/ /\ notify_future = "pending" /\ unit.kind # "at_notification"
       /\ notify_response' = Append(notify_response, unit)
       /\ notify_future' = Verdict(current_command, notify_response')

Notification ==
    /\ air # <<>>
    /\ air' = Tail(air)
    /\ HandleNotification(Head(air))
    /\ UNCHANGED <<state, pc, name, link, timedOut, callerVars, current_command,
                   retries>>

-----------------------------------------------------------------------------
(* The environment, and the end of the task.                               *)

LinkDrop ==
    /\ "link_drop" \in Faults
    /\ link
    /\ link' = FALSE
    /\ air' = <<>>
    /\ UNCHANGED <<state, pc, name, timedOut, callerVars, attemptVars>>

\* Task.cancel() by the owner of run(); a wait_for() passes it on.
CancelTask ==
    /\ "cancel_task" \in Faults
    /\ ~Stopped
    /\ Crash
    /\ notify_future' = IF pc = "wait" /\ notify_future = "pending"
                        THEN "cancelled" ELSE notify_future
    /\ UNCHANGED <<state, name, link, air, timedOut, callerVars, current_command,
                   retries, notify_response>>

\* The finally clause of run().
Finally ==
    /\ pc = "final"
    /\ pc' = "dead"
    /\ \/ link' = FALSE /\ air' = <<>>
       \/ "disconnect_crash" \in Faults /\ UNCHANGED <<link, air>>
    /\ UNCHANGED <<state, name, timedOut, callerVars, attemptVars>>

-----------------------------------------------------------------------------
Caller == \E c \in Commands : Perform(c) \/ CancelFuture(c)

Session ==
    \/ Connect \/ ConnectFails \/ ConnectSleepEnds
    \/ GetName \/ StartListening \/ SetupFails \/ SetupCrashes
    \/ Disconnect \/ ReconnectDelayEnds

PerformCommand ==
    \/ TakeCommand \/ WriteReturns \/ WriteFails \/ WriteTimesOut
    \/ ResponseTimer \/ ResponseTimeout \/ ResponseReceived
    \/ ModbusErrorRaised \/ BadConnectionRaised
    \/ ParseErrorRaised \/ ErrorWaitEnds

Run == Session \/ PerformCommand \/ Finally

Next == Caller \/ Run \/ Notification \/ LinkDrop \/ CancelTask

Spec == Init /\ [][Next]_vars
-----------------------------------------------------------------------------
(* Properties.                                                             *)

\* Type invariant; "retries \in 0..MaxRetries" bounds the attempts the loop
\* of _perform_command() makes.
TypeOK ==
    /\ state \in States
    /\ pc \in Locations
    /\ name \in BOOLEAN /\ link \in BOOLEAN /\ timedOut \in BOOLEAN
    /\ air \in Seq(Units)
    /\ command_queue \in Seq(Commands)
    /\ future \in [Commands -> {"none", "pending", "cancelled"} \cup Outcomes]
    /\ answer \in [Commands -> Commands \cup {NoCommand}]
    /\ current_command \in Commands \cup {NoCommand}
    /\ retries \in 0..MaxRetries
    /\ notify_future \in NotifyStates
    /\ notify_response \in Seq(Units)

\* Every path out of _perform_command() settles the command it took: as long
\* as run() lives, a caller still waiting is queued or being served.
NoLostCommand ==
    \A c \in Commands : future[c] = "pending" =>
        Stopped \/ Queued(c) \/ (Serving /\ current_command = c)

\* A future is settled at most once: the command being served is not settled
\* yet, so that only a caller that cancelled it can make set_result() or
\* set_exception() raise InvalidStateError and end run().
ServedIsOpen ==
    Serving => future[current_command] \in {"pending", "cancelled"}

\* A result is a complete, undamaged answer to some command with a response of
\* the expected size: all that the size and checksum tests establish.
ResultHasExpectedSize ==
    \A c \in Commands : future[c] = "result" =>
        answer[c] \in Commands /\ Size[answer[c]] = Size[c]

\* As long as no attempt timed out on this connection, a command gets its own
\* answer: retries after a bad checksum and reconnections never mix answers up.
OwnAnswerUnlessTimedOut ==
    [][\A c \in Commands : answer'[c] \notin {answer[c], c} => timedOut]_vars

\* run() never reaches its "Unexpected current state" branch, which would
\* connect again on top of a connection.
RunStateExpected ==
    pc = "loop" =>
        state \in {"NOT_CONNECTED", "CONNECTED", "READY", "DISCONNECTING"}

\* "Ignore notifications we don't expect" (comment in _notification_handler):
\* a command is never settled with the answer to another one.
OwnAnswer == \A c \in Commands : answer[c] \in {NoCommand, c}

\* How far the service of a command has come: its failed attempts count four
\* each, the places of the attempt under way one each.
Progress ==
    4 * retries + CASE pc = "error_wait" -> 0
                    [] pc = "write" -> 1
                    [] pc = "wait" /\ notify_future = "pending" -> 2
                    [] OTHER -> 3

\* While a command is served, each step of run() brings the service nearer to
\* its end, at 4 * MaxRetries at the latest, and no step of callers, device or
\* environment sets it back: no error is tried again without being counted.
ServiceAdvances ==
    [][Serving /\ Serving' =>
           Progress <= Progress' /\ (PerformCommand => Progress < Progress')]_vars

\* The client is a first-in first-out channel that settles each command at
\* most once, in submission order, across retries and reconnections.
Channel == INSTANCE CommandChannel WITH
    waiting <- IF Serving THEN <<current_command>> \o command_queue
                          ELSE command_queue,
    open <- ~Stopped
ImplementsChannel == Channel!Spec

\* What the rest of the program sees of the client: its task, its state and its
\* link.
Task == CASE pc = "dead" -> "ended" [] pc = "final" -> "finally" [] OTHER -> "running"
SessionState == IF state \in {"PERFORMING_COMMAND", "COMMAND_ERROR_WAIT"} THEN "READY" ELSE state

\* It is the client that DeviceHandler assumes: a session that fails is closed
\* before the next one begins, whatever failed in it, there is never a second
\* connection on top of a first, and a task that ends leaves its state as it was.
Life == INSTANCE ClientLife WITH task <- Task, state <- SessionState, connected <- link
ImplementsLife == Life!Spec

\* The event loop runs the task whenever it can run, and the radio is not
\* broken for ever: a connection, a name and a subscription that are tried
\* again and again succeed at some point.
Fairness ==
    /\ WF_vars(Run)
    /\ SF_vars(Connect)
    /\ SF_vars(GetName /\ name')
    /\ SF_vars(StartListening)

FairSpec == Spec /\ Fairness

\* Every command is settled in the end, even by a device that never answers:
\* each wait is bounded by a timer and the attempts are counted.
CommandsSettle ==
    \A c \in Commands : future[c] = "pending" ~> future[c] # "pending"

\* The client always gets back to serving commands, whatever went wrong.
ReadyAgain == []<>is_ready
=============================================================================
