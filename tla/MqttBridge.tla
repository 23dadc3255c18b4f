----------------------------- MODULE MqttBridge -----------------------------
(***************************************************************************)
(* The path of a poll result to the MQTT broker, and of an MQTT command    *)
(* back to the bus: EventBus (bus.py), MQTTClient (mqtt_client.py) and the *)
(* command listener of DeviceHandler.                                      *)
(*                                                                         *)
(* MQTTClient.run() connects to the broker again and again.  Each          *)
(* connection registers one more listener with the bus, replaces           *)
(* message_queue, and starts a _handle_commands() and a _handle_messages() *)
(* coroutine; when one of the two fails, the other one lives on with the   *)
(* queue and the connection it has.  Hence one queue and one handler per   *)
(* connection.  An action is what runs between two awaits.                 *)
(***************************************************************************)
EXTENDS Naturals, Sequences

CONSTANTS
    Devices,         \* the devices polled
    Configs,         \* discovery entries of a device (Home Assistant)
    Topics,          \* state topics published for one poll result
    Announce,        \* FALSE for --ha-config none
    MaxMessages,     \* bound: poll results put on the bus
    MaxCommands,     \* bound: commands received from the broker
    MaxConnections,  \* bound: connections to the broker
    Faults           \* what may go wrong, a subset of AllFaults

AllFaults == {"connect_error", "broker_drop", "publish_timeout"}

ASSUME BoundsAssumption ==
    /\ Configs \in Nat \ {0} /\ Topics \in Nat \ {0}
    /\ MaxMessages \in Nat /\ MaxCommands \in Nat /\ MaxConnections \in Nat
ASSUME OptionsAssumption == Announce \in BOOLEAN /\ Faults \subseteq AllFaults

VARIABLES
    bus_task,        \* EventBus.run(): "running" or "failed"
    bus_queue,       \* EventBus.queue
    run,             \* MQTTClient.run()
    connections,     \* connections made so far, hence parser_listeners
    up,              \* the current connection to the broker works
    queue,           \* queue[k]: message_queue of the k-th connection
    handler,         \* handler[k]: _handle_messages() of the k-th connection
    devices,         \* MQTTClient.devices
    announced,       \* the broker: discovery entries received per device
    shown,           \* the broker: latest poll result on each state topic
    produced,        \* poll results so far
    commands,        \* commands received so far
    handed,          \* history: poll results queued on this connection
    copies           \* history: times a poll result was published entirely

busVars == <<bus_task, bus_queue>>
brokerVars == <<announced, shown, copies>>
envVars == <<produced, commands>>
vars == <<bus_task, bus_queue, run, connections, up, queue, handler, devices,
          announced, shown, produced, commands, handed, copies>>

Connections == 1..MaxConnections
Results == [type : {"parser"}, device : Devices, id : 1..MaxMessages]
Commands == [type : {"command"}, device : Devices]
Idle == [at |-> "get"]
Gone == [at |-> "gone"]
Handlers ==
    {Idle, Gone}
    \cup [at : {"init"}, msg : Results, sent : 0..Configs]
    \cup [at : {"publish"}, msg : Results, sent : 0..Topics]

Init ==
    /\ bus_task = "running" /\ bus_queue = <<>>
    /\ run = "connecting" /\ connections = 0 /\ up = FALSE
    /\ queue = [k \in Connections |-> <<>>]
    /\ handler = [k \in Connections |-> Gone]
    /\ devices = {}
    /\ announced = [d \in Devices |-> 0]
    /\ shown = [d \in Devices |-> [t \in 1..Topics |-> 0]]
    /\ produced = 0 /\ commands = 0
    /\ handed = {}
    /\ copies = [id \in 1..MaxMessages |-> 0]

-----------------------------------------------------------------------------
(* The bus.                                                                *)

\* A poller puts a ParserMessage on the bus (_poll_with_command).
PutResult(d) ==
    /\ run # "stopped"
    /\ produced < MaxMessages
    /\ produced' = produced + 1
    /\ bus_queue' = Append(bus_queue, [type |-> "parser", device |-> d, id |-> produced'])
    /\ UNCHANGED <<bus_task, run, connections, up, queue, handler, devices,
                   commands, handed, brokerVars>>

\* Mutants: the newest result comes first; one listener too many.
PrependCopies(q, msg, n) == [i \in 1..n |-> msg] \o q
AppendMoreCopies(q, msg, n) == q \o [i \in 1..(n + 1) |-> msg]

\* n copies of msg at the end of q: one for each listener.
AppendCopies(q, msg, n) == q \o [i \in 1..n |-> msg]

\* Mutant: the listener keeps the queue of the first connection.
NotifyFirstQueue ==
    /\ bus_task = "running"
    /\ bus_queue # <<>> /\ Head(bus_queue).type = "parser"
    /\ bus_queue' = Tail(bus_queue)
    /\ IF connections > 0
       THEN /\ queue' = [queue EXCEPT ![1] = AppendCopies(@, Head(bus_queue), connections)]
            /\ handed' = handed \cup {Head(bus_queue)}
       ELSE UNCHANGED <<queue, handed>>
    /\ UNCHANGED <<bus_task, run, connections, up, handler, devices, envVars,
                   brokerVars>>

\* gather() over the parser listeners: handle_message() is registered once per
\* connection and always puts into the message_queue of the latest one.
NotifyParserListeners ==
    /\ bus_task = "running"
    /\ bus_queue # <<>> /\ Head(bus_queue).type = "parser"
    /\ bus_queue' = Tail(bus_queue)
    /\ IF connections > 0
       THEN /\ queue' = [queue EXCEPT ![connections] =
                            AppendCopies(@, Head(bus_queue), connections)]
            /\ handed' = handed \cup {Head(bus_queue)}
       ELSE UNCHANGED <<queue, handed>>
    /\ UNCHANGED <<bus_task, run, connections, up, handler, devices, envVars,
                   brokerVars>>

\* DeviceHandler.handle_command(): a command for a device that is not ready is
\* dropped.  For a ready one, MultiDeviceManager.perform_nowait() calls a
\* method BluetoothClient does not have; the AttributeError ends bus.run().
NotifyCommandListeners ==
    /\ bus_task = "running"
    /\ bus_queue # <<>> /\ Head(bus_queue).type = "command"
    /\ bus_queue' = Tail(bus_queue)
    /\ bus_task' \in {"running", "failed"}
    /\ UNCHANGED <<run, connections, up, queue, handler, devices, envVars,
                   handed, brokerVars>>

\* The global exception handler shuts the server down: all tasks are cancelled.
Shutdown ==
    /\ bus_task = "failed" /\ run # "stopped"
    /\ run' = "stopped"
    /\ up' = FALSE
    /\ handler' = [k \in Connections |-> Gone]
    /\ UNCHANGED <<busVars, connections, queue, devices, envVars, handed, brokerVars>>

-----------------------------------------------------------------------------
(* MQTTClient.run().                                                       *)

Connect ==
    /\ run = "connecting"
    /\ connections < MaxConnections
    /\ connections' = connections + 1
    /\ run' = "connected"
    /\ up' = TRUE
    /\ queue' = [queue EXCEPT ![connections'] = <<>>]
    /\ handler' = [handler EXCEPT ![connections'] = Idle]
    /\ handed' = {}
    /\ UNCHANGED <<busVars, devices, envVars, brokerVars>>

ConnectFails ==
    /\ "connect_error" \in Faults
    /\ run = "connecting"
    /\ run' = "sleep"
    /\ UNCHANGED <<busVars, connections, up, queue, handler, devices, envVars,
                   handed, brokerVars>>

\* Five seconds after an MqttError.
SleepEnds ==
    /\ run = "sleep"
    /\ run' = "connecting"
    /\ UNCHANGED <<busVars, connections, up, queue, handler, devices, envVars,
                   handed, brokerVars>>

\* The environment; never the last connection of the bound.
BrokerDrop ==
    /\ "broker_drop" \in Faults /\ connections < MaxConnections
    /\ up
    /\ up' = FALSE
    /\ UNCHANGED <<busVars, run, connections, queue, handler, devices, envVars,
                   handed, brokerVars>>

\* The message iterator of _handle_commands() raises when the connection is
\* lost; gather() passes it on and leaves _handle_messages() alone.
CommandsFail ==
    /\ run = "connected" /\ ~up
    /\ run' = "sleep"
    /\ UNCHANGED <<busVars, connections, up, queue, handler, devices, envVars,
                   handed, brokerVars>>

\* _handle_command() for a known device and a settable field.
ReceiveCommand(d) ==
    /\ run = "connected" /\ up
    /\ commands < MaxCommands
    /\ d \in devices
    /\ commands' = commands + 1
    /\ bus_queue' = Append(bus_queue, [type |-> "command", device |-> d])
    /\ UNCHANGED <<bus_task, run, connections, up, queue, handler, devices,
                   produced, handed, brokerVars>>

-----------------------------------------------------------------------------
(* _handle_messages() of connection k.                                     *)

Live(k) == k = connections /\ run = "connected" /\ up

\* Mutant: the device is not registered.
TakeMessageForgetsDevice(k) ==
    /\ handler[k].at = "get" /\ queue[k] # <<>>
    /\ handler' = [handler EXCEPT ![k] =
           [at |-> IF Head(queue[k]).device \notin devices /\ Announce
                   THEN "init" ELSE "publish",
            msg |-> Head(queue[k]), sent |-> 0]]
    /\ queue' = [queue EXCEPT ![k] = Tail(@)]
    /\ UNCHANGED <<busVars, run, connections, up, devices, envVars, handed, brokerVars>>

\* A device seen for the first time is registered before it is announced.
TakeMessage(k) ==
    /\ handler[k].at = "get" /\ queue[k] # <<>>
    /\ LET msg == Head(queue[k])
           new == msg.device \notin devices
       IN  /\ devices' = devices \cup {msg.device}
           /\ handler' = [handler EXCEPT ![k] =
                  [at |-> IF new /\ Announce THEN "init" ELSE "publish",
                   msg |-> msg, sent |-> 0]]
    /\ queue' = [queue EXCEPT ![k] = Tail(@)]
    /\ UNCHANGED <<busVars, run, connections, up, envVars, handed, brokerVars>>

\* Mutant: the last discovery entry is left out.
PublishConfigStopsEarly(k) ==
    /\ handler[k].at = "init" /\ Live(k)
    /\ announced' = [announced EXCEPT ![handler[k].msg.device] = @ + 1]
    /\ handler' = [handler EXCEPT ![k] =
           IF @.sent + 2 < Configs THEN [@ EXCEPT !.sent = handler[k].sent + 1]
           ELSE [at |-> "publish", msg |-> @.msg, sent |-> 0]]
    /\ UNCHANGED <<busVars, run, connections, up, queue, devices, shown, envVars,
                   handed, copies>>

\* _init_device(): one discovery entry.
PublishConfig(k) ==
    /\ handler[k].at = "init" /\ Live(k)
    /\ announced' = [announced EXCEPT ![handler[k].msg.device] = @ + 1]
    /\ handler' = [handler EXCEPT ![k] =
           IF @.sent + 1 < Configs THEN [@ EXCEPT !.sent = handler[k].sent + 1]
           ELSE [at |-> "publish", msg |-> @.msg, sent |-> 0]]
    /\ UNCHANGED <<busVars, run, connections, up, queue, devices, shown, envVars,
                   handed, copies>>

\* _handle_message(): one state topic.
PublishState(k) ==
    /\ handler[k].at = "publish" /\ Live(k)
    /\ LET msg == handler[k].msg
           topic == handler[k].sent + 1
       IN  /\ shown' = [shown EXCEPT ![msg.device][topic] = msg.id]
           /\ IF topic < Topics
              THEN /\ handler' = [handler EXCEPT ![k].sent = topic]
                   /\ UNCHANGED copies
              ELSE /\ handler' = [handler EXCEPT ![k] = Idle]
                   /\ copies' = [copies EXCEPT ![msg.id] = @ + 1]
    /\ UNCHANGED <<busVars, run, connections, up, queue, devices, announced,
                   envVars, handed>>

\* Mutant: the error ends the handler and run() does not notice.
PublishFailsSilently(k) ==
    /\ handler[k].at \in {"init", "publish"}
    /\ ~Live(k) \/ ("publish_timeout" \in Faults /\ connections < MaxConnections)
    /\ handler' = [handler EXCEPT ![k] = Gone]
    /\ UNCHANGED <<busVars, run, connections, up, queue, devices, envVars, handed,
                   brokerVars>>

\* publish() raises MqttError: at once on a lost connection, or because the
\* broker does not confirm in time.  The message in hand is lost.  On the
\* current connection run() disconnects; a leftover handler just ends.
PublishFails(k) ==
    /\ handler[k].at \in {"init", "publish"}
    /\ ~Live(k) \/ ("publish_timeout" \in Faults /\ connections < MaxConnections)
    /\ handler' = [handler EXCEPT ![k] = Gone]
    /\ IF k = connections /\ run = "connected"
       THEN run' = "sleep" /\ up' = FALSE
       ELSE UNCHANGED <<run, up>>
    /\ UNCHANGED <<busVars, connections, queue, devices, envVars, handed, brokerVars>>

-----------------------------------------------------------------------------
Poller == \E d \in Devices : PutResult(d)
Bus == NotifyParserListeners \/ NotifyCommandListeners \/ Shutdown
Broker == BrokerDrop \/ \E d \in Devices : ReceiveCommand(d)
Session == Connect \/ ConnectFails \/ SleepEnds \/ CommandsFail
Handler(k) == TakeMessage(k) \/ PublishConfig(k) \/ PublishState(k) \/ PublishFails(k)

Next == Poller \/ Bus \/ Broker \/ Session \/ \E k \in Connections : Handler(k)

Spec == Init /\ [][Next]_vars

-----------------------------------------------------------------------------
(* Properties.                                                             *)

\* Type invariant.
TypeOK ==
    /\ bus_task \in {"running", "failed"}
    /\ bus_queue \in Seq(Results \cup Commands)
    /\ run \in {"connecting", "connected", "sleep", "stopped"}
    /\ connections \in 0..MaxConnections /\ up \in BOOLEAN
    /\ queue \in [Connections -> Seq(Results)]
    /\ handler \in [Connections -> Handlers]
    /\ devices \in SUBSET Devices
    /\ announced \in [Devices -> 0..Configs]
    /\ shown \in [Devices -> [1..Topics -> 0..MaxMessages]]
    /\ produced \in 0..MaxMessages /\ commands \in 0..MaxCommands
    /\ handed \in SUBSET Results
    /\ copies \in [1..MaxMessages -> Nat]

\* The value on a state topic is never replaced by an older one, whatever
\* handlers and queues earlier connections left behind.
NeverGoesBack ==
    [][\A d \in Devices, t \in 1..Topics : shown'[d][t] >= shown[d][t]]_vars

\* On a connection no poll result is lost between the bus and the broker.
NoLostResult ==
    run = "connected" =>
        \A msg \in handed :
            \/ \E i \in DOMAIN queue[connections] : queue[connections][i] = msg
            \/ handler[connections].at \in {"init", "publish"} /\ handler[connections].msg = msg
            \/ \A t \in 1..Topics : shown[msg.device][t] >= msg.id

\* A session with the broker has a handler: one that ends ends the session, or
\* run() would stay connected for ever and publish nothing.
SessionHasHandler == run = "connected" => handler[connections] # Gone

\* Each connection to the broker adds one copy of every poll result at most:
\* the listeners add up.
CopiesPerConnection == \A id \in 1..MaxMessages : copies[id] <= connections

\* On the first connection, a device is announced entirely before its state is
\* published.
AnnouncedFirst ==
    Announce /\ connections = 1 =>
        \A d \in Devices, t \in 1..Topics :
            shown[d][t] > 0 => announced[d] = Configs

\* "By default most data and switches will be automatically configured there"
\* (README.rst): a device whose state is published has been announced.
DeviceIsConfigured ==
    Announce =>
        \A d \in Devices, t \in 1..Topics :
            shown[d][t] > 0 => announced[d] = Configs

\* "Commands can be sent to the bluetti/command/... topic" (README.rst): a
\* command for a device the server has published does not end the bus.
CommandsDoNotEndTheBus == bus_task = "running"

\* Tasks run whenever they can, and the broker does not refuse every attempt.
Fairness ==
    /\ WF_vars(Bus)
    /\ WF_vars(ConnectFails \/ SleepEnds \/ CommandsFail)
    /\ SF_vars(Connect)
    /\ \A k \in Connections : WF_vars(Handler(k))

FairSpec == Spec /\ Fairness

\* After any loss of the broker the bridge connects again and catches up: at
\* some point nothing is queued and the handler waits for the next result,
\* unless a command has ended the program.
CatchesUp ==
    \/ []<>(/\ Live(connections) /\ bus_queue = <<>>
            /\ queue[connections] = <<>> /\ handler[connections] = Idle)
    \/ <>(run = "stopped")
=============================================================================
