---------------------------- MODULE DeviceHandler ----------------------------
(***************************************************************************)
(* The server at work on one station: DeviceHandler's poller and pack      *)
(* poller, what the MQTT client makes of their results, the Bluetooth      *)
(* client as far as they depend on it, and the end of the program          *)
(* (server_cli.py): uncaught exceptions, signals, overlapping shutdowns.   *)
(*                                                                         *)
(* Bus, broker and reconnections are those of MqttBridge, the service of   *)
(* a command is that of BluetoothClient.                                   *)
(***************************************************************************)
EXTENDS DeviceMaps

CONSTANTS
    Prefixed,   \* what the name of the station may begin with
    Modes,      \* --ha-config
    MaxFaults,  \* bound: reads, links and tasks that fail
    MaxSignals  \* bound: signals (SIGHUP, SIGTERM, SIGINT) and MQTT commands

ASSUME ModesAssumption == Modes \subseteq {"normal", "none", "advanced"}
ASSUME BoundsAssumption == MaxFaults \in Nat /\ MaxSignals \in Nat

VARIABLES
    device_name,  \* BluetoothClient.name: its prefix
    mode,         \* home_assistant_mode
    at,           \* where each poller is: waiting or in its i-th read
    client,       \* BluetoothClient.run(): running, in its finally clause, ended
    state,        \* BluetoothClient.state
    connected,    \* the link to the station exists
    devices,      \* the station is in MQTTClient.devices
    announced,    \* state topics announced to Home Assistant
    shown,        \* first register of the read a topic shows, or 0
    server,       \* "running", "stopping", "stopped"
    handler,      \* DeviceHandler.run(): running, failed, reported, cancelled
    requested,    \* shutdown() tasks that have not begun
    shutdowns,    \* history: shutdown() tasks that have begun
    crashed,      \* history: BluetoothClient.run() has raised
    faults, signals

optionVars == <<device_name, mode>>
linkVars == <<client, state, connected, crashed>>
brokerVars == <<devices, announced, shown>>
serverVars == <<server, requested, shutdowns, signals>>
vars == <<optionVars, at, linkVars, brokerVars, serverVars, handler, faults>>

Pollers == {"poll", "packs"}
Waiting == [pc |-> "wait", i |-> 0]
Finished == [pc |-> "done", i |-> 0]
Cancelled == [pc |-> "ended", i |-> 0]
is_ready == state = "READY"
type == build_device(device_name)
Known == device_name \in Prefixes
Commands(p) == IF p = "poll" THEN Stations[type].polling ELSE Stations[type].packs
Current(p) == Commands(p)[at[p].i]
FieldsOfKind(p, kinds) ==
    {f \in FieldsIn(Stations[type].fields, Current(p)) : f.kind \in kinds}

-----------------------------------------------------------------------------
(* Topics.                                                                 *)

\* The topics that _handle_message() publishes for a parsed result.
TopicsOf(parsed, pack) ==
    (parsed \cap NORMAL_DEVICE_FIELDS)
    \cup {t \in DOMAIN DC_INPUT_FIELDS : DC_INPUT_FIELDS[t] \in parsed}
    \cup IF "pack_num" \in parsed /\ parsed \cap (battery_pack_fields \cup {"cell_voltages"}) # {}
         THEN {PackDetails[pack]} ELSE {}

\* The state topics that _init_device() announces.  The advanced flag of the
\* battery pack fields is not looked at; one field announces all DC inputs.
Announcements ==
    IF mode = "none" THEN {}
    ELSE {n \in Stations[type].normal : n \in Advanced => mode = "advanced"}
         \cup {PackDetails[k] : k \in {j \in 1..Stations[type].pack_num_max :
                  battery_pack_fields \cap Stations[type].names # {}}}
         \cup IF "internal_dc_input_voltage" \in Stations[type].names THEN DOMAIN DC_INPUT_FIELDS ELSE {}

\* The state topics of the station.
StationTopics ==
    IF ~Known THEN {}
    ELSE Stations[type].normal \cup DOMAIN DC_INPUT_FIELDS
         \cup {PackDetails[k] : k \in 1..Stations[type].pack_num_max}

\* One of these results comes by the bus: the first one announces the station.
Publish(results, first) ==
    /\ devices' = TRUE
    /\ announced' = IF devices THEN announced ELSE Announcements
    /\ \E topics \in {TopicsOf(parsed, pack) :
               parsed \in results, pack \in 1..Stations[type].pack_num_max} :
           shown' = [t \in StationTopics |-> IF t \in topics THEN first ELSE shown[t]]

-----------------------------------------------------------------------------
Init ==
    /\ device_name \in Prefixed /\ mode \in Modes
    /\ at = [p \in Pollers |-> Waiting]
    /\ client = "running" /\ state = "NOT_CONNECTED" /\ connected = FALSE
    /\ devices = FALSE /\ announced = {} /\ shown = [t \in StationTopics |-> 0]
    /\ server = "running" /\ handler = "running"
    /\ requested = 0 /\ shutdowns = 0 /\ crashed = FALSE
    /\ faults = 0 /\ signals = 0

Fault == faults < MaxFaults /\ faults' = faults + 1

\* gather() passes the first exception on and DeviceHandler.run() ends, while
\* the other tasks go on; it swallows those that follow.
HandlerFails == handler' = IF handler = "running" THEN "failed" ELSE handler

\* A poller raises.
Raise(p) ==
    /\ at' = [at EXCEPT ![p] = Cancelled]
    /\ HandlerFails

-----------------------------------------------------------------------------
(* The pollers.                                                            *)

\* A name that is not in DEVICE_NAME_RE: build_device() raises.
UnknownName(p) ==
    /\ at[p].pc = "wait" /\ is_ready
    /\ ~Known
    /\ Raise(p)
    /\ UNCHANGED <<optionVars, linkVars, brokerVars, serverVars, faults>>

StartPoll ==
    /\ at["poll"].pc = "wait" /\ is_ready /\ Known
    /\ at' = [at EXCEPT !["poll"] = [pc |-> "read", i |-> 1]]
    /\ UNCHANGED <<optionVars, linkVars, brokerVars, serverVars, handler, faults>>

\* There is nothing to poll, or there is one pack.
StartPackPoll ==
    /\ at["packs"].pc = "wait" /\ is_ready /\ Known
    /\ Commands("packs") = <<>> \/ Stations[type].pack_num_max = 1
    /\ at' = [at EXCEPT !["packs"] =
           IF Commands("packs") = <<>> THEN Finished ELSE [pc |-> "read", i |-> 1]]
    /\ UNCHANGED <<optionVars, linkVars, brokerVars, serverVars, handler, faults>>

\* Several packs: perform_nowait() raises AttributeError before the first read.
SwitchPack ==
    /\ at["packs"].pc = "wait" /\ is_ready /\ Known
    /\ Commands("packs") # <<>> /\ Stations[type].pack_num_max > 1
    /\ Raise("packs")
    /\ UNCHANGED <<optionVars, linkVars, brokerVars, serverVars, faults>>

\* Mutant: one command too many.
NextCommandPastEnd(p) ==
    at' = [at EXCEPT ![p] = IF @.i <= Len(Commands(p)) THEN [pc |-> "read", i |-> @.i + 1] ELSE Waiting]

NextCommand(p) ==
    at' = [at EXCEPT ![p] = IF @.i < Len(Commands(p)) THEN [pc |-> "read", i |-> @.i + 1] ELSE Waiting]

Serving == client = "running" /\ is_ready /\ connected

\* Fields whose value is out of range are skipped.
ReadSucceeds(p) ==
    /\ at[p].pc = "read" /\ Serving
    /\ \/ Publish({parse(type, Current(p), {})}, Current(p).first) /\ UNCHANGED faults
       \/ Fault /\ Publish({parse(type, Current(p), skipped) : skipped \in
              (SUBSET FieldsOfKind(p, {"ranged"})) \ {{}}}, Current(p).first)
    /\ NextCommand(p)
    /\ UNCHANGED <<optionVars, linkVars, serverVars, handler>>

\* A value outside its enumeration, or text that is not ASCII.
ConversionFails(p) ==
    /\ at[p].pc = "read" /\ Serving /\ Fault
    /\ FieldsOfKind(p, {"enum", "text"}) # {}
    /\ Raise(p)
    /\ UNCHANGED <<optionVars, linkVars, brokerVars, serverVars>>

\* A ModbusError is logged.
ReadRejected(p) ==
    /\ at[p].pc = "read" /\ Serving /\ Fault
    /\ NextCommand(p)
    /\ UNCHANGED <<optionVars, linkVars, brokerVars, serverVars, handler>>

\* The client gives up and will reconnect.  BleakError and BadConnectionError
\* are logged, EOFError is not caught.
ConnectionFails(p) ==
    /\ at[p].pc = "read" /\ client = "running" /\ is_ready
    /\ IF connected THEN Fault ELSE UNCHANGED faults
    /\ state' = "DISCONNECTING"
    /\ \/ NextCommand(p) /\ UNCHANGED handler
       \/ Raise(p)
    /\ UNCHANGED <<optionVars, client, connected, crashed, brokerVars, serverVars>>

-----------------------------------------------------------------------------
(* BluetoothClient.run() of the station.                                   *)

Connect ==
    /\ client = "running" /\ state = "NOT_CONNECTED"
    /\ state' = "CONNECTED" /\ connected' = TRUE
    /\ UNCHANGED <<optionVars, at, client, crashed, brokerVars, serverVars, handler, faults>>

\* Mutant: the client is ready whether the subscription succeeds or not.
StartListeningBlindly ==
    /\ client = "running" /\ state = "CONNECTED"
    /\ state' = "READY"
    /\ UNCHANGED <<optionVars, at, client, connected, crashed, brokerVars, serverVars, handler, faults>>

\* The name is read, and notifications are subscribed to, or that fails.
StartListening ==
    /\ client = "running" /\ state = "CONNECTED"
    /\ \/ connected /\ state' = "READY" /\ UNCHANGED faults
       \/ state' = "DISCONNECTING" /\ IF connected THEN Fault ELSE UNCHANGED faults
    /\ UNCHANGED <<optionVars, at, client, connected, crashed, brokerVars, serverVars, handler>>

Disconnect ==
    /\ client = "running" /\ state = "DISCONNECTING"
    /\ state' = "NOT_CONNECTED" /\ connected' = FALSE
    /\ UNCHANGED <<optionVars, at, client, crashed, brokerVars, serverVars, handler, faults>>

\* The environment.
LinkDrop ==
    /\ connected /\ Fault
    /\ connected' = FALSE
    /\ UNCHANGED <<optionVars, at, client, state, crashed, brokerVars, serverVars, handler>>

\* An exception that run() does not catch; the state stays what it was.
Crash ==
    /\ client = "running" /\ Fault
    /\ client' = "finally" /\ crashed' = TRUE
    /\ UNCHANGED <<optionVars, at, state, connected, brokerVars, serverVars, handler>>

\* Mutant: the task ends without disconnecting.
EndsConnected ==
    /\ client = "finally"
    /\ client' = "ended"
    /\ HandlerFails
    /\ UNCHANGED <<optionVars, at, state, connected, crashed, brokerVars, serverVars, faults>>

\* Mutant: the manager does not pass the exception on.
EndsUnnoticed ==
    /\ client = "finally"
    /\ client' = "ended" /\ connected' = FALSE
    /\ UNCHANGED <<optionVars, at, state, crashed, brokerVars, serverVars, handler, faults>>

\* The finally clause has disconnected.  An exception that ended run() ends
\* MultiDeviceManager.run() and DeviceHandler.run().
DisconnectAtEnd ==
    /\ client = "finally"
    /\ client' = "ended" /\ connected' = FALSE
    /\ HandlerFails
    /\ UNCHANGED <<optionVars, at, state, crashed, brokerVars, serverVars, faults>>

-----------------------------------------------------------------------------
(* The end of the program.                                                 *)

\* The failed task is collected: handle_global_exception().
UncaughtException ==
    /\ handler = "failed" /\ server # "stopped"
    /\ handler' = "reported"
    /\ requested' = requested + 1
    /\ UNCHANGED <<optionVars, at, linkVars, brokerVars, server, shutdowns, signals, faults>>

Signal ==
    /\ server # "stopped" /\ signals < MaxSignals
    /\ signals' = signals + 1
    /\ requested' = requested + 1
    /\ UNCHANGED <<optionVars, at, linkVars, brokerVars, server, shutdowns, handler, faults>>

\* _handle_command(): commands for fields without a setter are ignored, also
\* those that are announced with a command topic; a payload that cannot be
\* converted ends mqtt_task.  A command for a station that is not ready is
\* dropped, for one that is, perform_nowait() ends bus_task.
ReceiveCommand(field) ==
    /\ server = "running" /\ devices /\ signals < MaxSignals
    /\ has_field_setter(type, field)
    /\ signals' = signals + 1
    /\ requested' \in (IF is_ready THEN {requested + 1} ELSE {requested, requested + 1})
    /\ UNCHANGED <<optionVars, at, linkVars, brokerVars, server, shutdowns, handler, faults>>

\* Another uncaught exception: mqtt_task or bus_task.
OtherTaskFails ==
    /\ server = "running" /\ Fault
    /\ requested' = requested + 1
    /\ UNCHANGED <<optionVars, at, linkVars, brokerVars, server, shutdowns, signals, handler>>

\* Mutant: the client is not cancelled.
CancelPollers ==
    /\ requested > 0 /\ server # "stopped"
    /\ requested' = 0
    /\ shutdowns' = shutdowns + 1
    /\ server' = "stopping"
    /\ at' = [p \in Pollers |-> IF at[p] = Finished THEN Finished ELSE Cancelled]
    /\ handler' = IF handler = "running" THEN "cancelled" ELSE handler
    /\ UNCHANGED <<optionVars, linkVars, brokerVars, signals, faults>>

\* shutdown(): cancels all other tasks, also those of other shutdowns, whether
\* they have begun or not.  The second cancellation of a client interrupts its
\* finally clause.
CancelAll ==
    /\ requested > 0 /\ server # "stopped"
    /\ requested' = 0
    /\ shutdowns' = shutdowns + 1
    /\ server' = "stopping"
    /\ at' = [p \in Pollers |-> IF at[p] = Finished THEN Finished ELSE Cancelled]
    /\ client' = IF client = "running" THEN "finally" ELSE "ended"
    /\ handler' = IF handler = "running" THEN "cancelled" ELSE handler
    /\ UNCHANGED <<optionVars, state, connected, crashed, brokerVars, signals, faults>>

\* All tasks have ended: loop.stop().
StopLoop ==
    /\ server = "stopping" /\ client = "ended"
    /\ server' = "stopped"
    /\ UNCHANGED <<optionVars, at, linkVars, brokerVars, requested, shutdowns, signals, handler, faults>>

-----------------------------------------------------------------------------
PollStep ==
    \/ \E p \in Pollers :
           \/ UnknownName(p) \/ ReadSucceeds(p) \/ ConversionFails(p)
           \/ ReadRejected(p) \/ ConnectionFails(p)
    \/ StartPoll \/ StartPackPoll \/ SwitchPack
ClientStep == Connect \/ StartListening \/ Disconnect \/ DisconnectAtEnd
ServerStep == UncaughtException \/ CancelAll \/ StopLoop
Environment ==
    \/ LinkDrop \/ Crash \/ Signal \/ OtherTaskFails
    \/ \E field \in NORMAL_DEVICE_FIELDS : ReceiveCommand(field)

\* The loop has stopped, nothing happens any more.
Next == server # "stopped" /\ (PollStep \/ ClientStep \/ ServerStep \/ Environment)

Spec == Init /\ [][Next]_vars

\* The event loop runs what can run; a failed task is collected; connecting,
\* disconnecting and reading end.
FairSpec ==
    /\ Spec
    /\ \A p \in Pollers : WF_vars(server # "stopped" /\
           (UnknownName(p) \/ ReadSucceeds(p) \/ ConnectionFails(p)))
    /\ WF_vars(server # "stopped" /\ StartPoll)
    /\ WF_vars(server # "stopped" /\ (StartPackPoll \/ SwitchPack))
    /\ WF_vars(server # "stopped" /\ ClientStep)
    /\ WF_vars(UncaughtException) /\ WF_vars(CancelAll) /\ WF_vars(StopLoop)

-----------------------------------------------------------------------------
(* Properties.                                                             *)

\* Type invariant.
TypeOK ==
    /\ device_name \in Prefixed /\ mode \in Modes
    /\ at \in [Pollers -> [pc : {"wait", "read", "done", "ended"}, i : Nat]]
    /\ \A p \in Pollers : at[p].pc = "read" => Known /\ at[p].i \in DOMAIN Commands(p)
    /\ client \in {"running", "finally", "ended"}
    /\ state \in {"NOT_CONNECTED", "CONNECTED", "READY", "DISCONNECTING"}
    /\ connected \in BOOLEAN /\ devices \in BOOLEAN
    /\ handler \in {"running", "failed", "reported", "cancelled"}
    /\ crashed \in BOOLEAN
    /\ announced \subseteq StationTopics /\ shown \in [StationTopics -> Nat]
    /\ server \in {"running", "stopping", "stopped"}
    /\ requested \in Nat /\ shutdowns \in Nat
    /\ faults \in 0..MaxFaults /\ signals \in 0..MaxSignals

\* Unless an exception or a second shutdown interfered, the link to the station
\* is closed when the loop stops ("Ensure that we disconnect", client.py).
ClosedWhenStopped ==
    server = "stopped" /\ shutdowns = 1 /\ ~crashed => ~connected

\* Client and link go through the life that BluetoothClient implements, those of
\* a client that is cancelled twice included: no poller, failure or shutdown makes
\* it ready without a connection or leaves it half-way between two sessions.
Life == INSTANCE ClientLife WITH task <- client
ImplementsLife == Life!Spec

\* A shutdown is final: once one has begun, no poller goes on, nothing is
\* announced or published, and the station is not connected to again, however
\* many more shutdowns follow and whatever fails meanwhile.
ShutdownIsFinal ==
    [][server # "running" =>
           UNCHANGED <<at, brokerVars>> /\ (connected' => connected)]_vars

\* What a topic of an EP2000 shows comes from a read of the registers that its
\* attributes name.
Sources ==
    {ts \in Stations.EP2000.normal \X {EP2000Reads[i].first : i \in DOMAIN EP2000Reads} :
         \E i \in DOMAIN EP2000Reads :
             /\ EP2000Reads[i].first = ts[2]
             /\ get_field_registers(ts[1]) \subseteq Registers(ts[2], EP2000Reads[i].quantity)}
FromItsRegisters(topics) ==
    type = "EP2000" => \A t \in topics : shown[t] # 0 => <<t, shown[t]>> \in Sources

\* Every topic but the sums shows a value of the registers its attributes name.
AttributesAreTrue == FromItsRegisters(Stations.EP2000.normal \ Sums)

\* So do the sums: "their registers are the components' registers" (ep2000.py).
SumsOfComponents ==
    FromItsRegisters({"pv_dc_total_power", "pv_ac_total_power", "inverter_sum_power"})

\* A failed task, a signal or an uncaught exception ends the program: no
\* shutdown waits for another one or for a task that waits for ever.
StopsAfterFailure ==
    (handler = "failed" \/ requested > 0) ~> (server = "stopped")

\* A station is polled again and again, whatever reads and links fail, or the
\* program ends: no poller waits for a client that has ended.
PollsOrStops == []<><<StartPoll>>_vars \/ <>(server = "stopped")

\* Some announced topics have no field behind them: one field announces all DC
\* inputs.
Backed(t) == t \in DOMAIN DC_INPUT_FIELDS => DC_INPUT_FIELDS[t] \in Stations[type].names

\* Each state topic announced to Home Assistant gets a value in the end: the
\* reads of the station cover its fields.
AnnouncedIsShown ==
    devices ~> (server = "stopped" \/ \A t \in announced : Backed(t) => shown[t] # 0)
=============================================================================
