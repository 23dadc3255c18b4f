# bluetti_mqtt in TLA+

This directory holds TLA+ specifications of the programs of this repository,
the TLC configurations that check them on small instances, and proofs checked
by TLAPS. All of it is translated from the code under `src/bluetti_mqtt/`.

## The system

`bluetti_mqtt` connects Bluetti power stations to an MQTT broker. A station
speaks MODBUS over a Bluetooth Low Energy (BLE) characteristic: a request is
written, the answer comes back in notifications. Everything is one process
with one asyncio event loop; what runs between two `await`s is atomic and what
runs at an `await` interleaves.

    server:    poller ---perform()---> BluetoothClient <--radio--> station
                 |                           ^
                 v                           | perform_nowait()
               EventBus --CommandMessage--> DeviceHandler
                 |    ^
    ParserMessage|    |CommandMessage
                 v    |
               MQTTClient <------> broker <------> Home Assistant

    debugger:  poll_device_registers() ---perform()---> BluetoothClient
                 |
                 v
               paho client -----> broker

### Components

**BluetoothClient** (`bluetooth/client.py`). *State:* `state` (six values),
`command_queue` of commands with their futures, and the attempt under way:
`current_command`, `notify_future`, `notify_response`, `retries`. *Operations:*
`perform()` queues a command and returns its future; `run()` connects, reads
the name, subscribes, then serves commands one by one with up to five attempts
each; the notification callback assembles answers; `_disconnect()` and a pause
of five seconds lead back to the beginning. *Hard:* three actors share the
attempt (task, callback, timer); the callers may cancel a future at any time
(`logger_cli.py` waits five seconds at most); the radio link goes away
unnoticed; answers do not name the request they answer; some exceptions end
the task. *Correct when:* every command is settled once, in the order of
submission, with a complete answer to itself; no command is forgotten while
the task lives; the client always gets back to serving.

**EventBus** (`bus.py`). *State:* a queue and two lists of listeners.
*Operations:* `put()`, `run()` which takes a message and awaits all listeners
of its kind. *Hard:* an exception of a listener ends the bus. *Correct when:*
each message reaches every listener in order and the bus survives.

**MQTTClient** (`mqtt_client.py`). *State:* `devices` seen, `message_queue`,
and per connection two coroutines. *Operations:* connect, receive commands,
take results from the queue, announce a new device entry by entry, publish a
result topic by topic, reconnect after an `MqttError`. *Hard:* a reconnection
adds a listener and replaces the queue while coroutines of earlier connections
still run; a failure may come between any two publications. *Correct when:*
on a connection no result is lost, no state topic goes back in time, a device
shown is a device announced.

**DeviceHandler** and **MultiDeviceManager** (`device_handler.py`,
`bluetooth/manager.py`). *State:* one client per address, the devices built
from their names. *Operations:* per device a poller and a pack poller, which
issue reads one after the other, parse the answers and put the results on the
bus; commands from the bus. *Hard:* readiness is checked once per round, while
the client goes through reconnections or ends; some exceptions are logged,
others end the poller and with it the program; stations with several packs,
one pack and none take different ways. *Correct when:* a topic shows what was
read from the registers it names; whatever fails, the pollers go on or the
program ends, and neither waits for what will not come.

**Server life cycle** (`server_cli.py`). *State:* the set of tasks. *Operations:*
start; on an uncaught exception or a signal cancel everything, wait, stop the
loop. *Hard:* several shutdowns may run at once and cancel each other, while
`finally` clauses still await; `gather()` passes the first exception on and
leaves the other tasks alone. *Correct when:* the process ends and the radio
link is closed.

**Register debugger** (`mqtt_debugger.py`). *State:* the commands of the
configuration file and its modification time, `DISCOVERED_DYNAMIC_REGS`, the
client and its task, per poll `polled_data`. *Operations:* reload, announce,
group commands into reads, switch slave and page, fall back to single reads,
decode and publish, repeating blocks, calculated fields. *Hard:* writes to
selector registers of the station between reads; failures of one step of
several; a replacement client its caller does not learn of. *Correct when:*
every value appears on the topic of the register, page and slave it was read
from, and what cannot be read is published as invalid.

**Register logger and discovery** (`logger_cli.py`, `discovery_cli.py`).
Sequential scans through `perform()`.

**Commands and register maps** (`core/`). Pure functions: frames, checksums,
expected sizes, nine tables of registers, which fields a read covers,
conversions, sums. *Correct when:* a frame decodes to what was encoded, a field
is parsed from its own words only, the reads of a station cover what is
announced of it.

**Scanning** (`bluetooth/__init__.py`) wraps the operating system's scanner
and selects a device class by name.

## Modules

| module | what it is | code |
|---|---|---|
| `CommandChannel` | abstract: a FIFO channel of commands that settles each at most once | what `perform()` promises |
| `ClientLife` | abstract: task, state and link of a client from session to session | what the server relies on |
| `BluetoothClient` | the client, its callers, its device and the link | `bluetooth/client.py`, `core/commands.py` |
| `BluetoothClientProofs` | theorems about `BluetoothClient` | |
| `MCBluetoothClient` | its instances for TLC | |
| `MqttBridge` | bus, MQTT client and the command listener | `bus.py`, `mqtt_client.py`, `device_handler.py`, `manager.py`, `server_cli.py` |
| `MqttBridgeProofs` | theorems about `MqttBridge` | |
| `MCMqttBridge` | its instances for TLC | |
| `DeviceMaps` | the register maps and the reads of all stations, parsing, the fields the MQTT client knows | `core/devices/`, tables of `mqtt_client.py`, `bluetooth/__init__.py` |
| `DeviceMapsProofs` | theorems about `DeviceMaps` | |
| `DeviceHandler` | pollers, client, topics and shutdown of the server for one station | `device_handler.py`, `manager.py`, `server_cli.py`, `mqtt_client.py` |
| `DeviceHandlerProofs` | theorems about `DeviceHandler` | |
| `MCDeviceHandler` | its instances for TLC | |
| `RegisterGroups` | which registers are read together | `group_commands()` of `mqtt_debugger.py` |
| `MCRegisterGroups` | its instances for TLC | |
| `RegisterGroupsProofs` | theorems about `RegisterGroups` | |
| `FewestReadsProofs` | that `RegisterGroups` makes the fewest reads | |
| `DebuggerPoll` | a poll of the debugger, over and over | `poll_device_registers()` and `async_main()` of `mqtt_debugger.py` |
| `DebuggerPollProofs` | theorems about `DebuggerPoll` | |
| `MCDebuggerPoll` | its instances for TLC | |

### BluetoothClient

The variables are the attributes of the class, under their names; `pc` says at
which `await` the task is (`"loop"` is the await of the branch `run()` is in),
`future[c]` is the future `perform()` gave the caller of `c`, `link` and `air`
are the radio, `answer` and `timedOut` are history. `retries` is a local
variable of `_perform_command()`.

An action is the code from one `await` to the next. Each `except` clause of
`_perform_command()` is one action: `ParseErrorRaised`, `TimeoutRaised` (from
the write or the wait), `ModbusErrorRaised`, `BadConnectionRaised`, `WriteFails`.
`ResponseTimer` and `ResponseTimeout` are the two halves of `wait_for()`: the
timer cancels the future, the task resumes later; and since Python 3.12 a
timer that expires after the future is done also raises. `SetFuture` is
`set_result()` or `set_exception()` with the `InvalidStateError` it raises on
a future that is done: that ends the task.

*Data abstraction.* An answer of `response_size()` bytes is `Size[c]` units,
and each unit remembers the command it answers: the bytes do not, so no guard
looks at it except through the size and the checksum (`is_valid_response` is
true of any complete answer, to whatever command). A function code
distinguishes exception answers as `is_exception_response()` does. An
exception answer is a single unit.

*Time.* A timer may fire at any moment while it is armed; delays end at any
later moment. So every order of timers and events is covered, and nothing is
said about durations.

*The branch "Unexpected current state"* of `run()` is not an action:
`RunStateExpected` says that the state never leads to it. `cmd_future` is
never `None`, because no code queues a command without a future.

### MqttBridge

`queue[k]` and `handler[k]` belong to the k-th connection: the queue object
that `message_queue` named then, and its `_handle_messages()`. The number of
connections is also the number of times `handle_message()` is registered with
the bus. `announced` and `shown` are what the broker has received. A result is
a device and a serial number. `Configs` and `Topics` are the numbers of
discovery entries and of state topics, published one by one with a possible
failure before each.

`Live(k)` says whether a publication on the k-th connection succeeds. On a
lost connection `publish()` raises at once. A message that is accepted and
lost on a dying socket is not modelled. The bus task that ends leads to the
global exception handler and to `Shutdown`.

### DeviceMaps

A field is its name, its registers and the way its conversion may fail:
`plain` never fails, a `ranged` decimal outside its range is skipped, an
`enum` value without a member and a `text` that is not ASCII raise. Scales,
signs and the order of bytes are left out: a field's value is the registers it
was read from. Fields that several classes declare word for word are written
once (`Core`, `Internal`, `SplitPhase`, `Packs`, `Controls`); each station adds
its own. `Station` puts together the fields, the reads of both pollers, the
number of packs and the writable registers. `FieldsIn` is the choice of fields
by a read in `DeviceStruct.parse()`, `Combined` and `Sums` are what
`EP2000.parse()` adds, `SumRegisters` and `get_field_registers` are what it
names as the registers of a topic. `NORMAL_DEVICE_FIELDS`, `DC_INPUT_FIELDS`
and `battery_pack_fields` are the tables of `mqtt_client.py`, by name, flag and
whether they can be set.

### DeviceHandler

One station, given by what its name begins with, and the whole way of its
results. `at[p]` is the place of each poller: waiting for the client, in its
i-th read, finished (there is nothing to poll) or ended. `client`, `state` and
`connected` are `BluetoothClient.run()`, its state and the link as far as they
matter here (`ClientLife` says how the two modules agree). `handler` is `DeviceHandler.run()`: when a poller or the manager
raises, `gather()` ends it (`failed`) and the garbage collector reports the
task sooner or later (`reported`). `requested` counts the shutdown tasks that
have not begun, `shutdowns` those that have. `announced` and `shown` are the
state topics at the broker: a topic shows the first register of the read its
value came from.

`ReadSucceeds`, `ConversionFails`, `ReadRejected` and `ConnectionFails` are the
ways a read ends: published, by a `ValueError` or `UnicodeDecodeError` nobody
catches, by an error that is logged, by a broken link (`BleakError` and
`BadConnectionError` are logged, `EOFError` is not caught). `SwitchPack` is the
pack poller of a station with several packs (AC200M, AC300, AC500): it calls
`perform_nowait()`, which `BluetoothClient` does not have, so that such a
station always ends the server, and no second pack is ever looked at.
`CancelAll` is a `shutdown()` that begins: it cancels all other tasks, those of
other shutdowns included, and a client that is already in its `finally` clause
is interrupted there. `ReceiveCommand` covers the ways an MQTT command may end:
ignored, dropped, or the end of `mqtt_task` or `bus_task`.

What the bus and the broker do between poller and topics is in `MqttBridge`;
here a result arrives at once. The service of a command is in
`BluetoothClient`; here it ends in one of the ways above.

### RegisterGroups

A step is an iteration of the loop of `group_commands()`; the sorted list it
iterates over is chosen as it goes, so that one run covers every list.
`current` is where `current_group` starts, `groups` are the groups behind it,
and `start_reg`, `end_reg`, `num_regs` are what the last loop of the function
computes of a group. What a command carries besides its register is its
context: slave, triggers, reads after triggers, page selector; trigger keys
are numbers in their order. `trigger_slaves` and `trigger_val` are what the keys
leave out of the triggers; `triggers` of a group is what it takes from its first
command, slaves included. The delay, the count register, the items per page and
the slave of the pages are taken from the first command too, compared with
nothing, and left out. The encryption status is constant in the code and left
out.

### DebuggerPoll

One action per `await` of `poll_device_registers()`; `pc` says which one the
program is at, and `"idle"` is the loop of `async_main()` between polls.
`group`, `page_idx` and `item` are the positions of the loops, `client` is the
local variable of the poll, `main` the client `async_main()` keeps. The client
is what `BluetoothClient` promises: a future ends if the task runs and has a
link; of a task that has ended, nothing is settled and `is_ready` stays what it
was. The station is its selector registers: a page or a category, and a write
that ends with an error may have reached it. There is at least one group, since
a poll without groups does nothing. `doubted`, `pages` and `reports`
are history: selectors whose last write ended with an error, the pages of each
group, and what was done about each command. `HAS_CRYPTO` and the option
`--disconnect-on-slave-change` are chosen at the start. The module assumes that
no group triggers a register twice or its own page selector.

## Runs

| run | instance | result |
|---|---|---|
| `client_safety` | three commands, two of equal size, all faults, two attempts, one impatient caller | holds |
| `client_liveness` | a read and a write, all faults the client survives, two attempts | holds |
| `client_own_answer` | two reads of equal size, no fault but time | violated |
| `bridge_safety` | two devices, three results, one command, three connections, all faults | holds |
| `bridge_discovery` | as `bridge_safety` without commands | violated |
| `bridge_command` | no faults | violated |
| `groups_safety` | up to three commands, four targets, gaps and overlaps | holds |
| `groups_triggers` | up to three commands whose triggers have equal keys: one value written to two slaves, two values without a trigger | violated |
| `debugger_safety` | two groups, triggers and pages, with and without reconnections and cryptographic library, all faults | holds |
| `debugger_reconnect` | reconnections, no faults | violated |
| `device_safety` | an AC300, an EP500, an EB3A, an EP600, an EP2000 and a device of another name, discovery normal and advanced, one fault, one signal or command | holds |
| `device_sums` | an EP2000, no fault | violated |

*Safety of the client.* `NoLostCommand`: whoever waits is queued or in
service, unless the task has ended. `ServedIsOpen`: the command in service has
not been settled, so that only a cancelled future makes `set_result()` raise.
`ResultHasExpectedSize`: a result is one complete undamaged answer, to a
command of the same size. `OwnAnswerUnlessTimedOut`: it is the answer to this
very command unless an attempt has timed out since the link was made.
`RunStateExpected`: see above. `ServiceAdvances`: while a command is served,
each step of the task comes later in the order of attempts and places, so that
no error is tried again without being counted. `ImplementsChannel`: `BluetoothClient` implements
`CommandChannel`, where what waits in the channel is the command in service
followed by the queue. `ImplementsLife`: it implements `ClientLife`, in which the
service of a command counts as `READY`: no connection is made on top of another,
a failed session is disconnected before the next, and the task ends through its
`finally` clause.

*Liveness of the client.* `CommandsSettle`: every command is settled in the
end; `ReadyAgain`: the client is ready again and again.

*The bridge.* `NoLostResult`: on a connection, a result handed over by the bus
is queued, in hand, or superseded on its topics. `NeverGoesBack`: no state
topic is ever overwritten by an older result, although queues and coroutines
of earlier connections live on. `CopiesPerConnection`: a result is published
at most once per connection made (the listeners add up; that they do add up is
what the code does). `AnnouncedFirst`: on the first connection a device is
announced entirely before its state appears. `SessionHasHandler`: a connection in
use has a coroutine that empties its queue. `CatchesUp`: after any failure
the queues are emptied.

*Groups of registers.* `EveryCommandIsRead`: every command is in exactly one
group and inside its read. `ReadsAreBounded`: a read of several commands keeps
the limit. `FewestReads`: taking as much as fits is the best there is, no
other way of cutting the sorted list needs fewer reads. That a group reads its
commands as each of them asks is *not* so: see `TriggersMatch` below.

*Polls.* `EveryCommandIsReported`: each command of each group is dealt with
once for each page, whichever reads fail. `ShowsWhatWasSelected`: a value
published for a page or category was read while the station showed it, in
whatever order groups and pages overwrite each other's selectors. Selectors whose
last write ended with an error are excepted, since the code reads on after a
failed switch and publishes what it gets: the property does not catch that. `PollsAdvance`: a poll never comes back to a place
in its loops that it has left. `PollsGoOn`: without an uncaught exception and
without reconnections there is always another poll.

*The server on a station.* `ClosedWhenStopped`: the link is closed when the
loop stops, unless a second shutdown interrupted the first or the client's task
had failed. `AttributesAreTrue`: what a topic of an EP2000 shows was read from
the registers its attributes name (the sums excepted, see below).
`ShutdownIsFinal`: once a shutdown has begun, no poller goes on, nothing is
published and the station is not connected to again. `ImplementsLife`: the client
of this module implements the same `ClientLife` as `BluetoothClient`, so that
neither goes from state to state in a way the other excludes.
`StopsAfterFailure`: a failed task, a signal or an uncaught exception does end
the program, although shutdowns cancel each other. `PollsOrStops`: the poller
starts another round again and again, or the program ends; no poller is left
waiting for a client that has ended. `AnnouncedIsShown`: every state topic
announced for a station gets a value in the end, so the reads of each station
cover the fields that are announced of it; three topics of DC inputs are
announced together because of one field, and are left out where their own field
does not exist.

*Violated.* These six properties are what comments and the documentation
say; the code does otherwise.

- `OwnAnswer`: "Ignore notifications we don't expect". A device that answers
  late, after the timer, has its answer taken for the answer to the next
  command if the sizes are equal.
- `DeviceIsConfigured`: a device is registered before it is announced, so that
  an announcement that fails half-way is not made again.
- `CommandsDoNotEndTheBus`: `perform_nowait()` does not exist in
  `BluetoothClient`; the first command from the broker for a ready device ends
  the bus and shuts the server down.
- `TriggersMatch`: "triggers match" (the comment in `group_commands()`) and
  "commands with different trigger values go to different groups" (a test's).
  `get_trigger_key()` looks at register and value in the list `triggers` only. It
  leaves out the slave of a trigger, so that commands are read behind a write to
  another slave than theirs, and the value of a command written without a
  `trigger_write` block, which has no list. The run has both kinds of commands;
  either alone violates the property.
- `ReconnectingPollsGoOn`: "slow but reliable". `async_main()` keeps the client
  whose task the first poll has cancelled, and the second poll waits for it for
  ever.
- `SumsOfComponents`: "These are sums, so their registers are the components'
  registers" (`ep2000.py`). The sums are part of the result of every read, and a
  component that is not in it counts as 0, so that each round publishes every
  sum as 0 several times.

### Bounds

`MaxRetries` is 5 in the code and 2 in the runs: with two attempts there is a
first, a repeated and a last one, which is all the loop distinguishes; the
proofs are for every number. Three commands make an order to be mixed up, a
queue behind a command in service, and two commands of equal size next to one
of another. A result needs two units to be split, the write has three so that
sizes differ. The submissions are bounded (each command once); the
reconnections and the losses of the link are not. In the bridge, three
connections give a current one, one before it, and one whose queue and
coroutine have been passed over twice; three results make a result older than
another in every queue. Two entries and two topics are enough for a failure
between them. Broker and publication failures spare the last connection, so
that the liveness run has one to catch up on. A group of three commands has a first, a
last and one between them, and the registers 0, 1, 2, 4 with lengths 1, 2 and 32
make neighbours, overlaps, gaps on both sides of the limit of one, and spans on
both sides of the limit of five. A poll of two groups
switches the slave once and back again at the next poll; one group has a
trigger, a read after it and no pages, the other pages, two commands and the
same trigger register with another value; counts of zero and two, and one when
the discovery fails. Three clients are one more than the polls with
reconnections get to. The server runs on a station of every kind: several packs, one pack,
none, an encrypted one, an EP2000 under its other name, and a name nobody
knows. An AC200M and an AC500 take the way of the AC300, the EP500P has the
fields of the EP500, the AC60 a part of those of the EP600. One fault and one
signal or command make up to two overlapping shutdowns and a failure before,
between or after any two steps; two faults would add a second failure of a
program that ends, or a skipped value in two reads. The safety runs end when the
bounds are used up, the program ends or the function returns, hence `CHECK_DEADLOCK FALSE`; in the client, a task that
has ended stays so.

### Fairness

`FairSpec` of the client: the event loop runs a task that can run, and timers
expire (`WF` on `Run`); a connection, a name that can be read, and a
subscription tried again and again succeed at some time (`SF`): a radio broken
for ever would leave commands waiting for ever, and the code retries without
limit. Nothing is assumed of the device, which may stay silent, nor of the
callers. `SurvivedFaults` leaves out what ends the task: then nothing is
settled any more, which is a hazard of its own. For the bridge: bus and
handlers run when they can (`WF`), the broker does not refuse every attempt
(`SF`). For the debugger: the loop runs the program; a client that is ready
again and again settles what it was asked (`SF` on `Poll`, what `CommandsSettle`
and `ReadyAgain` say of the client); a client connects if no other holds the
link (`WF`). For the server: each poller and each shutdown runs when it can,
connecting, disconnecting and reading end, and a failed task is collected, so
that its exception is reported (`WF`); faults, signals and commands need not
happen.

## Proofs

`BluetoothClientProofs` is about every set of commands, every assignment of
sizes (at least two units, since an exception answer is shorter than any
answer), any number of attempts, any set of faults.

The properties are not inductive. `IInv` adds:

- `RunInv`: where the task waits determines what the state can be; while an
  attempt waits, `retries < MaxRetries`, whence the bound on the attempts.
- `QueueInv`: the queue holds no command twice, nor the one in service, and
  everything in either place is unsettled; with it, taking a command, settling
  it and going on lose nothing and settle nothing twice.
- `ResultInv`: an accepted answer passes the checksum and has the expected
  length until the task resumes.
- `LinkInv` and `OrderInv`: without a timeout on the connection, whatever is in
  the air or in the buffer belongs to the attempt under way, together not
  longer than its answer; so nothing is left over when the answer has been
  accepted or rejected, and the next attempt starts with nothing in the air.

`InitIInv` and `NextIInv` establish it, one lemma per part; `Invariance`
concludes. `TypeCorrect`, `CommandsAreNotLost`, `ServedCommandIsOpen`,
`ResultsHaveExpectedSize` and `NoUnexpectedState` follow from it; `OwnAnswers`
is the action property, and `Refinement` shows that each step maps to a step of
`CommandChannel` or to a stutter. `OwnAnswers` and `Refinement` need the
invariant for both ends of a step. `ServicesAdvance` says how far a service goes
without any fairness: `Progress` counts four for each failed attempt and one for
each place of the attempt under way, never falls, and grows with each step of
the task; `ServicesEnd` adds the bound, four steps per attempt, which follows from
`RunInv` (a waiting attempt has retries left). `LivesAsAssumed` shows that the
client implements `ClientLife`. `LifeInv` adds what the mapping needs: a command is
served only in the two states that map to `READY`, and there is no link in the
delay after a disconnection and in `NOT_CONNECTED`. The pause makes one abstract
disconnection of two steps, the first of which maps to a loss of the link.

The assumptions are those of the module `BluetoothClient`: `CommandsAssumption`, `RetriesAssumption`, `FaultsAssumption`.

`RegisterGroupsProofs` is about every set of registers, lengths and contexts,
every gap, limit and number of commands. Its `IInv` adds to type correctness:

- `Shape` and `Cover`: the groups follow each other without overlap, the current
  one is behind them, and no command lies between.
- `Good`: in each group the registers begin behind the first command's and end
  before the end of the last one. That is so because a command joins only if
  it begins behind the end of the one before; so the furthest end, which
  `end_reg` looks for, is the end of the last command (`EndOfGroup`), and no
  induction over the group is needed.

`CommandsAreRead`, `ReadsKeepTheLimit` and `GroupsTypeCorrect` follow from it. The assumption is `ConstantsAssumption`.

`FewestReadsProofs` adds that no other way of cutting the sorted list needs fewer
reads. `Maximal` is invariant: the first command of a group cannot be read
together with the whole group before it. If some other cut had no boundary
between the first commands of two groups that follow each other (`CutBetween`),
one of its groups would hold both and everything between them; but what can be
read together can be read without its first commands too. So each group but
the last has a boundary of the other cut of its own, an injection
(`CutsAreMany`), and `ReadsAreFewest` follows by cardinality. The last boundary
before a command exists by the least-number principle, taken from the library's
well-foundedness of `<` in the form for sets, which needs no operator parameter.

`DeviceHandlerProofs` is about every set of stations and options and any number
of faults and signals. `ClosedWhenStopped` is not inductive: `LinkInv` adds that
without a crash of its task the client runs until the first shutdown begins;
that it has disconnected if it has ended after one; and that the loop stops
only after it. Type correctness contains that no poller leaves its list of reads,
which rests on lemmas about the lists of all stations (`StationsAreGood`).
`DeviceInvariance` concludes; `DeviceTypeCorrect` and `LinkIsClosed` follow.
`ShutdownsAreFinal` needs `EndInv`: from the first shutdown on the client has
ended or is in its `finally` clause, so that no connection comes back, and no
poller has a step (`NothingGoesOn`). `ShownIsTrue` is about one step at a time: a
topic changes only when a read has been parsed, and then shows what
`DeviceMapsProofs` says of it. `ClientLives` shows that each step maps to a step of
`ClientLife`; `NoSession` (no link in `NOT_CONNECTED`) is what makes `Connect` one,
and it is itself kept by every step of `ClientLife`. The assumptions are
`ModesAssumption` and `BoundsAssumption`.

`DeviceMapsProofs` is about the register tables themselves, field by field.
`ParsedLiesInRead`: what `EP2000.parse()` returns of a read, the products of two
fields included, lies in that read. `WhatIsShownIsRead`: each field that is shown
of a station, of any of the nine kinds, is parsed from one of its pollers' reads.
That is what `AnnouncedIsShown` needs of the tables; that the read is made again
and again is left to TLC.

`DebuggerPollProofs` is about every list of groups with any triggers and pages,
every page count and every fault. The invariant `PollInv` adds to
`ShowsWhatWasSelected`:

- `ItemInv`: the loop over triggers starts at the first one;
- `SelectorInv`: a group has several pages only if it has a page selector;
- `ShownInv`: when registers are read, the page selector is at the page and each
  trigger register at its value, unless the last write to it ended with an
  error. A write keeps the ones before because the settings of a group are of
  different registers, which `TriggersAssumption` says.

`PollTypeCorrect` and `ValuesAreOfTheirPage` follow from `PollInvariance`.

`EveryCommandIsReported` counts reports, so its invariant `CountInv` says which
there are while the poll runs: `PageInv`, that groups to come have no pages yet
and the current one has as many as its loop; and `OnceInv`, that the reports are
of the commands that have been dealt with (`Dealt`, a predicate of group, page
and command in terms of the place in the loops), one for each. A step either
leaves `Dealt` as it is (`OutsideDealt`, `InsideDealt`, `BeginPagesDealt`, the
last also for a page count of zero) or adds exactly the commands it reports
(`ReadCounts`, `SingleCounts`, with `NextPageDealt` for the step to the next page
or group). `CommandsAreReported` follows: at the end of a poll everything has
been dealt with. Nothing is said of a poll that an exception ended.

`PollsGoForward` orders the places of a poll by group, page, `await`, command and
kind of read. Each action makes one of the ways of `Forward` true, which say which
of these grows while those before it stay (`PollForward`, one lemma per loop);
`ForwardIsLater` turns them into the lexicographic order.

The assumptions are `GroupsAssumption`, `TriggersAssumption`, `PagesAssumption` and
`OtherAssumption`.

`MqttBridgeProofs` is about any number of devices, discovery entries, topics,
results, commands and connections, and every fault. Its invariant `BridgeInv`
adds:

- `AnnounceInv`: a device is in the course of announcement at one handler at
  most, with as many entries sent as the broker has received; connections still
  to come have no handler.
- `OrderInv`: results are in the order of their numbers on the bus (`BusInv`), in
  the queue of the current connection (`QueueInv`), in hand and on the topics
  (`HandInv`), each behind the other; copies of one stand together, and those
  published, in hand and queued are together no more than the connections made.
  Handlers of earlier connections do not matter, since they cannot publish any
  more; that is why nothing is said about them.
- `FirstInv`: on the first connection a device that is registered has been
  announced, is being announced, or the handler has gone.

One lemma per part and action keeps it (`AnnounceKeeps`, `NotifyKeepsOrder`,
`TakeKeepsOrder`, `StateKeepsOrder`, `OrderKeeps`, `CopiesKeep`, `ResultsKeep`,
`FirstKeeps`); `SessionInv` says that a handler that has ended has ended its
session, whichever of its publications failed (`SessionsHaveHandlers`); steps
that leave the current connection alone share `StaysAhead` and `StaysInOrder`. `BridgeTypeCorrect`, `CopiesAreBounded`,
`NoResultIsLost` and `AnnouncedBeforeShown` follow from `BridgeInvariance`, and
`NeverBackwards` is the action property. The assumptions are
`BoundsAssumption` and `OptionsAssumption`.

Only model-checked are the liveness properties: `CommandsSettle`, `ReadyAgain`,
`CatchesUp`, `PollsGoOn`, `StopsAfterFailure`, `PollsOrStops` and `AnnouncedIsShown`,
since TLAPS does not reason about `ENABLED` and fairness. What they need besides
fairness is proved where it can go wrong: a service and a poll come to an end
(`ServicesAdvance`, `ServicesEnd`, `PollsGoForward`), nobody waits for a handler that has gone
(`SessionsHaveHandlers`), a shutdown is not undone (`ShutdownsAreFinal`), and what
is announced can be read (`WhatIsShownIsRead`). Every invariant and every other
action property of a passing run is a theorem. Theorems of the library that take
an operator as a parameter cannot be used; the proofs do without, by invariants
that need no induction over data, or with the least element of a set.

## What is not modelled

- *Durations*, the blocking of BLE calls, and a message lost on a dying socket
  after `publish()` accepted it: no property is about when something happens.
- *Bytes of frames and their checksums* (`core/commands.py`, `core/utils.py`):
  computations without state whose only effect on control, that an answer is
  valid, complete or an exception, is in `BluetoothClient`. An exception answer
  is received as a whole.
- *Numeric conversions* (scale, sign, byte order, versions, serial numbers) and
  *the text of topics and payloads*: no control depends on them. The outcomes on
  which it does (skipped, raised) are in `DeviceHandler`.
- *Of the debugger* (`mqtt_debugger.py`): decoding, outputs and their topics,
  repeating blocks, calculated fields, the discovery messages, and the reload of
  the configuration. They are sequential functions on JSON, text and files,
  between awaits that are modelled. Their hazards are listed without a property
  in `PROJECT.json`.
  What `get_command_fields()` returns is the input of
  `RegisterGroups`: that the commands of a `trigger_write` block share one list of
  triggers, to which the block's later components append, is not modelled.
- *`scan_devices()`*: the operating system's scanner is the input; what follows,
  `build_device()` and the names it accepts, is in `DeviceMaps`.
- *`discovery_cli.py`, `logger_cli.py`*: sequential scans through `perform()`,
  which print or write records; the logger's callers, who give up after five
  seconds, are the impatient callers of `BluetoothClient`.
- *Scripts run by hand* (`debug_*.py` and the like): not part of the programs.

## What could follow

1. The debugger's main loop: connection, reload of the configuration while a
   poll is under way, and announcements.
2. The topics of the debugger's outputs as pure definitions: which output
   shares a topic, which one is marked invalid, which registers a calculated
   field counts as 0.
3. `DeviceHandler` with the bus and the broker connections of `MqttBridge` in one
   composition, once commands get through to a station.
