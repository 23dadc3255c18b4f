-------------------------- MODULE MqttBridgeProofs --------------------------
(***************************************************************************)
(* Theorems about MqttBridge: types, the order of results, copies, and     *)
(* announcements, for every number of devices, entries, topics, results,   *)
(* commands and connections, and every fault.                              *)
(***************************************************************************)
EXTENDS MqttBridge, Integers, TLAPS

-----------------------------------------------------------------------------
(* The inductive invariant.                                                *)

\* A handler that has a result in hand.
Busy(k) == handler[k].at \in {"init", "publish"}

\* Connections that do not exist yet have no handler; one device is announced
\* by one handler, which has sent as much as the broker has received.
AnnounceInv ==
    /\ \A k \in Connections : k > connections => handler[k] = Gone
    /\ \A k \in Connections : handler[k].at = "init" =>
           /\ handler[k].msg.device \in devices /\ handler[k].sent < Configs
           /\ announced[handler[k].msg.device] = handler[k].sent
    /\ \A k \in Connections : handler[k].at = "publish" => handler[k].sent < Topics
    /\ \A j, k \in Connections : handler[j].at = "init" /\ handler[k].at = "init" /\ j # k =>
           handler[j].msg.device # handler[k].msg.device
    /\ \A d \in Devices \ devices : announced[d] = 0

\* A number newer than all results that have left the bus.
Ahead(id) ==
    /\ copies[id] = 0
    /\ \A d \in Devices, t \in 1..Topics : shown[d][t] < id
    /\ connections > 0 => \A j \in DOMAIN queue[connections] : queue[connections][j].id < id
    /\ connections > 0 /\ Busy(connections) => handler[connections].msg.id < id

\* Results are on the bus in the order of their numbers, before all others.
BusInv ==
    /\ \A id \in 1..MaxMessages : id > produced => Ahead(id)
    /\ \A i \in DOMAIN bus_queue : bus_queue[i].type = "parser" =>
           bus_queue[i].id <= produced /\ Ahead(bus_queue[i].id)
    /\ \A i, j \in DOMAIN bus_queue :
           i < j /\ bus_queue[i].type = "parser" /\ bus_queue[j].type = "parser"
               => bus_queue[i].id < bus_queue[j].id

\* The one in hand counts as a copy.
InHand(k, id) == IF Busy(k) /\ handler[k].msg.id = id THEN 1 ELSE 0

\* On the current connection results are in the order of their numbers: on the
\* topics, in hand, in the queue.  Copies of one stand together.
QueueInv ==
    connections > 0 =>
        LET q == queue[connections]
        IN  /\ \A i, j \in DOMAIN q : i <= j =>
                   /\ q[i].id <= q[j].id
                   /\ q[i].id = q[j].id =>
                          copies[q[i].id] + (j - i + 1) + InHand(connections, q[i].id)
                              <= connections
            /\ \A i \in DOMAIN q :
                   /\ \A d \in Devices, t \in 1..Topics : shown[d][t] <= q[i].id
                   /\ Busy(connections) => handler[connections].msg.id <= q[i].id

HandInv ==
    connections > 0 /\ Busy(connections) =>
        LET h == handler[connections]
        IN  /\ \A d \in Devices, t \in 1..Topics : shown[d][t] <= h.msg.id
            /\ copies[h.msg.id] + 1 <= connections
            /\ h.at = "publish" => \A t \in 1..h.sent : shown[h.msg.device][t] >= h.msg.id

\* On the first connection, what is registered has been announced, or is being
\* announced, or nothing will be published any more.
FirstInv ==
    /\ connections = 0 => \A d \in Devices, t \in 1..Topics : shown[d][t] = 0
    /\ connections = 0 => devices = {}
    /\ Announce /\ connections = 1 => \A d \in devices :
           \/ announced[d] = Configs
           \/ handler[1] = Gone
           \/ handler[1].at = "init" /\ handler[1].msg.device = d
    /\ Announce /\ connections = 1 /\ handler[1].at = "publish" =>
           announced[handler[1].msg.device] = Configs

OrderInv == BusInv /\ QueueInv /\ HandInv

BridgeInv ==
    /\ TypeOK /\ AnnounceInv /\ OrderInv /\ CopiesPerConnection
    /\ NoLostResult /\ FirstInv /\ AnnouncedFirst

-----------------------------------------------------------------------------
(* Handlers.                                                               *)

\* What a handler is, according to where it is.
LEMMA HandlerType ==
    ASSUME TypeOK, NEW k \in Connections
    PROVE  /\ handler[k].at = "get" => handler[k] = Idle
           /\ handler[k].at = "init" => handler[k] \in [at : {"init"}, msg : Results, sent : 0..Configs]
           /\ handler[k].at = "publish" => handler[k] \in [at : {"publish"}, msg : Results, sent : 0..Topics]
           /\ Busy(k) => /\ handler[k].msg \in Results /\ handler[k].msg.device \in Devices
                         /\ handler[k].msg.id \in 1..MaxMessages
           /\ Busy(k) <=> handler[k] \notin {Idle, Gone}
<1>1. handler[k] \in Handlers
  BY DEF TypeOK
<1>2. CASE handler[k] \in {Idle, Gone}
  BY <1>2 DEF Idle, Gone, Busy
<1>3. CASE handler[k] \in [at : {"init"}, msg : Results, sent : 0..Configs]
  BY <1>3 DEF Idle, Gone, Busy, Results
<1>4. CASE handler[k] \in [at : {"publish"}, msg : Results, sent : 0..Topics]
  BY <1>4 DEF Idle, Gone, Busy, Results
<1> QED
  BY <1>1, <1>2, <1>3, <1>4 DEF Handlers

\* The handlers that the actions make.
LEMMA HandlersMade ==
    /\ Idle \in Handlers /\ Gone \in Handlers
    /\ \A msg \in Results, sent \in 0..Configs : [at |-> "init", msg |-> msg, sent |-> sent] \in Handlers
    /\ \A msg \in Results, sent \in 0..Topics : [at |-> "publish", msg |-> msg, sent |-> sent] \in Handlers
BY DEF Handlers

\* What taking a result makes of a handler.
LEMMA TakeEffect ==
    ASSUME TypeOK, NEW k \in Connections, TakeMessage(k)
    PROVE  /\ handler[k] = Idle
           /\ queue[k] # <<>> /\ Head(queue[k]) \in Results
           /\ handler' = [handler EXCEPT ![k] =
                  [at |-> IF Head(queue[k]).device \notin devices /\ Announce THEN "init" ELSE "publish",
                   msg |-> Head(queue[k]), sent |-> 0]]
           /\ handler'[k].at = IF Head(queue[k]).device \notin devices /\ Announce THEN "init" ELSE "publish"
           /\ handler'[k].msg = Head(queue[k]) /\ handler'[k].sent = 0
           /\ \A j \in Connections : j # k => handler'[j] = handler[j] /\ queue'[j] = queue[j]
           /\ queue' = [queue EXCEPT ![k] = Tail(queue[k])] /\ queue'[k] = Tail(queue[k])
           /\ devices' = devices \cup {Head(queue[k]).device}
           /\ Head(queue[k]).device \in Devices
<1>1. queue[k] \in Seq(Results) /\ queue[k] # <<>>
  BY DEF TypeOK, TakeMessage
<1>2. Head(queue[k]) \in Results
  BY <1>1
<1>3. k \in DOMAIN handler /\ k \in DOMAIN queue /\ DOMAIN handler = Connections /\ DOMAIN queue = Connections
  BY DEF TypeOK
<1>4. Head(queue[k]).device \in Devices
  BY <1>2 DEF Results
<1>5. handler[k] = Idle
  BY HandlerType DEF TakeMessage
<1> QED
  BY <1>1, <1>2, <1>3, <1>4, <1>5 DEF TakeMessage

\* What publishing an entry makes of a handler.
LEMMA ConfigEffect ==
    ASSUME TypeOK, AnnounceInv, NEW k \in Connections, PublishConfig(k)
    PROVE  /\ handler[k].at = "init" /\ handler[k].msg \in Results /\ handler[k].sent \in Nat
           /\ k = connections /\ run = "connected"
           /\ \A j \in Connections : j # k => handler'[j] = handler[j]
           /\ handler' \in [Connections -> Handlers]
           /\ handler'[k].msg = handler[k].msg
           /\ \/ /\ handler'[k].at = "init" /\ handler'[k].sent = handler[k].sent + 1
                 /\ handler[k].sent + 1 < Configs
              \/ /\ handler'[k].at = "publish" /\ handler'[k].sent = 0
                 /\ handler[k].sent + 1 = Configs
<1>1. handler[k] \in [at : {"init"}, msg : Results, sent : 0..Configs] /\ handler[k].sent < Configs
  BY HandlerType DEF PublishConfig, AnnounceInv
<1>2. handler \in [Connections -> Handlers] /\ Configs \in Nat \ {0} /\ Topics \in Nat \ {0}
  BY BoundsAssumption DEF TypeOK
<1> DEFINE h == handler[k]
           new == IF h.sent + 1 < Configs
                  THEN [at |-> "init", msg |-> h.msg, sent |-> h.sent + 1]
                  ELSE [at |-> "publish", msg |-> h.msg, sent |-> 0]
<1>3. handler' = [handler EXCEPT ![k] = new]
  <2>1. [h EXCEPT !.sent = h.sent + 1] = [at |-> "init", msg |-> h.msg, sent |-> h.sent + 1]
    BY <1>1
  <2>2. CASE h.sent + 1 < Configs
    <3>1. handler' = [handler EXCEPT ![k] = [h EXCEPT !.sent = h.sent + 1]]
      BY <2>2 DEF PublishConfig
    <3> QED
      BY <2>1, <2>2, <3>1
  <2>3. CASE ~(h.sent + 1 < Configs)
    BY <2>3 DEF PublishConfig
  <2> QED
    BY <2>2, <2>3
<1>4. new \in Handlers
  BY <1>1, <1>2, HandlersMade
<1>5. k = connections /\ run = "connected"
  BY DEF PublishConfig, Live
<1> QED
  BY <1>1, <1>2, <1>3, <1>4, <1>5

\* What publishing a state topic makes of a handler.
LEMMA StateEffect ==
    ASSUME TypeOK, AnnounceInv, NEW k \in Connections, PublishState(k)
    PROVE  /\ handler[k].at = "publish" /\ handler[k].msg \in Results
           /\ handler[k].sent \in Nat /\ handler[k].sent + 1 \in 1..Topics
           /\ k = connections /\ run = "connected"
           /\ \A j \in Connections : j # k => handler'[j] = handler[j]
           /\ handler' \in [Connections -> Handlers]
           /\ shown' = [shown EXCEPT ![handler[k].msg.device][handler[k].sent + 1] = handler[k].msg.id]
           /\ \/ /\ handler'[k].at = "publish" /\ handler'[k].msg = handler[k].msg
                 /\ handler'[k].sent = handler[k].sent + 1
                 /\ handler[k].sent + 1 < Topics /\ copies' = copies
              \/ /\ handler'[k] = Idle /\ handler[k].sent + 1 = Topics
                 /\ copies' = [copies EXCEPT ![handler[k].msg.id] = copies[handler[k].msg.id] + 1]
<1>1. handler[k] \in [at : {"publish"}, msg : Results, sent : 0..Topics] /\ handler[k].sent < Topics
  BY HandlerType DEF PublishState, AnnounceInv
<1>2. handler \in [Connections -> Handlers] /\ Configs \in Nat \ {0} /\ Topics \in Nat \ {0}
  BY BoundsAssumption DEF TypeOK
<1> DEFINE h == handler[k]
           next == [at |-> "publish", msg |-> h.msg, sent |-> h.sent + 1]
<1>3. CASE h.sent + 1 < Topics
  <2>1. [h EXCEPT !.sent = h.sent + 1] = next
    BY <1>1
  <2>2. handler' = [handler EXCEPT ![k] = next] /\ copies' = copies
    <3>1. handler' = [handler EXCEPT ![k].sent = h.sent + 1] /\ copies' = copies
      BY <1>3 DEF PublishState
    <3> QED
      BY <2>1, <3>1
  <2>3. next \in Handlers
    BY <1>1, <1>2, <1>3, HandlersMade
  <2> QED
    BY <1>1, <1>2, <1>3, <2>2, <2>3 DEF PublishState, Live
<1>4. CASE ~(h.sent + 1 < Topics)
  <2>1. handler' = [handler EXCEPT ![k] = Idle]
        /\ copies' = [copies EXCEPT ![h.msg.id] = copies[h.msg.id] + 1]
    BY <1>4 DEF PublishState
  <2> QED
    BY <1>1, <1>2, <1>4, <2>1, HandlersMade DEF PublishState, Live
<1> QED
  BY <1>3, <1>4

-----------------------------------------------------------------------------
(* Types.                                                                  *)

\* The steps that change at most who is connected.
SessionStep == ConnectFails \/ SleepEnds \/ BrokerDrop \/ CommandsFail

\* The program starts with the right types.
LEMMA InitType == Init => TypeOK
<1> SUFFICES ASSUME Init PROVE TypeOK
  OBVIOUS
<1>1. <<>> \in Seq(Results \cup Commands) /\ <<>> \in Seq(Results)
  OBVIOUS
<1>2. queue \in [Connections -> Seq(Results)] /\ handler \in [Connections -> Handlers]
  BY <1>1, HandlersMade DEF Init
<1>3. /\ announced \in [Devices -> 0..Configs]
      /\ shown \in [Devices -> [1..Topics -> 0..MaxMessages]]
      /\ copies \in [1..MaxMessages -> Nat]
  BY BoundsAssumption DEF Init
<1>4. connections \in 0..MaxConnections /\ produced \in 0..MaxMessages /\ commands \in 0..MaxCommands
  BY BoundsAssumption DEF Init
<1> QED
  BY <1>1, <1>2, <1>3, <1>4 DEF Init, TypeOK

\* Copies of a result at the end of a queue.
LEMMA CopiesAppended ==
    ASSUME NEW q \in Seq(Results), NEW msg \in Results, NEW n \in Nat
    PROVE  /\ AppendCopies(q, msg, n) \in Seq(Results)
           /\ Len(AppendCopies(q, msg, n)) = Len(q) + n
           /\ \A i \in DOMAIN AppendCopies(q, msg, n) :
                  AppendCopies(q, msg, n)[i] = IF i <= Len(q) THEN q[i] ELSE msg
<1> DEFINE more == [i \in 1..n |-> msg]
<1>1. more \in Seq(Results) /\ Len(more) = n /\ \A i \in 1..n : more[i] = msg
  OBVIOUS
<1> HIDE DEF more
<1>2. AppendCopies(q, msg, n) = q \o more
  BY DEF AppendCopies, more
<1>3. q \o more \in Seq(Results) /\ Len(q \o more) = Len(q) + n
  BY <1>1
<1>4. ASSUME NEW i \in DOMAIN (q \o more)
      PROVE  (q \o more)[i] = IF i <= Len(q) THEN q[i] ELSE msg
  <2>1. i \in 1..(Len(q) + n)
    BY <1>3
  <2>2. CASE i <= Len(q)
    BY <1>1, <2>1, <2>2
  <2>3. CASE ~(i <= Len(q))
    <3>1. (q \o more)[i] = more[i - Len(q)] /\ i - Len(q) \in 1..n
      BY <1>1, <2>1, <2>3
    <3> QED
      BY <1>1, <2>3, <3>1
  <2> QED
    BY <2>2, <2>3
<1> QED
  BY <1>2, <1>3, <1>4

\* The head of the bus when the parser listeners are notified.
LEMMA NotifyEffect ==
    ASSUME TypeOK, NotifyParserListeners
    PROVE  /\ bus_queue # <<>> /\ Head(bus_queue) \in Results
           /\ Head(bus_queue) = bus_queue[1] /\ bus_queue[1].type = "parser"
           /\ bus_queue' \in Seq(Results \cup Commands)
           /\ Len(bus_queue') = Len(bus_queue) - 1
           /\ \A i \in DOMAIN bus_queue' : i + 1 \in DOMAIN bus_queue /\ bus_queue'[i] = bus_queue[i + 1]
           /\ connections = 0 => UNCHANGED <<queue, handed>>
           /\ connections > 0 =>
                  /\ queue' = [queue EXCEPT ![connections] =
                                   AppendCopies(queue[connections], Head(bus_queue), connections)]
                  /\ handed' = handed \cup {Head(bus_queue)}
<1>1. bus_queue \in Seq(Results \cup Commands) /\ bus_queue # <<>>
  BY DEF TypeOK, NotifyParserListeners
<1>2. Head(bus_queue) \in Results \cup Commands /\ Head(bus_queue) = bus_queue[1]
  BY <1>1
<1>3. Head(bus_queue) \in Results
  BY <1>2 DEF NotifyParserListeners, Commands
<1>4. connections \in Nat
  BY BoundsAssumption DEF TypeOK
<1> QED
  BY <1>1, <1>2, <1>3, <1>4 DEF NotifyParserListeners

\* Every step keeps the types.
LEMMA TypeKeeps ==
    ASSUME TypeOK, AnnounceInv, [Next]_vars
    PROVE  TypeOK'
<1> USE BoundsAssumption
<1>1. ASSUME NEW d \in Devices, PutResult(d)
      PROVE  TypeOK'
  <2>1. [type |-> "parser", device |-> d, id |-> produced'] \in Results
    BY <1>1 DEF PutResult, TypeOK, Results
  <2>2. bus_queue' \in Seq(Results \cup Commands) /\ produced' \in 0..MaxMessages
    BY <1>1, <2>1 DEF PutResult, TypeOK
  <2> QED
    BY <1>1, <2>2 DEF PutResult, TypeOK, brokerVars
<1>2. CASE NotifyParserListeners
  <2>1. bus_queue' \in Seq(Results \cup Commands)
    BY <1>2, NotifyEffect
  <2>2. queue' \in [Connections -> Seq(Results)] /\ handed' \in SUBSET Results
    <3>1. CASE connections > 0
      <4>1. connections \in Connections /\ connections \in Nat
        BY <3>1 DEF TypeOK, Connections
      <4>2. AppendCopies(queue[connections], Head(bus_queue), connections) \in Seq(Results)
        <5>1. queue[connections] \in Seq(Results) /\ Head(bus_queue) \in Results
          BY <1>2, <4>1, NotifyEffect DEF TypeOK
        <5> QED
          BY <4>1, <5>1, CopiesAppended
      <4> QED
        BY <1>2, <3>1, <4>1, <4>2, NotifyEffect DEF TypeOK
    <3>2. CASE ~(connections > 0)
      BY <1>2, <3>2 DEF NotifyParserListeners, TypeOK
    <3> QED
      BY <3>1, <3>2
  <2> QED
    BY <1>2, <2>1, <2>2 DEF NotifyParserListeners, TypeOK, envVars, brokerVars
<1>3. CASE NotifyCommandListeners
  BY <1>3 DEF NotifyCommandListeners, TypeOK, envVars, brokerVars
<1>4. CASE Shutdown
  BY <1>4, HandlersMade DEF Shutdown, TypeOK, busVars, envVars, brokerVars
<1>5. CASE Connect
  <2>1. connections' \in Connections /\ <<>> \in Seq(Results)
    BY <1>5 DEF Connect, TypeOK, Connections
  <2> QED
    BY SMTT(30), <1>5, <2>1, HandlersMade DEF Connect, TypeOK, busVars, envVars, brokerVars
<1>6. CASE SessionStep
  BY <1>6
  DEF SessionStep, ConnectFails, SleepEnds, BrokerDrop, CommandsFail, TypeOK, busVars, envVars, brokerVars
<1>7. ASSUME NEW d \in Devices, ReceiveCommand(d)
      PROVE  TypeOK'
  <2>1. [type |-> "command", device |-> d] \in Commands
    BY DEF Commands
  <2> QED
    BY SMTT(30), <1>7, <2>1 DEF ReceiveCommand, TypeOK, brokerVars
<1>8. ASSUME NEW k \in Connections, TakeMessage(k)
      PROVE  TypeOK'
  <2>1. handler' \in [Connections -> Handlers]
    <3>1. /\ [at |-> "init", msg |-> Head(queue[k]), sent |-> 0] \in Handlers
          /\ [at |-> "publish", msg |-> Head(queue[k]), sent |-> 0] \in Handlers
      BY <1>8, TakeEffect, HandlersMade
    <3>2. handler \in [Connections -> Handlers]
      BY DEF TypeOK
    <3> QED
      BY <1>8, <3>1, <3>2, TakeEffect
  <2>2. queue' \in [Connections -> Seq(Results)]
    <3>1. queue \in [Connections -> Seq(Results)]
      BY DEF TypeOK
    <3>2. Tail(queue[k]) \in Seq(Results)
      BY <1>8, <3>1, TakeEffect
    <3> QED
      BY <1>8, <3>1, <3>2, TakeEffect
  <2>3. devices' \in SUBSET Devices
    <3>1. devices' = devices \cup {Head(queue[k]).device} /\ Head(queue[k]).device \in Devices
      BY <1>8, TakeEffect
    <3> QED
      BY <3>1 DEF TypeOK
  <2> QED
    BY <1>8, <2>1, <2>2, <2>3 DEF TakeMessage, TypeOK, busVars, envVars, brokerVars
<1>9. ASSUME NEW k \in Connections, PublishConfig(k)
      PROVE  TypeOK'
  <2>1. handler' \in [Connections -> Handlers]
    BY <1>9, ConfigEffect
  <2>2. announced' \in [Devices -> 0..Configs]
    <3>1. handler[k].msg.device \in Devices /\ announced[handler[k].msg.device] < Configs
      BY <1>9, ConfigEffect DEF AnnounceInv, Results
    <3> QED
      BY SMTT(30), <1>9, <3>1 DEF PublishConfig, TypeOK
  <2> QED
    BY <1>9, <2>1, <2>2 DEF PublishConfig, TypeOK, busVars, envVars
<1>10. ASSUME NEW k \in Connections, PublishState(k)
      PROVE  TypeOK'
  <2>1. handler' \in [Connections -> Handlers]
    BY <1>10, StateEffect
  <2>2. /\ handler[k].msg.device \in Devices /\ handler[k].msg.id \in 1..MaxMessages
        /\ handler[k].sent + 1 \in 1..Topics
    BY <1>10, StateEffect DEF Results
  <2>3. shown' \in [Devices -> [1..Topics -> 0..MaxMessages]]
    <3> DEFINE d == handler[k].msg.device
               row == [shown[d] EXCEPT ![handler[k].sent + 1] = handler[k].msg.id]
    <3>1. shown \in [Devices -> [1..Topics -> 0..MaxMessages]]
      BY DEF TypeOK
    <3>2. row \in [1..Topics -> 0..MaxMessages]
      BY <2>2, <3>1
    <3>3. shown' = [shown EXCEPT ![d] = row]
      BY <1>10, StateEffect
    <3> QED
      BY <2>2, <3>1, <3>2, <3>3
  <2>4. copies' \in [1..MaxMessages -> Nat]
    <3>1. copies \in [1..MaxMessages -> Nat]
      BY DEF TypeOK
    <3>2. copies[handler[k].msg.id] + 1 \in Nat
      BY <2>2, <3>1
    <3>3. copies' = copies \/ copies' = [copies EXCEPT ![handler[k].msg.id] = copies[handler[k].msg.id] + 1]
      BY <1>10, StateEffect
    <3> QED
      BY <2>2, <3>1, <3>2, <3>3
  <2> QED
    BY <1>10, <2>1, <2>3, <2>4 DEF PublishState, TypeOK, busVars, envVars
<1>11. ASSUME NEW k \in Connections, PublishFails(k)
      PROVE  TypeOK'
  BY <1>11, HandlersMade DEF PublishFails, TypeOK, busVars, envVars, brokerVars
<1>12. CASE UNCHANGED vars
  BY <1>12 DEF vars, TypeOK
<1> QED
  BY <1>1, <1>2, <1>3, <1>4, <1>5, <1>6, <1>7, <1>8, <1>9, <1>10, <1>11, <1>12
  DEF Next, Poller, Bus, Broker, Session, Handler, SessionStep

-----------------------------------------------------------------------------
(* Announcements.                                                          *)

\* What decides about announcements.
announcementVars == <<connections, handler, devices, announced>>

LEMMA AnnounceStays ==
    ASSUME AnnounceInv, UNCHANGED announcementVars
    PROVE  AnnounceInv'
BY DEF AnnounceInv, announcementVars

\* A handler that ends, or stays as it is, does no harm.
LEMMA AnnounceWithoutHandlers ==
    ASSUME TypeOK, AnnounceInv, UNCHANGED <<connections, devices, announced>>,
           \A k \in Connections : handler'[k] \in {handler[k], Gone}
    PROVE  AnnounceInv'
BY DEF AnnounceInv, Gone

\* Every step keeps the announcements consistent.
LEMMA AnnounceKeeps ==
    ASSUME TypeOK, AnnounceInv, [Next]_vars
    PROVE  AnnounceInv'
<1> USE BoundsAssumption
<1>0. DOMAIN handler = Connections
  BY DEF TypeOK
<1>1. CASE UNCHANGED announcementVars
  BY <1>1, AnnounceStays
<1>2. CASE Shutdown \/ \E k \in Connections : PublishFails(k)
  <2>1. UNCHANGED <<connections, devices, announced>>
    BY <1>2 DEF Shutdown, PublishFails, brokerVars
  <2>2. \A k \in Connections : handler'[k] \in {handler[k], Gone}
    BY <1>0, <1>2 DEF Shutdown, PublishFails
  <2> QED
    BY <2>1, <2>2, AnnounceWithoutHandlers
<1>3. CASE Connect
  <2>1. connections' = connections + 1 /\ connections' \in Connections /\ connections \in Nat
    BY <1>3 DEF Connect, TypeOK, Connections
  <2>2. \A k \in Connections : handler'[k] = IF k = connections' THEN Idle ELSE handler[k]
    BY <1>0, <1>3, <2>1 DEF Connect
  <2>3. UNCHANGED <<devices, announced>>
    BY <1>3 DEF Connect, brokerVars
  <2>4. \A k \in Connections : k > connections' => handler'[k] = Gone
    BY <2>1, <2>2 DEF AnnounceInv, Connections
  <2> QED
    BY <2>2, <2>3, <2>4 DEF AnnounceInv, Idle
<1>4. ASSUME NEW k \in Connections, TakeMessage(k)
      PROVE  AnnounceInv'
  <2> DEFINE d == Head(queue[k]).device
  <2>1. /\ handler[k] = Idle /\ devices' = devices \cup {d} /\ d \in Devices
        /\ handler'[k].at = (IF d \notin devices /\ Announce THEN "init" ELSE "publish")
        /\ handler'[k].msg.device = d /\ handler'[k].sent = 0
        /\ \A j \in Connections : j # k => handler'[j] = handler[j]
    BY <1>4, TakeEffect
  <2>2. UNCHANGED <<connections, announced>>
    BY <1>4 DEF TakeMessage, brokerVars
  <2> HIDE DEF d
  <2>3. ASSUME NEW j \in Connections, j > connections'
        PROVE  handler'[j] = Gone
    BY <2>1, <2>2, <2>3 DEF AnnounceInv, Idle, Gone
  <2>4. ASSUME NEW j \in Connections, handler'[j].at = "init"
        PROVE  /\ handler'[j].msg.device \in devices' /\ handler'[j].sent < Configs
               /\ announced'[handler'[j].msg.device] = handler'[j].sent
               /\ j # k => handler'[j].msg.device \in devices
               /\ j = k => d \notin devices
    BY <2>1, <2>2, <2>4 DEF AnnounceInv
  <2>5. ASSUME NEW j \in Connections, handler'[j].at = "publish"
        PROVE  handler'[j].sent < Topics
    BY <2>1, <2>5 DEF AnnounceInv
  <2>6. ASSUME NEW i \in Connections, NEW j \in Connections,
               handler'[i].at = "init", handler'[j].at = "init", i # j
        PROVE  handler'[i].msg.device # handler'[j].msg.device
    BY <2>1, <2>4, <2>6 DEF AnnounceInv
  <2>7. \A e \in Devices \ devices' : announced'[e] = 0
    BY <2>1, <2>2 DEF AnnounceInv
  <2> QED
    BY <2>3, <2>4, <2>5, <2>6, <2>7 DEF AnnounceInv
<1>5. ASSUME NEW k \in Connections, PublishConfig(k)
      PROVE  AnnounceInv'
  <2> DEFINE d == handler[k].msg.device
  <2>1. /\ handler[k].at = "init" /\ handler[k].sent \in Nat
        /\ handler'[k].msg = handler[k].msg /\ k = connections
        /\ \A j \in Connections : j # k => handler'[j] = handler[j]
        /\ \/ /\ handler'[k].at = "init" /\ handler'[k].sent = handler[k].sent + 1
              /\ handler[k].sent + 1 < Configs
           \/ /\ handler'[k].at = "publish" /\ handler'[k].sent = 0
              /\ handler[k].sent + 1 = Configs
    BY <1>5, ConfigEffect
  <2>2. UNCHANGED <<connections, devices>>
    BY <1>5 DEF PublishConfig
  <2>3. d \in devices /\ d \in Devices /\ announced[d] = handler[k].sent
    BY <2>1, <1>5, ConfigEffect DEF AnnounceInv, Results
  <2>4. announced'[d] = handler[k].sent + 1 /\ \A e \in Devices \ {d} : announced'[e] = announced[e]
    BY <1>5, <2>3 DEF PublishConfig, TypeOK
  <2>5. ASSUME NEW j \in Connections, j # k, handler[j].at = "init"
        PROVE  handler[j].msg.device # d /\ handler[j].msg.device \in Devices
    BY <2>1, <2>5 DEF AnnounceInv, TypeOK
  <2>6. \A j \in Connections : j > connections' => handler'[j] = Gone
    BY <2>1, <2>2 DEF AnnounceInv, Connections
  <2>7. ASSUME NEW j \in Connections, handler'[j].at = "init"
        PROVE  /\ handler'[j].msg.device \in devices' /\ handler'[j].sent < Configs
               /\ announced'[handler'[j].msg.device] = handler'[j].sent
    <3>1. CASE j = k
      BY <2>1, <2>2, <2>3, <2>4, <2>7, <3>1
    <3>2. CASE j # k
      BY <2>1, <2>2, <2>4, <2>5, <2>7, <3>2 DEF AnnounceInv
    <3> QED
      BY <3>1, <3>2
  <2>8. \A j \in Connections : handler'[j].at = "publish" => handler'[j].sent < Topics
    BY <2>1 DEF AnnounceInv
  <2>9. ASSUME NEW i \in Connections, NEW j \in Connections,
               handler'[i].at = "init", handler'[j].at = "init", i # j
        PROVE  handler'[i].msg.device # handler'[j].msg.device
    BY <2>1, <2>9 DEF AnnounceInv
  <2>10. \A e \in Devices \ devices' : announced'[e] = 0
    BY <2>2, <2>3, <2>4 DEF AnnounceInv
  <2> HIDE DEF d
  <2> QED
    BY <2>6, <2>7, <2>8, <2>9, <2>10 DEF AnnounceInv
<1>6. ASSUME NEW k \in Connections, PublishState(k)
      PROVE  AnnounceInv'
  <2>1. /\ handler[k].at = "publish" /\ k = connections
        /\ \A j \in Connections : j # k => handler'[j] = handler[j]
        /\ \/ /\ handler'[k].at = "publish" /\ handler'[k].sent = handler[k].sent + 1
              /\ handler[k].sent + 1 < Topics
           \/ handler'[k] = Idle
    BY <1>6, StateEffect
  <2>2. UNCHANGED <<connections, devices, announced>>
    BY <1>6 DEF PublishState
  <2>3. \A j \in Connections : handler'[j].at = "init" => j # k
    BY <2>1 DEF Idle
  <2>4. \A j \in Connections : handler'[j].at = "publish" => handler'[j].sent < Topics
    BY <2>1 DEF AnnounceInv, Idle
  <2>5. \A j \in Connections : j > connections' => handler'[j] = Gone
    BY <2>1, <2>2 DEF AnnounceInv, Connections
  <2> QED
    BY <2>1, <2>2, <2>3, <2>4, <2>5 DEF AnnounceInv
<1> QED
  BY <1>1, <1>2, <1>3, <1>4, <1>5, <1>6
  DEF Next, Poller, Bus, Broker, Session, Handler, vars, announcementVars, brokerVars,
      PutResult, NotifyParserListeners, NotifyCommandListeners, ConnectFails, SleepEnds,
      CommandsFail, BrokerDrop, ReceiveCommand

-----------------------------------------------------------------------------
(* Order and copies.                                                       *)

\* Connections that have a handler, and the one that publishes.
LEMMA CurrentConnection ==
    ASSUME TypeOK, AnnounceInv, NEW k \in Connections, handler[k] # Gone
    PROVE  k <= connections /\ connections > 0 /\ connections \in Connections
BY BoundsAssumption DEF TypeOK, AnnounceInv, Connections

\* The broker has what it had, the current queue is as it was, and what the
\* current handler has in hand, if anything, it had before, with the same
\* topics published or none.
CurrentStays ==
    /\ UNCHANGED <<connections, shown, copies>>
    /\ connections > 0 =>
           /\ queue'[connections] = queue[connections]
           /\ handler'[connections].at \in {"init", "publish"} =>
                  /\ Busy(connections)
                  /\ handler'[connections].msg = handler[connections].msg
                  /\ \/ handler'[connections] = handler[connections]
                     \/ handler'[connections].at = "init"
                     \/ handler'[connections].sent = 0

LEMMA StaysAhead ==
    ASSUME CurrentStays, NEW id, Ahead(id)
    PROVE  Ahead(id)'
BY DEF CurrentStays, Ahead, Busy

LEMMA StaysInOrder ==
    ASSUME TypeOK, CurrentStays, QueueInv, HandInv
    PROVE  QueueInv' /\ HandInv'
<1>1. ASSUME connections > 0
      PROVE  \A id : InHand(connections, id)' <= InHand(connections, id)
                     /\ InHand(connections, id) \in {0, 1} /\ InHand(connections, id)' \in {0, 1}
  BY <1>1 DEF CurrentStays, InHand, Busy
<1>2. QueueInv'
  <2> SUFFICES ASSUME connections > 0
               PROVE  QueueInv'
    BY DEF QueueInv, CurrentStays
  <2> DEFINE q == queue[connections]
  <2>1. /\ q = queue'[connections] /\ connections' = connections
        /\ shown' = shown /\ copies' = copies
    BY DEF CurrentStays
  <2>2. /\ \A i \in DOMAIN q : q[i].id \in 1..MaxMessages
        /\ DOMAIN q \subseteq Nat /\ copies \in [1..MaxMessages -> Nat] /\ connections \in Nat
    <3>1. connections \in Nat /\ connections \in Connections
      BY BoundsAssumption DEF TypeOK, Connections
    <3>2. q \in Seq(Results)
      BY <3>1 DEF TypeOK
    <3>3. \A i \in DOMAIN q : q[i] \in Results /\ i \in Nat
      BY <3>2
    <3> QED
      BY <3>1, <3>3 DEF TypeOK, Results
  <2>3. ASSUME NEW i \in DOMAIN q, NEW j \in DOMAIN q, i <= j
        PROVE  /\ q[i].id <= q[j].id
               /\ q[i].id = q[j].id =>
                      copies[q[i].id] + (j - i + 1) + InHand(connections, q[i].id)' <= connections
    <3>1. /\ q[i].id <= q[j].id
          /\ q[i].id = q[j].id =>
                 copies[q[i].id] + (j - i + 1) + InHand(connections, q[i].id) <= connections
      BY <2>3 DEF QueueInv
    <3>2. /\ InHand(connections, q[i].id)' <= InHand(connections, q[i].id)
          /\ InHand(connections, q[i].id) \in {0, 1} /\ InHand(connections, q[i].id)' \in {0, 1}
      BY <1>1, <2>1
    <3>3. copies[q[i].id] \in Nat /\ i \in Nat /\ j \in Nat /\ connections \in Nat
      BY <2>2
    <3> QED
      BY <3>1, <3>2, <3>3
  <2>4. ASSUME NEW i \in DOMAIN q
        PROVE  /\ \A d \in Devices, t \in 1..Topics : shown[d][t] <= q[i].id
               /\ Busy(connections)' => handler'[connections].msg.id <= q[i].id
    BY <2>1 DEF QueueInv, CurrentStays, Busy
  <2> QED
    BY <2>1, <2>3, <2>4 DEF QueueInv
<1>3. HandInv'
  BY DEF HandInv, CurrentStays, Busy
<1> QED
  BY <1>2, <1>3

\* The bus stays in order as long as it is as it was and ahead of the rest.
LEMMA StaysOnTheBus ==
    ASSUME TypeOK, BusInv, UNCHANGED <<bus_queue, produced>>,
           \A id \in 1..MaxMessages : Ahead(id) => Ahead(id)'
    PROVE  BusInv'
<1>1. ASSUME NEW i \in DOMAIN bus_queue, bus_queue[i].type = "parser"
      PROVE  bus_queue[i].id \in 1..MaxMessages
  <2>1. bus_queue[i] \in Results \cup Commands
    BY DEF TypeOK
  <2> QED
    BY <1>1, <2>1 DEF Results, Commands
<1> QED
  BY <1>1 DEF BusInv

\* The first entry leaves the bus.
LEMMA LeavesTheBus ==
    ASSUME TypeOK, BusInv, bus_queue # <<>>, bus_queue' = Tail(bus_queue),
           produced' = produced,
           \A id : Ahead(id) /\ (Head(bus_queue).type = "parser" => Head(bus_queue).id < id)
                       => Ahead(id)'
    PROVE  BusInv'
<1>1. bus_queue \in Seq(Results \cup Commands)
  BY DEF TypeOK
<1>2. /\ Head(bus_queue) = bus_queue[1] /\ 1 \in DOMAIN bus_queue /\ DOMAIN bus_queue' \subseteq Nat
      /\ \A i \in DOMAIN bus_queue' :
             i + 1 \in DOMAIN bus_queue /\ bus_queue'[i] = bus_queue[i + 1] /\ 1 < i + 1
  BY <1>1
<1>3. /\ bus_queue[1].type = "parser" => bus_queue[1].id \in Nat
      /\ produced \in Nat
  BY <1>1, <1>2, BoundsAssumption DEF TypeOK, Results, Commands
<1>4. \A id \in 1..MaxMessages : id > produced => Ahead(id)'
  BY <1>2, <1>3 DEF BusInv
<1>5. ASSUME NEW i \in DOMAIN bus_queue', bus_queue'[i].type = "parser"
      PROVE  bus_queue'[i].id <= produced /\ Ahead(bus_queue[i].id)'
  <2>1. bus_queue[i + 1].id <= produced /\ Ahead(bus_queue[i + 1].id)
    BY <1>2, <1>5 DEF BusInv
  <2>2. bus_queue[1].type = "parser" => bus_queue[1].id < bus_queue[i + 1].id
    BY <1>2, <1>5 DEF BusInv
  <2> QED
    BY <1>2, <2>1, <2>2
<1>6. ASSUME NEW i \in DOMAIN bus_queue', NEW j \in DOMAIN bus_queue', i < j,
             bus_queue'[i].type = "parser", bus_queue'[j].type = "parser"
      PROVE  bus_queue'[i].id < bus_queue'[j].id
  BY <1>2, <1>6 DEF BusInv
<1> QED
  BY <1>4, <1>5, <1>6 DEF BusInv

\* An entry joins the bus: a command, or a result with the next number.
LEMMA JoinsTheBus ==
    ASSUME TypeOK, BusInv, NEW msg, bus_queue' = Append(bus_queue, msg),
           \/ msg \in Commands /\ produced' = produced
           \/ msg \in Results /\ msg.id = produced + 1 /\ produced' = produced + 1,
           \A id : Ahead(id) => Ahead(id)'
    PROVE  BusInv'
<1>1. bus_queue \in Seq(Results \cup Commands) /\ msg \in Results \cup Commands /\ produced \in Nat
  BY BoundsAssumption DEF TypeOK
<1>2. /\ Len(bus_queue) \in Nat /\ DOMAIN bus_queue = 1..Len(bus_queue)
      /\ DOMAIN bus_queue' = 1..(Len(bus_queue) + 1)
      /\ \A i \in DOMAIN bus_queue : bus_queue'[i] = bus_queue[i]
      /\ bus_queue'[Len(bus_queue) + 1] = msg
  BY <1>1
<1>3. msg \in Commands => msg.type # "parser"
  BY DEF Commands
<1>4. msg \in Results => msg.id \in 1..MaxMessages
  BY DEF Results
<1>5. \A id \in 1..MaxMessages : id > produced' => Ahead(id)'
  BY <1>1 DEF BusInv
<1>6. ASSUME NEW i \in DOMAIN bus_queue', bus_queue'[i].type = "parser"
      PROVE  bus_queue'[i].id <= produced' /\ Ahead(bus_queue[i].id)'
  <2>1. CASE i \in DOMAIN bus_queue
    <3>1. bus_queue[i].id <= produced /\ Ahead(bus_queue[i].id)
      BY <1>2, <1>6, <2>1 DEF BusInv
    <3>2. bus_queue[i] \in Results
      BY <1>1, <1>2, <1>6, <2>1 DEF Commands
    <3> QED
      BY <1>1, <1>2, <2>1, <3>1, <3>2 DEF Results
  <2>2. CASE i = Len(bus_queue) + 1
    BY <1>1, <1>2, <1>3, <1>4, <1>6, <2>2 DEF BusInv
  <2> QED
    BY <1>2, <2>1, <2>2
<1>7. ASSUME NEW i \in DOMAIN bus_queue', NEW j \in DOMAIN bus_queue', i < j,
             bus_queue'[i].type = "parser", bus_queue'[j].type = "parser"
      PROVE  bus_queue'[i].id < bus_queue'[j].id
  <2>1. i \in DOMAIN bus_queue
    BY <1>2, <1>7
  <2>2. CASE j \in DOMAIN bus_queue
    BY <1>2, <1>7, <2>1, <2>2 DEF BusInv
  <2>3. CASE j = Len(bus_queue) + 1
    <3>1. bus_queue[i].id <= produced
      BY <1>2, <1>7, <2>1 DEF BusInv
    <3>2. bus_queue[i] \in Results
      BY <1>1, <1>2, <1>7, <2>1 DEF Commands
    <3> QED
      BY <1>1, <1>2, <1>3, <1>7, <2>1, <2>3, <3>1, <3>2 DEF Results
  <2> QED
    BY <1>2, <2>2, <2>3
<1> QED
  BY <1>5, <1>6, <1>7 DEF BusInv

\* What the order is about, by name and type.
LEMMA CurrentTypes ==
    ASSUME TypeOK, connections > 0
    PROVE  /\ connections \in Nat /\ connections \in Connections
           /\ queue[connections] \in Seq(Results)
           /\ \A i \in DOMAIN queue[connections] :
                  /\ i \in Nat /\ queue[connections][i] \in Results
                  /\ queue[connections][i].id \in 1..MaxMessages
                  /\ copies[queue[connections][i].id] \in Nat
           /\ \A d \in Devices, t \in 1..Topics : shown[d][t] \in Nat
<1>1. connections \in Nat /\ connections \in Connections
  BY BoundsAssumption DEF TypeOK, Connections
<1>2. queue[connections] \in Seq(Results)
  BY <1>1 DEF TypeOK
<1>3. \A i \in DOMAIN queue[connections] : i \in Nat /\ queue[connections][i] \in Results
  BY <1>2
<1>4. \A d \in Devices, t \in 1..Topics : shown[d][t] \in Nat
  BY BoundsAssumption DEF TypeOK
<1> QED
  BY <1>1, <1>2, <1>3, <1>4 DEF TypeOK, Results

\* A result goes to the queue of the current connection, once for each listener.
LEMMA NotifyKeepsOrder ==
    ASSUME TypeOK, OrderInv, NotifyParserListeners
    PROVE  OrderInv'
<1> DEFINE q == queue[connections]
           r == queue'[connections]
           msg == Head(bus_queue)
<1>1. /\ UNCHANGED <<connections, handler, shown, copies, produced>>
      /\ bus_queue # <<>> /\ bus_queue' = Tail(bus_queue) /\ msg.type = "parser"
      /\ msg \in Results /\ msg = bus_queue[1] /\ 1 \in DOMAIN bus_queue
  <2>1. bus_queue # <<>> => 1 \in DOMAIN bus_queue
    BY DEF TypeOK
  <2> QED
    BY <2>1, NotifyEffect DEF NotifyParserListeners, brokerVars, envVars
<1>2. Ahead(msg.id) /\ msg.id \in 1..MaxMessages
  BY <1>1 DEF OrderInv, BusInv, Results
<1>3. CASE ~(connections > 0)
  <2>1. CurrentStays
    BY <1>1, <1>3 DEF CurrentStays
  <2> QED
    BY <1>1, <2>1, StaysAhead, StaysInOrder, LeavesTheBus DEF OrderInv
<1>4. CASE connections > 0
  <2>1. /\ r \in Seq(Results) /\ Len(r) = Len(q) + connections
        /\ \A i \in DOMAIN r : r[i] = IF i <= Len(q) THEN q[i] ELSE msg
    <3>1. connections \in Nat /\ q \in Seq(Results) /\ queue \in [Connections -> Seq(Results)]
          /\ connections \in Connections
      BY <1>4, CurrentTypes DEF TypeOK
    <3>2. r = AppendCopies(q, msg, connections)
      BY <1>4, <3>1, NotifyEffect
    <3>3. /\ AppendCopies(q, msg, connections) \in Seq(Results)
          /\ Len(AppendCopies(q, msg, connections)) = Len(q) + connections
          /\ \A i \in DOMAIN AppendCopies(q, msg, connections) :
                 AppendCopies(q, msg, connections)[i] = IF i <= Len(q) THEN q[i] ELSE msg
      <4>1. q \in Seq(Results) /\ msg \in Results /\ connections \in Nat
        BY <1>1, <3>1
      <4> HIDE DEF q, msg
      <4> QED
        BY <4>1, CopiesAppended
    <3> QED
      BY <3>2, <3>3
  <2>2. /\ q \in Seq(Results) /\ DOMAIN q = 1..Len(q) /\ Len(q) \in Nat /\ connections \in Nat
        /\ \A i \in DOMAIN q : q[i].id \in 1..MaxMessages /\ q[i].id < msg.id
        /\ \A d \in Devices, t \in 1..Topics : shown[d][t] < msg.id
        /\ copies[msg.id] = 0 /\ InHand(connections, msg.id) = 0
        /\ Busy(connections) => handler[connections].msg.id < msg.id
        /\ Busy(connections) => handler[connections].msg.id \in Nat
    <3>1. /\ q \in Seq(Results) /\ connections \in Nat
          /\ \A i \in DOMAIN q : q[i].id \in 1..MaxMessages
      BY <1>4, CurrentTypes
    <3>2. Busy(connections) => handler[connections].msg.id \in 1..MaxMessages
      BY <1>4, CurrentTypes, HandlerType
    <3> QED
      BY <1>2, <1>4, <3>1, <3>2 DEF Ahead, InHand
  <2>3. DOMAIN r = 1..(Len(q) + connections)
    BY <2>1
  <2>4. ASSUME NEW id, Ahead(id), msg.id < id
        PROVE  Ahead(id)'
    <3>1. \A i \in DOMAIN r : r[i].id < id
      BY <1>4, <2>1, <2>2, <2>3, <2>4 DEF Ahead
    <3> QED
      BY <1>1, <2>4, <3>1 DEF Ahead, Busy
  <2>5. BusInv'
    BY <1>1, <2>4, LeavesTheBus DEF OrderInv
  <2>6. \A id : InHand(connections, id)' = InHand(connections, id)
    BY <1>1 DEF InHand, Busy
  <2>7. ASSUME NEW i \in DOMAIN r, NEW j \in DOMAIN r, i <= j
        PROVE  /\ r[i].id <= r[j].id
               /\ r[i].id = r[j].id =>
                      copies[r[i].id] + (j - i + 1) + InHand(connections, r[i].id) <= connections
    <3> HIDE DEF q, r, msg
    <3>1. CASE j <= Len(q)
      <4>1. i \in DOMAIN q /\ j \in DOMAIN q /\ r[i] = q[i] /\ r[j] = q[j]
        BY <2>1, <2>2, <2>3, <2>7, <3>1
      <4> QED
        BY <1>4, <2>7, <4>1 DEF OrderInv, QueueInv, q
    <3>2. CASE i <= Len(q) /\ j > Len(q)
      <4>1. i \in DOMAIN q /\ r[i] = q[i] /\ r[j] = msg
        BY <2>1, <2>2, <2>3, <2>7, <3>2
      <4> QED
        BY <1>2, <2>2, <4>1
    <3>3. CASE i > Len(q)
      <4>1. r[i] = msg /\ r[j] = msg /\ j - i + 1 <= connections /\ i \in Nat /\ j \in Nat
        BY <2>1, <2>2, <2>3, <2>7, <3>3
      <4> QED
        BY <1>2, <2>2, <4>1
    <3> QED
      BY <2>2, <2>3, <2>7, <3>1, <3>2, <3>3
  <2>8. ASSUME NEW i \in DOMAIN r
        PROVE  /\ \A d \in Devices, t \in 1..Topics : shown[d][t] <= r[i].id
               /\ Busy(connections) => handler[connections].msg.id <= r[i].id
    <3>1. CASE i <= Len(q)
      <4>1. r[i] = q[i] /\ i \in DOMAIN q
        BY <2>1, <2>2, <2>3, <3>1
      <4> QED
        BY <1>4, <4>1 DEF OrderInv, QueueInv
    <3>2. CASE i > Len(q)
      <4>1. r[i] = msg
        BY <2>1, <2>2, <2>3, <3>2
      <4>2. \A d \in Devices, t \in 1..Topics : shown[d][t] \in Nat
        BY <1>4, CurrentTypes
      <4> QED
        BY <1>2, <2>2, <4>1, <4>2
    <3> QED
      BY <2>2, <2>3, <3>1, <3>2
  <2>9. QueueInv'
    <3>1. r = (queue[connections])' /\ Busy(connections)' = Busy(connections)
      BY <1>1 DEF Busy
    <3> QED
      BY <1>1, <2>6, <2>7, <2>8, <3>1 DEF QueueInv
  <2>10. HandInv'
    BY <1>1 DEF OrderInv, HandInv, Busy
  <2> QED
    BY <2>5, <2>9, <2>10 DEF OrderInv
<1> QED
  BY <1>3, <1>4

\* The current handler takes the first result of the current queue.
LEMMA TakeKeepsOrder ==
    ASSUME TypeOK, AnnounceInv, OrderInv, TakeMessage(connections), connections > 0
    PROVE  OrderInv'
<1> DEFINE q == queue[connections]
           r == queue'[connections]
           msg == Head(q)
<1>1. /\ UNCHANGED <<connections, shown, copies, produced, bus_queue>>
      /\ handler[connections] = Idle /\ q # <<>> /\ msg \in Results
      /\ handler'[connections].at \in {"init", "publish"}
      /\ handler'[connections].msg = msg /\ handler'[connections].sent = 0
      /\ r = Tail(q)
  BY CurrentTypes, TakeEffect DEF TakeMessage, busVars, envVars, brokerVars
<1>2. /\ connections \in Nat /\ q \in Seq(Results)
      /\ \A i \in DOMAIN q : i \in Nat /\ q[i].id \in 1..MaxMessages /\ copies[q[i].id] \in Nat
      /\ \A d \in Devices, t \in 1..Topics : shown[d][t] \in Nat
  BY CurrentTypes
<1>3. /\ msg = q[1] /\ 1 \in DOMAIN q
      /\ \A i \in DOMAIN r :
             i \in Nat /\ i + 1 \in DOMAIN q /\ r[i] = q[i + 1] /\ 1 <= i
  BY <1>1, <1>2
<1>4. ~Busy(connections) /\ \A id : InHand(connections, id) = 0
  BY <1>1 DEF Busy, InHand, Idle
<1>5. ASSUME NEW id, Ahead(id)
      PROVE  Ahead(id)'
  <2>1. \A i \in DOMAIN q : q[i].id < id
    BY <1>5 DEF Ahead
  <2>2. (\A i \in DOMAIN r : r[i].id < id) /\ msg.id < id
    BY <1>3, <2>1
  <2> QED
    BY <1>1, <1>5, <2>2 DEF Ahead
<1>6. BusInv'
  BY <1>1, <1>5, StaysOnTheBus DEF OrderInv
<1>7. ASSUME NEW i \in DOMAIN q, NEW j \in DOMAIN q, i <= j
      PROVE  /\ q[i].id <= q[j].id
             /\ q[i].id = q[j].id => copies[q[i].id] + (j - i + 1) <= connections
  <2>1. /\ q[i].id <= q[j].id
        /\ q[i].id = q[j].id =>
               copies[q[i].id] + (j - i + 1) + InHand(connections, q[i].id) <= connections
    BY <1>7 DEF OrderInv, QueueInv
  <2>2. InHand(connections, q[i].id) = 0
    BY <1>4
  <2> QED
    BY SMTT(30), <1>2, <2>1, <2>2
<1>8. ASSUME NEW i \in DOMAIN r, NEW j \in DOMAIN r, i <= j
      PROVE  /\ r[i].id <= r[j].id
             /\ r[i].id = r[j].id =>
                    copies[r[i].id] + (j - i + 1) + (IF msg.id = r[i].id THEN 1 ELSE 0) <= connections
  <2>1. /\ i + 1 \in DOMAIN q /\ r[i] = q[i + 1] /\ i \in Nat /\ 1 <= i
        /\ j + 1 \in DOMAIN q /\ r[j] = q[j + 1] /\ j \in Nat /\ 1 <= j
        /\ 1 \in DOMAIN q /\ msg = q[1]
    BY <1>3
  <2>2. /\ q[i + 1].id <= q[j + 1].id
        /\ q[i + 1].id = q[j + 1].id =>
               copies[q[i + 1].id] + ((j + 1) - (i + 1) + 1) <= connections
        /\ q[1].id = q[j + 1].id =>
               copies[q[1].id] + ((j + 1) - 1 + 1) <= connections
    BY <1>7, <1>8, <2>1
  <2>3. /\ copies[q[i + 1].id] \in Nat /\ q[i + 1].id \in Nat /\ q[1].id \in Nat
        /\ q[j + 1].id \in Nat
    BY SMTT(30), <1>2, <2>1
  <2>4. CASE q[1].id = q[i + 1].id
    <3>1. q[i + 1].id = q[j + 1].id => copies[q[i + 1].id] + (j + 1) <= connections
      BY <1>2, <2>1, <2>2, <2>3, <2>4
    <3>2. \A n, c, x, y \in Nat : 1 <= x /\ n + (y + 1) <= c => n + (y - x + 1) + 1 <= c
      OBVIOUS
    <3>3. q[i + 1].id = q[j + 1].id => copies[q[i + 1].id] + (j - i + 1) + 1 <= connections
      <4>1. i \in Nat /\ j \in Nat /\ 1 <= i /\ copies[q[i + 1].id] \in Nat /\ connections \in Nat
        BY <1>2, <2>1, <2>3
      <4> QED
        BY <3>1, <3>2, <4>1
    <3> QED
      BY <2>1, <2>2, <2>4, <3>3
  <2>5. CASE q[1].id # q[i + 1].id
    <3>1. (j + 1) - (i + 1) + 1 = j - i + 1 + 0
      BY <2>1
    <3>2. q[i + 1].id = q[j + 1].id => copies[q[i + 1].id] + (j - i + 1) + 0 <= connections
      BY <1>2, <2>1, <2>2, <2>3, <3>1
    <3> QED
      BY <2>1, <2>2, <2>5, <3>2
  <2> QED
    BY <2>4, <2>5
<1>9. QueueInv'
  <2>1. ASSUME NEW i \in DOMAIN r
        PROVE  /\ \A d \in Devices, t \in 1..Topics : shown[d][t] <= r[i].id
               /\ msg.id <= r[i].id
    <3>1. i + 1 \in DOMAIN q /\ r[i] = q[i + 1] /\ 1 <= i + 1 /\ 1 \in DOMAIN q /\ msg = q[1]
      BY <1>3
    <3> QED
      BY <1>7, <3>1 DEF OrderInv, QueueInv
  <2>2. \A id : InHand(connections, id)' = IF msg.id = id THEN 1 ELSE 0
    BY <1>1 DEF InHand, Busy
  <2>3. r = (queue[connections])' /\ (handler[connections])' = handler'[connections]
    BY <1>1
  <2> QED
    BY <1>1, <1>8, <2>1, <2>2, <2>3 DEF QueueInv, Busy
<1>10. HandInv'
  <2>1. \A d \in Devices, t \in 1..Topics : shown[d][t] <= msg.id
    BY <1>3 DEF OrderInv, QueueInv
  <2>2. copies[msg.id] + 1 <= connections
    <3> DEFINE Count(i, j) == j - i + 1
    <3>1. \A i, j \in DOMAIN q : i <= j =>
              (q[i].id = q[j].id => copies[q[i].id] + Count(i, j) <= connections)
      BY <1>7
    <3>2. Count(1, 1) = 1 /\ 1 <= 1
      OBVIOUS
    <3> HIDE DEF Count
    <3> QED
      BY <1>3, <3>1, <3>2
  <2> QED
    BY <1>1, <2>1, <2>2 DEF HandInv
<1> QED
  BY <1>6, <1>9, <1>10 DEF OrderInv

\* The current handler publishes a topic of the result in hand.
LEMMA StateKeepsOrder ==
    ASSUME TypeOK, AnnounceInv, OrderInv, NEW k \in Connections, PublishState(k)
    PROVE  OrderInv'
<1> DEFINE q == queue[connections]
           h == handler[connections]
           id == h.msg.id
<1>1. /\ k = connections /\ connections > 0
      /\ UNCHANGED <<connections, queue, produced, bus_queue>>
      /\ h.at = "publish" /\ h.msg \in Results /\ h.msg.device \in Devices
      /\ id \in 1..MaxMessages /\ h.sent \in Nat /\ h.sent + 1 \in 1..Topics
      /\ Busy(connections)
      /\ shown' = [shown EXCEPT ![h.msg.device][h.sent + 1] = id]
      /\ \/ /\ handler'[connections].at = "publish" /\ handler'[connections].msg = h.msg
            /\ handler'[connections].sent = h.sent + 1 /\ copies' = copies
         \/ /\ handler'[connections] = Idle
            /\ copies' = [copies EXCEPT ![id] = copies[id] + 1]
  <2>1. /\ k = connections /\ h.at = "publish" /\ h.msg \in Results
        /\ h.sent \in Nat /\ h.sent + 1 \in 1..Topics
        /\ shown' = [shown EXCEPT ![h.msg.device][h.sent + 1] = id]
        /\ \/ /\ handler'[connections].at = "publish" /\ handler'[connections].msg = h.msg
              /\ handler'[connections].sent = h.sent + 1 /\ copies' = copies
           \/ /\ handler'[connections] = Idle
              /\ copies' = [copies EXCEPT ![id] = copies[id] + 1]
    BY StateEffect
  <2>2. UNCHANGED <<connections, queue, produced, bus_queue>>
    BY DEF PublishState, busVars, envVars
  <2>3. connections > 0
    BY <2>1 DEF Connections
  <2> QED
    BY <2>1, <2>2, <2>3 DEF Results, Busy
<1>2. /\ connections \in Nat
      /\ \A i \in DOMAIN q : i \in Nat /\ q[i].id \in 1..MaxMessages
      /\ \A d \in Devices, t \in 1..Topics : shown[d][t] \in Nat
      /\ copies \in [1..MaxMessages -> Nat]
  BY <1>1, CurrentTypes DEF TypeOK
<1>3. /\ \A d \in Devices, t \in 1..Topics : shown[d][t] <= id
      /\ copies[id] + 1 <= connections
      /\ \A t \in 1..h.sent : shown[h.msg.device][t] >= id
  BY <1>1 DEF OrderInv, HandInv
<1>4. \A d \in Devices, t \in 1..Topics :
          \/ shown'[d][t] = shown[d][t]
          \/ shown'[d][t] = id
  BY <1>1 DEF TypeOK
<1>5. shown'[h.msg.device][h.sent + 1] = id
  BY <1>1 DEF TypeOK
<1> HIDE DEF h, id
<1>6. ASSUME NEW n \in 1..MaxMessages, Ahead(n)
      PROVE  Ahead(n)'
  <2>1. id < n /\ \A d \in Devices, t \in 1..Topics : shown[d][t] < n
    BY <1>1, <1>6 DEF Ahead, h, id
  <2>2. \A d \in Devices, t \in 1..Topics : shown'[d][t] < n
    BY <1>4, <2>1
  <2>3. copies'[n] = 0
    <3>1. copies[n] = 0 /\ n # id
      BY <1>1, <1>6, <2>1 DEF Ahead
    <3> QED
      BY <1>1, <1>2, <3>1
  <2>4. (connections > 0 => \A j \in DOMAIN queue[connections] : queue[connections][j].id < n)'
    BY <1>1, <1>6 DEF Ahead
  <2>5. (connections > 0 /\ Busy(connections) => handler[connections].msg.id < n)'
    BY <1>1, <1>6, <2>1 DEF Ahead, Busy, id, Idle
  <2> QED
    BY <2>2, <2>3, <2>4, <2>5 DEF Ahead
<1>7. BusInv'
  BY <1>1, <1>6, StaysOnTheBus DEF OrderInv
<1>8. ASSUME NEW n \in 1..MaxMessages
      PROVE  copies'[n] + InHand(connections, n)' = copies[n] + InHand(connections, n)
             /\ copies'[n] \in Nat /\ InHand(connections, n)' \in {0, 1}
             /\ copies[n] \in Nat /\ InHand(connections, n) \in {0, 1}
  <2>1. InHand(connections, n) = IF id = n THEN 1 ELSE 0
    BY <1>1 DEF InHand, h, id
  <2>2. CASE handler'[connections] = Idle /\ copies' = [copies EXCEPT ![id] = copies[id] + 1]
    <3>1. InHand(connections, n)' = 0
      BY <1>1, <2>2 DEF InHand, Busy, Idle
    <3>2. copies'[n] = IF n = id THEN copies[n] + 1 ELSE copies[n]
      BY <1>2, <2>2
    <3> QED
      BY <1>2, <2>1, <3>1, <3>2
  <2>3. CASE handler'[connections].at = "publish" /\ handler'[connections].msg = h.msg /\ copies' = copies
    <3>1. InHand(connections, n)' = InHand(connections, n)
      BY <1>1, <2>3 DEF InHand, Busy, h
    <3> QED
      BY <1>2, <2>1, <2>3, <3>1
  <2> QED
    BY <1>1, <2>2, <2>3
<1>9. QueueInv'
  <2>1. ASSUME NEW i \in DOMAIN q, NEW j \in DOMAIN q, i <= j
        PROVE  /\ q[i].id <= q[j].id
               /\ q[i].id = q[j].id =>
                      copies'[q[i].id] + (j - i + 1) + InHand(connections, q[i].id)' <= connections
    <3> DEFINE n == q[i].id
    <3>1. /\ n <= q[j].id
          /\ n = q[j].id => copies[n] + (j - i + 1) + InHand(connections, n) <= connections
      BY <1>1, <2>1 DEF OrderInv, QueueInv
    <3>2. n \in 1..MaxMessages /\ i \in Nat /\ j \in Nat /\ connections \in Nat
      BY <1>2
    <3>3. UNCHANGED n
      BY <1>1
    <3> HIDE DEF n
    <3>4. copies'[n] + InHand(connections, n)' = copies[n] + InHand(connections, n)
          /\ copies'[n] \in Nat /\ InHand(connections, n)' \in {0, 1}
          /\ copies[n] \in Nat /\ InHand(connections, n) \in {0, 1}
      BY <1>8, <3>2, <3>3
    <3>5. n = q[j].id => copies'[n] + (j - i + 1) + InHand(connections, n)' <= connections
      BY <3>1, <3>2, <3>4
    <3> QED
      BY <3>1, <3>5 DEF n
  <2>2. ASSUME NEW i \in DOMAIN q
        PROVE  /\ \A d \in Devices, t \in 1..Topics : shown'[d][t] <= q[i].id
               /\ Busy(connections)' => handler'[connections].msg.id <= q[i].id
    <3>1. id <= q[i].id /\ \A d \in Devices, t \in 1..Topics : shown[d][t] <= q[i].id
      BY <1>1 DEF OrderInv, QueueInv, h, id
    <3> QED
      BY <1>1, <1>4, <3>1 DEF Busy, Idle, id
  <2> QED
    BY <1>1, <2>1, <2>2 DEF QueueInv
<1>10. HandInv'
  <2> SUFFICES ASSUME Busy(connections)'
               PROVE  HandInv'
    BY DEF HandInv
  <2>1. /\ handler'[connections].at = "publish" /\ handler'[connections].msg = h.msg
        /\ handler'[connections].sent = h.sent + 1 /\ copies' = copies
    BY <1>1 DEF Busy, Idle
  <2>2. \A d \in Devices, t \in 1..Topics : shown'[d][t] <= id
    BY <1>1, <1>3, <1>4
  <2>3. ASSUME NEW t \in 1..(h.sent + 1)
        PROVE  shown'[h.msg.device][t] >= id
    <3>1. t \in 1..h.sent \/ t = h.sent + 1
      BY <1>1
    <3>2. t \in 1..Topics /\ id \in Nat
      BY <1>1, BoundsAssumption
    <3> QED
      BY <1>1, <1>3, <1>4, <1>5, <3>1, <3>2
  <2> QED
    BY <1>1, <1>3, <2>1, <2>2, <2>3 DEF HandInv, id
<1> QED
  BY <1>7, <1>9, <1>10 DEF OrderInv

\* Every step keeps the order.
LEMMA OrderKeeps ==
    ASSUME TypeOK, AnnounceInv, OrderInv, [Next]_vars
    PROVE  OrderInv'
<1>0. DOMAIN handler = Connections /\ DOMAIN queue = Connections
  BY DEF TypeOK
<1>1. ASSUME NEW d \in Devices, PutResult(d)
      PROVE  OrderInv'
  <2> DEFINE msg == [type |-> "parser", device |-> d, id |-> produced + 1]
  <2>1. CurrentStays
    BY <1>1 DEF PutResult, brokerVars, CurrentStays, Busy
  <2>2. /\ bus_queue' = Append(bus_queue, msg) /\ msg \in Results
        /\ msg.id = produced + 1 /\ produced' = produced + 1
    BY <1>1, BoundsAssumption DEF PutResult, TypeOK, Results
  <2> HIDE DEF msg
  <2> QED
    BY <2>1, <2>2, StaysAhead, StaysInOrder, JoinsTheBus DEF OrderInv
<1>2. CASE NotifyParserListeners
  BY <1>2, NotifyKeepsOrder
<1>3. CASE NotifyCommandListeners
  <2>1. CurrentStays
    BY <1>3 DEF NotifyCommandListeners, brokerVars, CurrentStays, Busy
  <2>2. bus_queue # <<>> /\ bus_queue' = Tail(bus_queue) /\ produced' = produced
    BY <1>3 DEF NotifyCommandListeners, envVars
  <2> QED
    BY <2>1, <2>2, StaysAhead, StaysInOrder, LeavesTheBus DEF OrderInv
<1>4. ASSUME NEW d \in Devices, ReceiveCommand(d)
      PROVE  OrderInv'
  <2>1. CurrentStays
    BY <1>4 DEF ReceiveCommand, brokerVars, CurrentStays, Busy
  <2>2. /\ bus_queue' = Append(bus_queue, [type |-> "command", device |-> d])
        /\ [type |-> "command", device |-> d] \in Commands /\ produced' = produced
    BY <1>4 DEF ReceiveCommand, Commands
  <2> QED
    BY <2>1, <2>2, StaysAhead, StaysInOrder, JoinsTheBus DEF OrderInv
<1>5. CASE Connect
  <2>1. /\ connections' = connections + 1 /\ connections' \in Connections
        /\ UNCHANGED <<shown, copies, bus_queue, produced>>
    BY <1>5, BoundsAssumption DEF Connect, TypeOK, Connections, busVars, envVars, brokerVars
  <2>2. queue'[connections'] = <<>> /\ handler'[connections'] = Idle
    BY <1>0, <1>5, <2>1 DEF Connect
  <2>3. \A id \in 1..MaxMessages : Ahead(id) => Ahead(id)'
    BY <2>1, <2>2 DEF Ahead, Busy, Idle
  <2>4. BusInv'
    BY <2>1, <2>3, StaysOnTheBus DEF OrderInv
  <2> QED
    BY <2>2, <2>4 DEF OrderInv, QueueInv, HandInv, Busy, Idle
<1>6. CASE SessionStep \/ Shutdown \/ (\E k \in Connections : PublishFails(k)) \/ UNCHANGED vars
  <2>1. UNCHANGED <<connections, shown, copies, bus_queue, produced, queue>>
    BY <1>6
    DEF SessionStep, ConnectFails, SleepEnds, BrokerDrop, CommandsFail, Shutdown, PublishFails,
        vars, busVars, envVars, brokerVars
  <2>2. \A k \in Connections : handler'[k] \in {handler[k], Gone}
    BY <1>0, <1>6
    DEF SessionStep, ConnectFails, SleepEnds, BrokerDrop, CommandsFail, Shutdown, PublishFails, vars
  <2>3. CurrentStays
    <3>1. CASE connections > 0
      <4>1. connections \in Connections
        BY <3>1, CurrentTypes
      <4> QED
        BY <2>1, <2>2, <4>1 DEF CurrentStays, Busy, Gone
    <3> QED
      BY <2>1, <3>1 DEF CurrentStays
  <2> QED
    BY <2>1, <2>3, StaysAhead, StaysInOrder, StaysOnTheBus DEF OrderInv
<1>7. ASSUME NEW k \in Connections, TakeMessage(k)
      PROVE  OrderInv'
  <2>1. handler[k] = Idle
    BY <1>7, TakeEffect
  <2>2. connections > 0 /\ connections \in Connections
    BY <2>1, CurrentConnection DEF Idle, Gone
  <2>3. CASE k = connections
    BY <1>7, <2>2, <2>3, TakeKeepsOrder
  <2>4. CASE k # connections
    <3>1. UNCHANGED <<connections, shown, copies, bus_queue, produced>>
      BY <1>7 DEF TakeMessage, busVars, envVars, brokerVars
    <3>2. handler'[connections] = handler[connections] /\ queue'[connections] = queue[connections]
      BY <1>7, <2>2, <2>4, TakeEffect
    <3>3. CurrentStays
      BY <3>1, <3>2 DEF CurrentStays, Busy
    <3> QED
      BY <3>1, <3>3, StaysAhead, StaysInOrder, StaysOnTheBus DEF OrderInv
  <2> QED
    BY <2>3, <2>4
<1>8. ASSUME NEW k \in Connections, PublishConfig(k)
      PROVE  OrderInv'
  <2>1. UNCHANGED <<connections, shown, copies, bus_queue, produced, queue>>
    BY <1>8 DEF PublishConfig, busVars, envVars
  <2>2. CurrentStays
    <3>1. handler[connections].at = "init" /\ handler'[connections].msg = handler[connections].msg
          /\ handler'[connections].at \in {"init", "publish"}
          /\ (handler'[connections].at = "publish" => handler'[connections].sent = 0)
      BY <1>8, ConfigEffect
    <3> QED
      BY <2>1, <3>1 DEF CurrentStays, Busy
  <2> QED
    BY <2>1, <2>2, StaysAhead, StaysInOrder, StaysOnTheBus DEF OrderInv
<1>9. ASSUME NEW k \in Connections, PublishState(k)
      PROVE  OrderInv'
  BY <1>9, StateKeepsOrder
<1> QED
  BY <1>1, <1>2, <1>3, <1>4, <1>5, <1>6, <1>7, <1>8, <1>9
  DEF Next, Poller, Bus, Broker, Session, Handler, SessionStep

\* A step keeps what the state topics show, or replaces an older result.
LEMMA ShownEffect ==
    ASSUME TypeOK, AnnounceInv, OrderInv, [Next]_vars
    PROVE  /\ \A d \in Devices, t \in 1..Topics : shown'[d][t] >= shown[d][t]
           /\ copies' # copies =>
                  /\ connections > 0 /\ connections' = connections
                  /\ \E id \in 1..MaxMessages :
                         /\ copies[id] + 1 <= connections
                         /\ copies' = [copies EXCEPT ![id] = copies[id] + 1]
<1>1. CASE UNCHANGED <<shown, copies>>
  BY <1>1, BoundsAssumption DEF TypeOK
<1>2. ASSUME NEW k \in Connections, PublishState(k)
      PROVE  /\ \A d \in Devices, t \in 1..Topics : shown'[d][t] >= shown[d][t]
             /\ copies' # copies =>
                    /\ connections > 0 /\ connections' = connections
                    /\ \E id \in 1..MaxMessages :
                           /\ copies[id] + 1 <= connections
                           /\ copies' = [copies EXCEPT ![id] = copies[id] + 1]
  <2> DEFINE msg == handler[connections].msg
  <2>1. /\ k = connections /\ connections > 0 /\ connections' = connections
        /\ Busy(connections) /\ msg \in Results /\ handler[connections].sent + 1 \in 1..Topics
        /\ shown' = [shown EXCEPT ![msg.device][handler[connections].sent + 1] = msg.id]
        /\ copies' = copies \/ copies' = [copies EXCEPT ![msg.id] = copies[msg.id] + 1]
    <3>1. /\ k = connections /\ msg \in Results /\ handler[connections].sent + 1 \in 1..Topics
          /\ handler[connections].at = "publish"
          /\ shown' = [shown EXCEPT ![msg.device][handler[connections].sent + 1] = msg.id]
          /\ copies' = copies \/ copies' = [copies EXCEPT ![msg.id] = copies[msg.id] + 1]
      BY <1>2, StateEffect
    <3>2. connections' = connections
      BY <1>2 DEF PublishState
    <3> HIDE DEF msg
    <3> QED
      BY <3>1, <3>2 DEF Connections, Busy
  <2>2. /\ \A d \in Devices, t \in 1..Topics : shown[d][t] <= msg.id
        /\ copies[msg.id] + 1 <= connections
    BY <2>1 DEF OrderInv, HandInv
  <2>3. msg.id \in 1..MaxMessages /\ msg.device \in Devices
    BY <2>1 DEF Results
  <2> HIDE DEF msg
  <2>4. \A d \in Devices, t \in 1..Topics : shown'[d][t] >= shown[d][t]
    <3>1. \A d \in Devices, t \in 1..Topics :
              shown'[d][t] \in {shown[d][t], msg.id} /\ shown[d][t] \in Nat
      BY SMTT(30), <2>1, BoundsAssumption DEF TypeOK
    <3> QED
      BY <2>2, <2>3, <3>1
  <2> QED
    BY <2>1, <2>2, <2>3, <2>4
<1> QED
  BY <1>1, <1>2
  DEF Next, Poller, Bus, Broker, Session, Handler, vars, brokerVars, PutResult,
      NotifyParserListeners, NotifyCommandListeners, Shutdown, Connect, ConnectFails, SleepEnds,
      CommandsFail, BrokerDrop, ReceiveCommand, TakeMessage, PublishConfig, PublishFails

\* Every step keeps the bound on copies.
LEMMA CopiesKeep ==
    ASSUME TypeOK, AnnounceInv, OrderInv, CopiesPerConnection, [Next]_vars
    PROVE  CopiesPerConnection'
<1>1. connections \in Nat /\ copies \in [1..MaxMessages -> Nat]
  BY BoundsAssumption DEF TypeOK
<1>2. CASE copies' = copies
  <2>1. connections' \in {connections, connections + 1}
    BY DEF Next, Poller, Bus, Broker, Session, Handler, vars, PutResult, NotifyParserListeners,
           NotifyCommandListeners, Shutdown, Connect, ConnectFails, SleepEnds, CommandsFail,
           BrokerDrop, ReceiveCommand, TakeMessage, PublishConfig, PublishState, PublishFails
  <2> QED
    BY <1>1, <1>2, <2>1 DEF CopiesPerConnection
<1>3. CASE copies' # copies
  <2>1. PICK id \in 1..MaxMessages :
            /\ copies[id] + 1 <= connections
            /\ copies' = [copies EXCEPT ![id] = copies[id] + 1]
    BY <1>3, ShownEffect
  <2>2. connections' = connections
    BY <1>3, ShownEffect
  <2> QED
    BY <1>1, <2>1, <2>2 DEF CopiesPerConnection
<1> QED
  BY <1>2, <1>3

-----------------------------------------------------------------------------
(* Results of the current connection.                                      *)

\* Where a result is: in the queue, in hand, or shown.
Queued(msg) == \E i \in DOMAIN queue[connections] : queue[connections][i] = msg
Held(msg) == Busy(connections) /\ handler[connections].msg = msg
Shown(msg) == \A t \in 1..Topics : shown[msg.device][t] >= msg.id

\* What is shown of a result stays shown, or is replaced by newer ones.
LEMMA StaysShown ==
    ASSUME TypeOK, TypeOK', AnnounceInv, OrderInv, [Next]_vars, NEW msg \in Results, Shown(msg)
    PROVE  Shown(msg)'
<1>1. msg.device \in Devices /\ msg.id \in Nat
  BY DEF Results
<1>2. \A t \in 1..Topics : shown'[msg.device][t] >= shown[msg.device][t]
  BY <1>1, ShownEffect
<1>3. \A t \in 1..Topics : shown'[msg.device][t] \in Nat /\ shown[msg.device][t] \in Nat
  BY SMTT(30), <1>1, BoundsAssumption DEF TypeOK
<1> QED
  BY <1>1, <1>2, <1>3 DEF Shown

\* Every step on a connection keeps the results handed to it.
LEMMA ResultsKeep ==
    ASSUME TypeOK, TypeOK', AnnounceInv, OrderInv, NoLostResult, [Next]_vars
    PROVE  NoLostResult'
<1>0. /\ DOMAIN handler = Connections /\ DOMAIN queue = Connections
      /\ handed \subseteq Results
  BY DEF TypeOK
<1>1. SUFFICES ASSUME run' = "connected", NEW msg \in handed'
               PROVE  Queued(msg)' \/ Held(msg)' \/ Shown(msg)'
  BY DEF NoLostResult, Queued, Held, Shown, Busy
<1>2. msg \in Results
  BY DEF TypeOK
<1>3. run = "connected" /\ msg \in handed => Queued(msg) \/ Held(msg) \/ Shown(msg)
  BY DEF NoLostResult, Queued, Held, Shown, Busy
<1>4. CASE UNCHANGED <<run, handed, connections, queue, handler>>
  <2>1. Queued(msg) => Queued(msg)'
    BY <1>4 DEF Queued
  <2>2. Held(msg) => Held(msg)'
    BY <1>4 DEF Held, Busy
  <2> QED
    BY <1>1, <1>2, <1>3, <1>4, <2>1, <2>2, StaysShown
<1>5. CASE NotifyParserListeners /\ connections > 0
  <2>1. /\ UNCHANGED <<run, connections, handler>>
        /\ handed' = handed \cup {Head(bus_queue)}
        /\ queue' = [queue EXCEPT ![connections] =
                         AppendCopies(queue[connections], Head(bus_queue), connections)]
        /\ Head(bus_queue) \in Results
    BY <1>5, NotifyEffect DEF NotifyParserListeners
  <2>2. /\ connections \in Nat /\ connections \in Connections
        /\ queue[connections] \in Seq(Results)
    BY <1>5, CurrentTypes
  <2> DEFINE q == queue[connections]
             r == AppendCopies(q, Head(bus_queue), connections)
  <2>3. /\ r \in Seq(Results) /\ Len(r) = Len(q) + connections
        /\ \A i \in DOMAIN r : r[i] = IF i <= Len(q) THEN q[i] ELSE Head(bus_queue)
    BY <2>1, <2>2, CopiesAppended
  <2>4. queue'[connections] = r
    BY <1>0, <2>1, <2>2
  <2>5. Queued(msg) => Queued(msg)'
    <3>1. ASSUME NEW i \in DOMAIN q
          PROVE  i \in DOMAIN r /\ r[i] = q[i]
      BY <1>5, <2>2, <2>3
    <3> QED
      BY <2>1, <2>4, <3>1 DEF Queued
  <2>6. Held(msg) => Held(msg)'
    BY <2>1 DEF Held, Busy
  <2>7. CASE msg = Head(bus_queue)
    <3>1. Len(q) + 1 \in DOMAIN r /\ ~(Len(q) + 1 <= Len(q))
      BY <1>5, <2>2, <2>3
    <3>2. r[Len(q) + 1] = msg
      BY <2>3, <2>7, <3>1
    <3> HIDE DEF r
    <3> QED
      BY <2>1, <2>4, <3>1, <3>2 DEF Queued
  <2>8. CASE msg # Head(bus_queue)
    BY <1>1, <1>2, <1>3, <2>1, <2>5, <2>6, <2>8, StaysShown
  <2> QED
    BY <2>7, <2>8
<1>6. CASE NotifyParserListeners /\ ~(connections > 0)
  <2>1. UNCHANGED <<run, handed, connections, queue, handler>>
    BY <1>6 DEF NotifyParserListeners
  <2> QED
    BY <1>4, <2>1
<1>7. CASE Connect
  BY <1>7 DEF Connect
<1>8. ASSUME NEW k \in Connections, TakeMessage(k)
      PROVE  Queued(msg)' \/ Held(msg)' \/ Shown(msg)'
  <2>1. UNCHANGED <<run, handed, connections>>
    BY <1>8 DEF TakeMessage
  <2>2. handler[k] = Idle
    BY <1>8, TakeEffect
  <2>3. connections > 0 /\ connections \in Connections
    BY <2>2, CurrentConnection DEF Idle, Gone
  <2>4. CASE k = connections
    <3> DEFINE q == queue[connections]
    <3>1. /\ q \in Seq(Results) /\ q # <<>> /\ ~Busy(connections)
          /\ queue'[connections] = Tail(q)
          /\ handler'[connections].at \in {"init", "publish"}
          /\ handler'[connections].msg = Head(q)
      BY <1>8, <2>2, <2>3, <2>4, CurrentTypes, TakeEffect DEF Busy, Idle
    <3>2. ASSUME Queued(msg)
          PROVE  Queued(msg)' \/ Held(msg)'
      <4>1. PICK i \in DOMAIN q : q[i] = msg
        BY <3>2 DEF Queued
      <4>2. CASE i = 1
        BY <2>1, <3>1, <4>1, <4>2 DEF Held, Busy
      <4>3. CASE i # 1
        <5>1. i - 1 \in DOMAIN Tail(q) /\ Tail(q)[i - 1] = msg
          BY <3>1, <4>1, <4>3
        <5> QED
          BY <2>1, <3>1, <5>1 DEF Queued
      <4> QED
        BY <4>2, <4>3
    <3> QED
      BY <1>1, <1>2, <1>3, <2>1, <3>1, <3>2, StaysShown DEF Held
  <2>5. CASE k # connections
    <3>1. queue'[connections] = queue[connections] /\ handler'[connections] = handler[connections]
      BY <1>8, <2>3, <2>5, TakeEffect
    <3>2. (Queued(msg) => Queued(msg)') /\ (Held(msg) => Held(msg)')
      BY <2>1, <3>1 DEF Queued, Held, Busy
    <3> QED
      BY <1>1, <1>2, <1>3, <2>1, <3>2, StaysShown
  <2> QED
    BY <2>4, <2>5
<1>9. ASSUME NEW k \in Connections, PublishConfig(k)
      PROVE  Queued(msg)' \/ Held(msg)' \/ Shown(msg)'
  <2>1. UNCHANGED <<run, handed, connections, queue>>
    BY <1>9 DEF PublishConfig
  <2>2. Busy(connections) /\ handler'[connections].at \in {"init", "publish"}
        /\ handler'[connections].msg = handler[connections].msg
    BY <1>9, ConfigEffect DEF Busy
  <2>3. (Queued(msg) => Queued(msg)') /\ (Held(msg) => Held(msg)')
    BY <2>1, <2>2 DEF Queued, Held, Busy
  <2> QED
    BY <1>1, <1>2, <1>3, <2>1, <2>3, StaysShown
<1>10. ASSUME NEW k \in Connections, PublishState(k)
      PROVE  Queued(msg)' \/ Held(msg)' \/ Shown(msg)'
  <2>1. UNCHANGED <<run, handed, connections, queue>>
    BY <1>10 DEF PublishState
  <2>2. Queued(msg) => Queued(msg)'
    BY <2>1 DEF Queued
  <2>3. ASSUME Held(msg)
        PROVE  Held(msg)' \/ Shown(msg)'
    <3> DEFINE h == handler[connections]
    <3>1. /\ k = connections /\ connections > 0 /\ h.at = "publish" /\ h.msg = msg
          /\ Busy(connections) /\ h.sent \in Nat /\ h.sent + 1 \in 1..Topics
          /\ shown' = [shown EXCEPT ![msg.device][h.sent + 1] = msg.id]
          /\ \/ /\ handler'[connections].at = "publish" /\ handler'[connections].msg = msg
             \/ h.sent + 1 = Topics
      <4>1. /\ k = connections /\ h.at = "publish" /\ h.sent \in Nat /\ h.sent + 1 \in 1..Topics
            /\ shown' = [shown EXCEPT ![h.msg.device][h.sent + 1] = h.msg.id]
            /\ \/ handler'[connections].at = "publish" /\ handler'[connections].msg = h.msg
               \/ h.sent + 1 = Topics
        BY <1>10, StateEffect
      <4>2. h.msg = msg /\ Busy(connections)
        BY <2>3 DEF Held
      <4>3. connections > 0
        BY <4>1 DEF Connections
      <4> HIDE DEF h
      <4> QED
        BY <4>1, <4>2, <4>3
    <3>2. \A t \in 1..h.sent : shown[msg.device][t] >= msg.id
      BY <3>1 DEF OrderInv, HandInv
    <3>3. msg.device \in Devices /\ msg.id \in Nat
      BY <1>2 DEF Results
    <3> HIDE DEF h
    <3>4. \A t \in 1..Topics :
              shown'[msg.device][t] = IF t = h.sent + 1 THEN msg.id ELSE shown[msg.device][t]
      BY <3>1, <3>3 DEF TypeOK
    <3>5. CASE h.sent + 1 = Topics
      <4>1. \A t \in 1..Topics : t = h.sent + 1 \/ t \in 1..h.sent
        BY <3>1, <3>5
      <4>2. \A t \in 1..Topics : shown'[msg.device][t] >= msg.id
        BY <3>2, <3>3, <3>4, <4>1
      <4> QED
        BY <4>2 DEF Shown
    <3>6. CASE handler'[connections].at = "publish" /\ handler'[connections].msg = msg
      BY <2>1, <3>6 DEF Held, Busy
    <3> QED
      BY <3>1, <3>5, <3>6
  <2> QED
    BY <1>1, <1>2, <1>3, <2>1, <2>2, <2>3, StaysShown
<1>11. ASSUME NEW k \in Connections, PublishFails(k)
      PROVE  Queued(msg)' \/ Held(msg)' \/ Shown(msg)'
  <2>1. UNCHANGED <<handed, connections, queue>> /\ run = "connected" /\ k # connections
    BY <1>1, <1>11 DEF PublishFails
  <2>2. connections > 0 /\ connections \in Connections
    <3>1. handler[k] # Gone
      BY <1>11 DEF PublishFails, Gone
    <3> QED
      BY <3>1, CurrentConnection
  <2>3. handler'[connections] = handler[connections]
    BY <1>0, <1>11, <2>1, <2>2 DEF PublishFails
  <2>4. (Queued(msg) => Queued(msg)') /\ (Held(msg) => Held(msg)')
    BY <2>1, <2>3 DEF Queued, Held, Busy
  <2> QED
    BY <1>1, <1>2, <1>3, <2>1, <2>4, StaysShown
<1>12. CASE Shutdown \/ ConnectFails \/ SleepEnds \/ CommandsFail
  BY <1>1, <1>12 DEF Shutdown, ConnectFails, SleepEnds, CommandsFail
<1> QED
  BY <1>4, <1>5, <1>6, <1>7, <1>8, <1>9, <1>10, <1>11, <1>12
  DEF Next, Poller, Bus, Broker, Session, Handler, vars, PutResult, NotifyCommandListeners,
      BrokerDrop, ReceiveCommand

-----------------------------------------------------------------------------
(* The first connection.                                                   *)

FirstConnectionInv == FirstInv /\ AnnouncedFirst

\* Nothing about the first connection changes, except that its handler may end.
LEMMA FirstStays ==
    ASSUME FirstConnectionInv, UNCHANGED <<connections, devices, announced, shown>>,
           connections = 1 => handler'[1] \in {handler[1], Gone}
    PROVE  FirstConnectionInv'
<1>1. connections = 0 \/ ~Announce \/ connections # 1 => FirstConnectionInv'
  BY DEF FirstConnectionInv, FirstInv, AnnouncedFirst
<1>2. ASSUME Announce, connections = 1
      PROVE  FirstConnectionInv'
  <2>1. CASE handler'[1] = Gone
    BY <1>2, <2>1 DEF FirstConnectionInv, FirstInv, AnnouncedFirst, Gone
  <2>2. CASE handler'[1] = handler[1]
    BY <1>2, <2>2 DEF FirstConnectionInv, FirstInv, AnnouncedFirst
  <2> QED
    BY <1>2, <2>1, <2>2
<1> QED
  BY <1>1, <1>2

\* Every step keeps that, on the first connection, devices are announced first.
LEMMA FirstKeeps ==
    ASSUME TypeOK, TypeOK', AnnounceInv, FirstConnectionInv, [Next]_vars
    PROVE  FirstConnectionInv'
<1>0. DOMAIN handler = Connections /\ connections \in Nat /\ connections' \in Nat
      /\ 0 \notin Connections
  BY BoundsAssumption DEF TypeOK, Connections
<1>1. CASE UNCHANGED <<connections, devices, announced, shown, handler>>
  BY <1>1, FirstStays
<1>2. CASE Shutdown \/ \E k \in Connections : PublishFails(k)
  <2>1. UNCHANGED <<connections, devices, announced, shown>>
    BY <1>2 DEF Shutdown, PublishFails, brokerVars
  <2>2. \A k \in Connections : handler'[k] \in {handler[k], Gone}
    BY <1>0, <1>2 DEF Shutdown, PublishFails
  <2>3. connections = 1 => 1 \in Connections
    BY BoundsAssumption DEF TypeOK, Connections
  <2> QED
    BY <2>1, <2>2, <2>3, FirstStays
<1>3. CASE Connect
  <2>1. connections' = connections + 1 /\ connections' \in Connections
        /\ UNCHANGED <<devices, announced, shown>>
    BY <1>3, BoundsAssumption DEF Connect, TypeOK, Connections, brokerVars
  <2>2. handler'[connections'] = Idle
    BY <1>0, <1>3, <2>1 DEF Connect
  <2>3. connections' # 0 /\ (connections' = 1 => connections = 0)
    BY <1>0, <2>1
  <2>4. connections' = 1 => devices = {} /\ \A d \in Devices, t \in 1..Topics : shown[d][t] = 0
    BY <2>3 DEF FirstConnectionInv, FirstInv
  <2> QED
    BY <2>1, <2>2, <2>3, <2>4 DEF FirstConnectionInv, FirstInv, AnnouncedFirst, Idle
<1>4. ASSUME NEW k \in Connections, TakeMessage(k)
      PROVE  FirstConnectionInv'
  <2> DEFINE d == Head(queue[k]).device
  <2>1. /\ handler[k] = Idle /\ devices' = devices \cup {d} /\ d \in Devices
        /\ handler'[k].at = (IF d \notin devices /\ Announce THEN "init" ELSE "publish")
        /\ handler'[k].msg.device = d
    BY <1>4, TakeEffect
  <2>2. UNCHANGED <<connections, announced, shown>>
    BY <1>4 DEF TakeMessage, brokerVars
  <2> HIDE DEF d
  <2>3. connections > 0 /\ k <= connections
    BY <2>1, CurrentConnection DEF Idle, Gone
  <2>4. connections = 1 => k = 1
    BY <2>3 DEF Connections
  <2>5. ASSUME Announce, connections = 1
        PROVE  /\ \A e \in devices : announced[e] = Configs
               /\ \A e \in devices' :
                      announced[e] = Configs \/ (handler'[1].at = "init" /\ handler'[1].msg.device = e)
               /\ handler'[1].at = "publish" => announced[handler'[1].msg.device] = Configs
    <3>1. \A e \in devices : announced[e] = Configs
      BY <2>1, <2>4, <2>5 DEF FirstConnectionInv, FirstInv, Idle, Gone
    <3> QED
      BY <2>1, <2>4, <2>5, <3>1
  <2> QED
    BY <1>0, <2>2, <2>3, <2>5 DEF FirstConnectionInv, FirstInv, AnnouncedFirst
<1>5. ASSUME NEW k \in Connections, PublishConfig(k)
      PROVE  FirstConnectionInv'
  <2> DEFINE d == handler[k].msg.device
  <2>1. /\ handler[k].at = "init" /\ handler[k].sent \in Nat /\ d \in Devices
        /\ handler'[k].msg = handler[k].msg /\ k = connections
        /\ \/ handler'[k].at = "init"
           \/ handler'[k].at = "publish" /\ handler[k].sent + 1 = Configs
    BY <1>5, ConfigEffect DEF Results
  <2>2. UNCHANGED <<connections, devices, shown>>
    BY <1>5 DEF PublishConfig
  <2>3. announced[d] = handler[k].sent /\ handler[k].sent < Configs
    BY <2>1 DEF AnnounceInv
  <2>4. announced'[d] = announced[d] + 1 /\ \A e \in Devices : e # d => announced'[e] = announced[e]
    BY <1>5, <2>1 DEF PublishConfig, TypeOK
  <2>5. /\ k = connections /\ handler'[k].msg.device = d
        /\ \/ handler'[k].at = "init"
           \/ handler'[k].at = "publish" /\ announced'[d] = Configs
    BY <2>1, <2>3, <2>4
  <2>6. connections # 0 /\ Configs \in Nat
    BY <1>0, <2>1, BoundsAssumption
  <2>7. ASSUME Announce, connections = 1
        PROVE  /\ \A e \in devices :
                      announced'[e] = Configs \/ (handler'[1].at = "init" /\ handler'[1].msg.device = e)
               /\ handler'[1].at = "publish" => announced'[handler'[1].msg.device] = Configs
               /\ \A e \in Devices, t \in 1..Topics : shown[e][t] > 0 => announced'[e] = Configs
    <3>1. \A e \in devices : e # d => announced[e] = Configs
      BY <2>1, <2>7 DEF FirstConnectionInv, FirstInv, Gone
    <3>2. devices \subseteq Devices
      BY DEF TypeOK
    <3>3. ASSUME NEW e \in Devices, NEW t \in 1..Topics, shown[e][t] > 0
          PROVE  announced'[e] = Configs
      <4>1. announced[e] = Configs
        BY <2>7, <3>3 DEF FirstConnectionInv, AnnouncedFirst
      <4>2. e # d
        BY <2>3, <2>6, <4>1
      <4> QED
        BY <2>4, <4>1, <4>2
    <3> HIDE DEF d
    <3>4. \A e \in devices :
              announced'[e] = Configs \/ (handler'[1].at = "init" /\ handler'[1].msg.device = e)
      BY <2>4, <2>5, <2>7, <3>1, <3>2
    <3>5. handler'[1].at = "publish" => announced'[handler'[1].msg.device] = Configs
      BY <2>5, <2>7
    <3> QED
      BY <3>3, <3>4, <3>5
  <2> QED
    BY <2>2, <2>6, <2>7 DEF FirstConnectionInv, FirstInv, AnnouncedFirst
<1>6. ASSUME NEW k \in Connections, PublishState(k)
      PROVE  FirstConnectionInv'
  <2> DEFINE d == handler[k].msg.device
  <2>1. /\ handler[k].at = "publish" /\ k = connections /\ d \in Devices
        /\ shown' = [shown EXCEPT ![d][handler[k].sent + 1] = handler[k].msg.id]
        /\ handler'[k] = Idle \/ (handler'[k].at = "publish" /\ handler'[k].msg = handler[k].msg)
    BY <1>6, StateEffect DEF Results
  <2>2. UNCHANGED <<connections, devices, announced>>
    BY <1>6 DEF PublishState
  <2>3. connections # 0
    BY <1>0, <2>1
  <2>4. \A e \in Devices, t \in 1..Topics : e # d => shown'[e][t] = shown[e][t]
    BY <2>1 DEF TypeOK
  <2>5. ASSUME Announce, connections = 1
        PROVE  /\ \A e \in devices : announced[e] = Configs
               /\ announced[d] = Configs
               /\ handler'[1].at = "publish" => announced[handler'[1].msg.device] = Configs
    <3>1. \A e \in devices : announced[e] = Configs
      BY <2>1, <2>5 DEF FirstConnectionInv, FirstInv, Gone
    <3>2. announced[d] = Configs
      BY <2>1, <2>5 DEF FirstConnectionInv, FirstInv
    <3> QED
      BY <2>1, <2>5, <3>1, <3>2 DEF Idle
  <2>6. ASSUME Announce, connections = 1
        PROVE  \A e \in Devices, t \in 1..Topics : shown'[e][t] > 0 => announced[e] = Configs
    BY <2>4, <2>5, <2>6 DEF FirstConnectionInv, AnnouncedFirst
  <2> QED
    BY <2>2, <2>3, <2>5, <2>6 DEF FirstConnectionInv, FirstInv, AnnouncedFirst
<1> QED
  BY <1>1, <1>2, <1>3, <1>4, <1>5, <1>6
  DEF Next, Poller, Bus, Broker, Session, Handler, vars, brokerVars, PutResult,
      NotifyParserListeners, NotifyCommandListeners, ConnectFails, SleepEnds,
      CommandsFail, BrokerDrop, ReceiveCommand

-----------------------------------------------------------------------------
(* Theorems.                                                               *)

\* The program starts with the invariant.
LEMMA BridgeInit == Init => BridgeInv
<1> SUFFICES ASSUME Init PROVE BridgeInv
  OBVIOUS
<1> USE BoundsAssumption
<1>1. TypeOK
  BY InitType
<1>2. AnnounceInv
  BY DEF Init, AnnounceInv, Gone, Connections
<1>3. BusInv
  BY DEF Init, BusInv, Ahead
<1>4. QueueInv /\ HandInv
  BY DEF Init, QueueInv, HandInv
<1>5. CopiesPerConnection
  BY DEF Init, CopiesPerConnection
<1>6. NoLostResult
  BY DEF Init, NoLostResult
<1>7. FirstInv /\ AnnouncedFirst
  BY DEF Init, FirstInv, AnnouncedFirst
<1> QED
  BY <1>1, <1>2, <1>3, <1>4, <1>5, <1>6, <1>7 DEF BridgeInv, OrderInv

\* Every step keeps it.
LEMMA BridgeStep == BridgeInv /\ [Next]_vars => BridgeInv'
<1> SUFFICES ASSUME BridgeInv, [Next]_vars PROVE BridgeInv'
  OBVIOUS
<1>1. TypeOK'
  BY TypeKeeps DEF BridgeInv
<1>2. AnnounceInv' /\ OrderInv' /\ CopiesPerConnection'
  BY AnnounceKeeps, OrderKeeps, CopiesKeep DEF BridgeInv
<1>3. NoLostResult'
  BY <1>1, ResultsKeep DEF BridgeInv
<1>4. FirstInv' /\ AnnouncedFirst'
  BY <1>1, FirstKeeps DEF BridgeInv, FirstConnectionInv
<1> QED
  BY <1>1, <1>2, <1>3, <1>4 DEF BridgeInv

\* The invariant holds throughout: whatever happens to the broker and to the
\* connections, results stay in order and devices are announced by one handler.
THEOREM BridgeInvariance == Spec => []BridgeInv
BY BridgeInit, BridgeStep, PTL DEF Spec

\* Type correctness of the bus and of MQTTClient.
THEOREM BridgeTypeCorrect == Spec => []TypeOK
<1>1. BridgeInv => TypeOK
  BY DEF BridgeInv
<1> QED
  BY <1>1, BridgeInvariance, PTL

\* A poll result is published as many times as there were connections at most:
\* the listeners that run() adds at each connection are all that adds up.
THEOREM CopiesAreBounded == Spec => []CopiesPerConnection
<1>1. BridgeInv => CopiesPerConnection
  BY DEF BridgeInv
<1> QED
  BY <1>1, BridgeInvariance, PTL

\* As long as a connection lasts, each poll result that the bus handed to it is
\* in its queue, in its handler's hands, or on the state topics.
THEOREM NoResultIsLost == Spec => []NoLostResult
<1>1. BridgeInv => NoLostResult
  BY DEF BridgeInv
<1> QED
  BY <1>1, BridgeInvariance, PTL

\* On the first connection the discovery entries of a device are all published
\* before its first state topic.
THEOREM AnnouncedBeforeShown == Spec => []AnnouncedFirst
<1>1. BridgeInv => AnnouncedFirst
  BY DEF BridgeInv
<1> QED
  BY <1>1, BridgeInvariance, PTL

\* No state topic ever goes back to an older poll result, whatever handlers and
\* queues of earlier connections are left.
THEOREM NeverBackwards == Spec => NeverGoesBack
<1>1. ASSUME BridgeInv, [Next]_vars
      PROVE  [\A d \in Devices, t \in 1..Topics : shown'[d][t] >= shown[d][t]]_vars
  BY <1>1, ShownEffect DEF BridgeInv
<1> QED
  BY <1>1, BridgeInvariance, PTL DEF Spec, NeverGoesBack

-----------------------------------------------------------------------------
(* A session has a handler.                                                *)

\* It is the handler of the latest connection.
SessionInv == SessionHasHandler /\ (run = "connected" => connections # 0)

\* A handler that goes on is not gone.
LEMMA HandlerGoesOn ==
    ASSUME TypeOK, NEW k \in Connections,
           TakeMessage(k) \/ PublishConfig(k) \/ PublishState(k)
    PROVE  /\ handler'[k] # Gone
           /\ \A j \in Connections \ {k} : handler'[j] = handler[j]
           /\ UNCHANGED <<run, connections>>
<1>1. handler \in [Connections -> Handlers]
  BY DEF TypeOK
<1>2. CASE TakeMessage(k)
  <2>1. PICK at : /\ at \in {"init", "publish"}
                  /\ handler' = [handler EXCEPT ![k] =
                                    [at |-> at, msg |-> Head(queue[k]), sent |-> 0]]
    BY <1>2 DEF TakeMessage
  <2> QED
    BY <1>1, <1>2, <2>1 DEF TakeMessage, Gone
<1>3. CASE PublishConfig(k)
  <2>1. handler[k] \in [at : {"init"}, msg : Results, sent : 0..Configs]
    BY <1>3, HandlerType DEF PublishConfig
  <2>2. handler'[k].at \in {"init", "publish"}
    BY <1>1, <1>3, <2>1 DEF PublishConfig
  <2> QED
    BY <1>1, <1>3, <2>2 DEF PublishConfig, Gone
<1>4. CASE PublishState(k)
  <2>1. handler[k] \in [at : {"publish"}, msg : Results, sent : 0..Topics]
    BY <1>4, HandlerType DEF PublishState
  <2>2. handler'[k].at \in {"get", "publish"}
    BY <1>1, <1>4, <2>1 DEF PublishState, Idle
  <2> QED
    BY <1>1, <1>4, <2>2 DEF PublishState, Gone
<1> QED
  BY <1>2, <1>3, <1>4

\* Every step keeps it.
LEMMA SessionKeeps == TypeOK /\ SessionInv /\ [Next]_vars => SessionInv'
<1> SUFFICES ASSUME TypeOK, SessionInv, [Next]_vars PROVE SessionInv'
  OBVIOUS
<1> USE DEF SessionInv, SessionHasHandler
<1>1. CASE Connect
  <2>1. connections' \in Connections /\ connections' # 0
    BY <1>1, BoundsAssumption DEF Connect, TypeOK, Connections
  <2>2. handler'[connections'] = Idle
    BY <1>1, <2>1 DEF Connect, TypeOK
  <2> QED
    BY <2>1, <2>2 DEF Idle, Gone
<1>2. CASE run' # "connected"
  BY <1>2
<1>3. ASSUME NEW k \in Connections, TakeMessage(k) \/ PublishConfig(k) \/ PublishState(k)
      PROVE  SessionInv'
  <2>1. /\ handler'[k] # Gone
        /\ \A j \in Connections \ {k} : handler'[j] = handler[j]
        /\ UNCHANGED <<run, connections>>
    BY <1>3, HandlerGoesOn
  <2>2. connections # 0 => connections \in Connections
    BY BoundsAssumption DEF TypeOK, Connections
  <2> QED
    BY <2>1, <2>2
<1>4. ASSUME NEW k \in Connections, PublishFails(k), run' = "connected"
      PROVE  SessionInv'
  <2>1. run = "connected" /\ k # connections /\ UNCHANGED connections
    BY <1>4 DEF PublishFails
  <2>2. handler'[connections] = handler[connections]
    BY <1>4, <2>1 DEF PublishFails, TypeOK
  <2> QED
    BY <2>1, <2>2
<1>5. CASE UNCHANGED <<run, connections, handler>>
  BY <1>5
<1>6. Bus \/ Poller \/ Broker => UNCHANGED <<run, connections, handler>> \/ run' # "connected"
  BY DEF Bus, NotifyParserListeners, NotifyCommandListeners, Shutdown, Poller, PutResult,
         Broker, BrokerDrop, ReceiveCommand
<1>7. Session => Connect \/ run' # "connected"
  BY DEF Session, ConnectFails, SleepEnds, CommandsFail
<1>8. UNCHANGED vars => UNCHANGED <<run, connections, handler>>
  BY DEF vars
<1> QED
  BY <1>1, <1>2, <1>3, <1>4, <1>5, <1>6, <1>7, <1>8 DEF Next, Handler

\* A handler that ends ends the session: run() is never connected without one.
THEOREM SessionsHaveHandlers == Spec => []SessionHasHandler
<1>1. Init => SessionInv
  BY DEF Init, SessionInv, SessionHasHandler
<1>2. SessionInv => SessionHasHandler
  BY DEF SessionInv
<1> QED
  BY <1>1, <1>2, SessionKeeps, BridgeTypeCorrect, PTL DEF Spec
=============================================================================
