------------------------ MODULE DeviceHandlerProofs ------------------------
(***************************************************************************)
(* Theorems about DeviceHandler, whatever the station, the faults and the  *)
(* signals: types, the link is closed when the program ends by a single    *)
(* shutdown, a shutdown is final, and a topic of an EP2000 shows what was  *)
(* read from its registers.                                                *)
(***************************************************************************)
EXTENDS DeviceHandler, DeviceMapsProofs

\* What client and server know of each other, as long as nothing but shutdowns
\* ends the client.
LinkInv ==
    /\ server = "stopped" => client = "ended"
    /\ ~crashed /\ shutdowns = 0 => client = "running"
    /\ ~crashed /\ shutdowns = 1 /\ client = "ended" => ~connected

DeviceInv == TypeOK /\ LinkInv

-----------------------------------------------------------------------------
(* What the stations are asked.                                            *)

\* A read is a record of numbers.
LEMMA ReadType ==
    ASSUME NEW first \in Nat, NEW quantity \in Nat, NEW slave \in Nat
    PROVE  Read(first, quantity) \in Reads /\ ReadSlave(slave, first, quantity) \in Reads
BY DEF Read, ReadSlave, Reads

\* The lists of reads are sequences and not empty.
LEMMA ReadLists ==
    /\ ClassicReads \in Seq(Reads) /\ ClassicReads # <<>>
    /\ PackReads \in Seq(Reads) /\ PackReads # <<>>
    /\ EB3AReads \in Seq(Reads) /\ EB3AReads # <<>>
    /\ AC60Reads \in Seq(Reads) /\ AC60Reads # <<>>
    /\ EP600Reads \in Seq(Reads) /\ EP600Reads # <<>>
    /\ EP2000Reads \in Seq(Reads) /\ EP2000Reads # <<>>
<1>1. ClassicReads \in Seq(Reads) /\ ClassicReads # <<>>
  BY ReadType DEF ClassicReads
<1>2. PackReads \in Seq(Reads) /\ PackReads # <<>>
  BY ReadType DEF PackReads
<1>3. EB3AReads \in Seq(Reads) /\ EB3AReads # <<>>
  BY ReadType DEF EB3AReads
<1>4. AC60Reads \in Seq(Reads) /\ AC60Reads # <<>>
  BY ReadType DEF AC60Reads
<1>5. EP600Reads \in Seq(Reads) /\ EP600Reads # <<>>
  BY ReadType DEF EP600Reads
<1>6. EP2000Reads \in Seq(Reads) /\ EP2000Reads # <<>>
  BY ReadType DEF EP2000Reads
<1> QED
  BY <1>1, <1>2, <1>3, <1>4, <1>5, <1>6

\* What a poller may rely on.
GoodStation(s) ==
    /\ s.polling \in Seq(Reads) /\ s.polling # <<>>
    /\ s.packs \in Seq(Reads)

\* A station made of two lists of reads is good.
LEMMA StationIsGood ==
    ASSUME NEW fields, NEW calculated, NEW polling \in Seq(Reads), polling # <<>>,
           NEW packs \in Seq(Reads), NEW pack_num_max, NEW writable
    PROVE  GoodStation(Station(fields, calculated, polling, packs, pack_num_max, writable))
BY DEF GoodStation, Station

\* Each station the program knows is.
LEMMA StationsAreGood == \A t \in DOMAIN Stations : GoodStation(Stations[t])
<1>0. <<>> \in Seq(Reads)
  OBVIOUS
<1>1. GoodStation(AC200M)
  BY <1>0, StationIsGood, ReadLists DEF AC200M
<1>2. GoodStation(AC300)
  BY <1>0, StationIsGood, ReadLists DEF AC300
<1>3. GoodStation(AC500)
  BY <1>0, StationIsGood, ReadLists DEF AC500
<1>4. GoodStation(EP500)
  BY <1>0, StationIsGood, ReadLists DEF EP500
<1>5. GoodStation(EP500P)
  BY <1>0, StationIsGood, ReadLists DEF EP500P
<1>6. GoodStation(EB3A)
  <2>1. EB3AReads \in Seq(Reads) /\ EB3AReads # <<>>
    BY ReadLists
  <2> QED
    BY <1>0, <2>1 DEF EB3A, GoodStation, Station
<1>7. GoodStation(AC60)
  BY <1>0, StationIsGood, ReadLists DEF AC60
<1>8. GoodStation(EP600)
  BY <1>0, StationIsGood, ReadLists DEF EP600
<1>9. GoodStation(EP2000)
  BY <1>0, StationIsGood, ReadLists DEF EP2000
<1> QED
  BY <1>1, <1>2, <1>3, <1>4, <1>5, <1>6, <1>7, <1>8, <1>9 DEF Stations

\* The lists of a station with a known name.
LEMMA CommandLists ==
    ASSUME Known
    PROVE  /\ \A p \in Pollers : Commands(p) \in Seq(Reads)
           /\ Commands("poll") # <<>>
<1>1. type \in DOMAIN Stations
  BY DEF Known, Prefixes, type, build_device, Stations
<1>2. GoodStation(Stations[type])
  BY <1>1, StationsAreGood
<1> QED
  BY <1>2 DEF GoodStation, Commands, Pollers

-----------------------------------------------------------------------------
(* Parts of the invariant.                                                 *)

\* The part of TypeOK about the pollers.
AtOK ==
    /\ at \in [Pollers -> [pc : {"wait", "read", "done", "ended"}, i : Nat]]
    /\ \A p \in Pollers : at[p].pc = "read" => Known /\ at[p].i \in DOMAIN Commands(p)

\* The part of TypeOK about what the broker has.
BrokerOK ==
    /\ devices \in BOOLEAN
    /\ announced \subseteq StationTopics /\ shown \in [StationTopics -> Nat]

\* The handler's part of TypeOK.
HandlerOK == handler \in {"running", "failed", "reported", "cancelled"}

\* TypeOK by its parts.
RestOK ==
    /\ device_name \in Prefixed /\ mode \in Modes
    /\ client \in {"running", "finally", "ended"}
    /\ state \in {"NOT_CONNECTED", "CONNECTED", "READY", "DISCONNECTING"}
    /\ connected \in BOOLEAN /\ crashed \in BOOLEAN
    /\ server \in {"running", "stopping", "stopped"}
    /\ requested \in Nat /\ shutdowns \in Nat
    /\ faults \in 0..MaxFaults /\ signals \in 0..MaxSignals

LEMMA TypeOKByParts ==
    /\ TypeOK <=> AtOK /\ BrokerOK /\ HandlerOK /\ RestOK
    /\ TypeOK' <=> AtOK' /\ BrokerOK' /\ HandlerOK' /\ RestOK'
BY DEF TypeOK, AtOK, BrokerOK, HandlerOK, RestOK

\* What the station's name decides stays as it is.
LEMMA NameDecides ==
    ASSUME UNCHANGED device_name
    PROVE  /\ StationTopics' = StationTopics /\ Known' = Known /\ type' = type
           /\ \A p \in Pollers : Commands(p)' = Commands(p)
BY DEF StationTopics, Known, type, Commands

\* A poller that is not in a read keeps the others' reads good.
LEMMA PollerMoves ==
    ASSUME AtOK, UNCHANGED device_name, NEW p \in Pollers,
           NEW place \in [pc : {"wait", "read", "done", "ended"}, i : Nat],
           at' = [at EXCEPT ![p] = place],
           place.pc = "read" => Known /\ place.i \in DOMAIN Commands(p)
    PROVE  AtOK'
<1>1. Known' = Known /\ \A q \in Pollers : Commands(q)' = Commands(q)
  BY NameDecides
<1>2. at' \in [Pollers -> [pc : {"wait", "read", "done", "ended"}, i : Nat]]
  BY DEF AtOK
<1>3. ASSUME NEW q \in Pollers, at'[q].pc = "read"
      PROVE  Known' /\ at'[q].i \in DOMAIN Commands(q)'
  <2>1. CASE q = p
    BY <1>1, <1>3, <2>1 DEF AtOK
  <2>2. CASE q # p
    BY <1>1, <1>3, <2>2 DEF AtOK
  <2> QED
    BY <2>1, <2>2
<1> QED
  BY <1>2, <1>3 DEF AtOK

\* Nothing about the pollers changes.
LEMMA PollersStay ==
    ASSUME AtOK, UNCHANGED <<device_name, at>>
    PROVE  AtOK'
BY NameDecides DEF AtOK

LEMMA BrokerStays ==
    ASSUME BrokerOK, UNCHANGED <<device_name, brokerVars>>
    PROVE  BrokerOK'
BY NameDecides DEF BrokerOK, brokerVars

\* A poller that raises stops, and the handler with it.
LEMMA RaiseKeeps ==
    ASSUME AtOK, HandlerOK, UNCHANGED device_name, NEW p \in Pollers, Raise(p)
    PROVE  AtOK' /\ HandlerOK'
<1>1. AtOK'
  BY PollerMoves DEF Raise, Cancelled
<1>2. HandlerOK'
  BY DEF Raise, HandlerFails, HandlerOK
<1> QED
  BY <1>1, <1>2

\* The read behind a read is one of the poller's, or the poller waits.
LEMMA NextCommandKeeps ==
    ASSUME AtOK, UNCHANGED device_name, NEW p \in Pollers, at[p].pc = "read", NextCommand(p)
    PROVE  AtOK'
<1>1. Known /\ at[p].i \in DOMAIN Commands(p)
  BY DEF AtOK
<1>2. Commands(p) \in Seq(Reads)
  BY <1>1, CommandLists
<1>3. CASE at[p].i < Len(Commands(p))
  <2>1. at' = [at EXCEPT ![p] = [pc |-> "read", i |-> at[p].i + 1]]
    BY <1>3 DEF NextCommand
  <2>2. at[p].i + 1 \in DOMAIN Commands(p)
    BY <1>1, <1>2, <1>3
  <2>3. [pc |-> "read", i |-> at[p].i + 1] \in [pc : {"wait", "read", "done", "ended"}, i : Nat]
    BY DEF AtOK
  <2> QED
    BY <1>1, <2>1, <2>2, <2>3, PollerMoves
<1>4. CASE ~(at[p].i < Len(Commands(p)))
  <2>1. at' = [at EXCEPT ![p] = Waiting]
    BY <1>4 DEF NextCommand
  <2> QED
    BY <2>1, PollerMoves DEF Waiting
<1> QED
  BY <1>3, <1>4

\* What is announced are topics of the station.
LEMMA AnnouncementsAreTopics ==
    ASSUME Known
    PROVE  Announcements \subseteq StationTopics
<1>1. CASE mode = "none"
  BY <1>1 DEF Announcements
<1>2. CASE mode # "none"
  <2>1. {n \in Stations[type].normal : n \in Advanced => mode = "advanced"} \subseteq StationTopics
    BY DEF StationTopics
  <2>2. {PackDetails[k] : k \in {j \in 1..Stations[type].pack_num_max :
             battery_pack_fields \cap Stations[type].names # {}}} \subseteq StationTopics
    BY DEF StationTopics
  <2>3. DOMAIN DC_INPUT_FIELDS \subseteq StationTopics
    BY DEF StationTopics
  <2> QED
    BY <1>2, <2>1, <2>2, <2>3 DEF Announcements
<1> QED
  BY <1>1, <1>2

\* A result announces and shows topics of the station only.
LEMMA PublishKeeps ==
    ASSUME BrokerOK, Known, UNCHANGED device_name,
           NEW results, NEW first \in Nat, Publish(results, first)
    PROVE  BrokerOK'
<1>1. StationTopics' = StationTopics
  BY NameDecides
<1>2. devices' \in BOOLEAN
  BY DEF Publish
<1>3. announced' \subseteq StationTopics
  BY AnnouncementsAreTopics DEF Publish, BrokerOK
<1>4. shown' \in [StationTopics -> Nat]
  <2>1. PICK topics : shown' = [t \in StationTopics |-> IF t \in topics THEN first ELSE shown[t]]
    BY DEF Publish
  <2>2. \A t \in StationTopics : shown[t] \in Nat
    BY DEF BrokerOK
  <2> QED
    BY <2>1, <2>2
<1> QED
  BY <1>1, <1>2, <1>3, <1>4 DEF BrokerOK

\* The registers of a read in progress.
LEMMA CurrentRead ==
    ASSUME AtOK, NEW p \in Pollers, at[p].pc = "read"
    PROVE  Known /\ Current(p).first \in Nat
<1>1. Known /\ at[p].i \in DOMAIN Commands(p)
  BY DEF AtOK
<1>2. Commands(p) \in Seq(Reads)
  BY <1>1, CommandLists
<1>3. Commands(p)[at[p].i] \in Reads
  BY <1>1, <1>2
<1> QED
  BY <1>1, <1>3 DEF Current, Reads

-----------------------------------------------------------------------------
(* The invariant.                                                          *)

\* The program begins with it.
LEMMA InitDeviceInv == Init => DeviceInv
<1> SUFFICES ASSUME Init PROVE DeviceInv
  OBVIOUS
<1>1. AtOK
  BY DEF Init, AtOK, Waiting
<1>2. BrokerOK
  BY DEF Init, BrokerOK
<1>3. HandlerOK /\ RestOK
  <2>1. faults \in 0..MaxFaults /\ signals \in 0..MaxSignals
    BY BoundsAssumption DEF Init
  <2>2. requested \in Nat /\ shutdowns \in Nat
    BY DEF Init
  <2> QED
    BY <2>1, <2>2, Zenon DEF Init, HandlerOK, RestOK
<1>4. LinkInv
  BY DEF Init, LinkInv
<1> QED
  BY <1>1, <1>2, <1>3, <1>4, TypeOKByParts DEF DeviceInv

\* A fault is counted.
LEMMA FaultCounts ==
    ASSUME faults \in 0..MaxFaults, Fault \/ UNCHANGED faults
    PROVE  faults' \in 0..MaxFaults
BY BoundsAssumption DEF Fault

\* No step of the pollers breaks it.
LEMMA PollStepKeeps ==
    ASSUME DeviceInv, server # "stopped", PollStep
    PROVE  DeviceInv'
<1> USE DEF DeviceInv
<1>0. AtOK /\ BrokerOK /\ HandlerOK /\ RestOK /\ LinkInv
  BY TypeOKByParts
<1>1. ASSUME NEW p \in Pollers, UnknownName(p)
      PROVE  DeviceInv'
  <2>1. AtOK' /\ HandlerOK'
    BY <1>0, <1>1, RaiseKeeps DEF UnknownName, optionVars
  <2>2. BrokerOK'
    BY <1>0, <1>1, BrokerStays DEF UnknownName, optionVars
  <2>3. RestOK' /\ LinkInv'
    BY <1>0, <1>1 DEF UnknownName, optionVars, linkVars, serverVars, RestOK, LinkInv
  <2> QED
    BY <2>1, <2>2, <2>3, TypeOKByParts
<1>2. ASSUME NEW p \in Pollers, ReadSucceeds(p)
      PROVE  DeviceInv'
  <2>1. AtOK'
    BY <1>0, <1>2, NextCommandKeeps DEF ReadSucceeds, optionVars
  <2>2. BrokerOK'
    BY <1>0, <1>2, CurrentRead, PublishKeeps DEF ReadSucceeds, optionVars
  <2>3. faults' \in 0..MaxFaults
    BY <1>0, <1>2, FaultCounts DEF ReadSucceeds, RestOK
  <2>4. HandlerOK' /\ RestOK' /\ LinkInv'
    BY <1>0, <1>2, <2>3
    DEF ReadSucceeds, optionVars, linkVars, serverVars, HandlerOK, RestOK, LinkInv
  <2> QED
    BY <2>1, <2>2, <2>4, TypeOKByParts
<1>3. ASSUME NEW p \in Pollers, ConversionFails(p)
      PROVE  DeviceInv'
  <2>1. AtOK' /\ HandlerOK'
    BY <1>0, <1>3, RaiseKeeps DEF ConversionFails, optionVars
  <2>2. BrokerOK'
    BY <1>0, <1>3, BrokerStays DEF ConversionFails, optionVars
  <2>3. faults' \in 0..MaxFaults
    BY <1>0, <1>3, FaultCounts DEF ConversionFails, RestOK
  <2>4. RestOK' /\ LinkInv'
    BY <1>0, <1>3, <2>3 DEF ConversionFails, optionVars, linkVars, serverVars, RestOK, LinkInv
  <2> QED
    BY <2>1, <2>2, <2>4, TypeOKByParts
<1>4. ASSUME NEW p \in Pollers, ReadRejected(p)
      PROVE  DeviceInv'
  <2>1. AtOK'
    BY <1>0, <1>4, NextCommandKeeps DEF ReadRejected, optionVars
  <2>2. BrokerOK'
    BY <1>0, <1>4, BrokerStays DEF ReadRejected, optionVars
  <2>3. faults' \in 0..MaxFaults
    BY <1>0, <1>4, FaultCounts DEF ReadRejected, RestOK
  <2>4. HandlerOK' /\ RestOK' /\ LinkInv'
    BY <1>0, <1>4, <2>3
    DEF ReadRejected, optionVars, linkVars, serverVars, HandlerOK, RestOK, LinkInv
  <2> QED
    BY <2>1, <2>2, <2>4, TypeOKByParts
<1>5. ASSUME NEW p \in Pollers, ConnectionFails(p)
      PROVE  DeviceInv'
  <2>1. AtOK' /\ HandlerOK'
    <3>1. CASE NextCommand(p) /\ UNCHANGED handler
      BY <1>0, <1>5, <3>1, NextCommandKeeps DEF ConnectionFails, optionVars, HandlerOK
    <3>2. CASE Raise(p)
      BY <1>0, <1>5, <3>2, RaiseKeeps DEF ConnectionFails, optionVars
    <3> QED
      BY <1>5, <3>1, <3>2 DEF ConnectionFails
  <2>2. BrokerOK'
    BY <1>0, <1>5, BrokerStays DEF ConnectionFails, optionVars
  <2>3. faults' \in 0..MaxFaults
    BY <1>0, <1>5, FaultCounts DEF ConnectionFails, RestOK
  <2>4. RestOK' /\ LinkInv'
    BY <1>0, <1>5, <2>3 DEF ConnectionFails, optionVars, serverVars, RestOK, LinkInv
  <2> QED
    BY <2>1, <2>2, <2>4, TypeOKByParts
<1>6. CASE StartPoll
  <2>1. AtOK'
    <3>1. 1 \in DOMAIN Commands("poll")
      BY <1>6, CommandLists DEF StartPoll, Pollers
    <3> QED
      BY <1>0, <1>6, <3>1, PollerMoves DEF StartPoll, optionVars, Pollers
  <2>2. BrokerOK'
    BY <1>0, <1>6, BrokerStays DEF StartPoll, optionVars
  <2>3. HandlerOK' /\ RestOK' /\ LinkInv'
    BY <1>0, <1>6 DEF StartPoll, optionVars, linkVars, serverVars, HandlerOK, RestOK, LinkInv
  <2> QED
    BY <2>1, <2>2, <2>3, TypeOKByParts
<1>7. CASE StartPackPoll
  <2>1. AtOK'
    <3>1. CASE Commands("packs") = <<>>
      <4>1. at' = [at EXCEPT !["packs"] = Finished]
        BY <1>7, <3>1 DEF StartPackPoll
      <4> QED
        BY <1>0, <1>7, <4>1, PollerMoves DEF StartPackPoll, optionVars, Pollers, Finished
    <3>2. CASE Commands("packs") # <<>>
      <4>1. 1 \in DOMAIN Commands("packs")
        BY <1>7, <3>2, CommandLists DEF StartPackPoll, Pollers
      <4>2. at' = [at EXCEPT !["packs"] = [pc |-> "read", i |-> 1]]
        BY <1>7, <3>2 DEF StartPackPoll
      <4> QED
        BY <1>0, <1>7, <4>1, <4>2, PollerMoves DEF StartPackPoll, optionVars, Pollers
    <3> QED
      BY <3>1, <3>2
  <2>2. BrokerOK'
    BY <1>0, <1>7, BrokerStays DEF StartPackPoll, optionVars
  <2>3. HandlerOK' /\ RestOK' /\ LinkInv'
    BY <1>0, <1>7 DEF StartPackPoll, optionVars, linkVars, serverVars, HandlerOK, RestOK, LinkInv
  <2> QED
    BY <2>1, <2>2, <2>3, TypeOKByParts
<1>8. CASE SwitchPack
  <2>1. AtOK' /\ HandlerOK'
    BY <1>0, <1>8, RaiseKeeps DEF SwitchPack, optionVars, Pollers
  <2>2. BrokerOK'
    BY <1>0, <1>8, BrokerStays DEF SwitchPack, optionVars
  <2>3. RestOK' /\ LinkInv'
    BY <1>0, <1>8 DEF SwitchPack, optionVars, linkVars, serverVars, RestOK, LinkInv
  <2> QED
    BY <2>1, <2>2, <2>3, TypeOKByParts
<1> QED
  BY <1>1, <1>2, <1>3, <1>4, <1>5, <1>6, <1>7, <1>8 DEF PollStep

\* No step of the client breaks it: it connects only while it runs, and
\* disconnects when it ends.
LEMMA ClientStepKeeps ==
    ASSUME DeviceInv, server # "stopped", ClientStep \/ LinkDrop \/ Crash
    PROVE  DeviceInv'
<1> USE DEF DeviceInv
<1>0. AtOK /\ BrokerOK /\ HandlerOK /\ RestOK /\ LinkInv
  BY TypeOKByParts
<1>1. CASE Connect
  <2>1. AtOK' /\ BrokerOK'
    BY <1>0, <1>1, PollersStay, BrokerStays DEF Connect, optionVars
  <2>2. HandlerOK' /\ RestOK' /\ LinkInv'
    BY <1>0, <1>1 DEF Connect, optionVars, serverVars, HandlerOK, RestOK, LinkInv
  <2> QED
    BY <2>1, <2>2, TypeOKByParts
<1>2. CASE StartListening
  <2>1. AtOK' /\ BrokerOK'
    BY <1>0, <1>2, PollersStay, BrokerStays DEF StartListening, optionVars
  <2>2. faults' \in 0..MaxFaults
    BY <1>0, <1>2, FaultCounts DEF StartListening, RestOK
  <2>3. HandlerOK' /\ RestOK' /\ LinkInv'
    BY <1>0, <1>2, <2>2 DEF StartListening, optionVars, serverVars, HandlerOK, RestOK, LinkInv
  <2> QED
    BY <2>1, <2>3, TypeOKByParts
<1>3. CASE Disconnect
  <2>1. AtOK' /\ BrokerOK'
    BY <1>0, <1>3, PollersStay, BrokerStays DEF Disconnect, optionVars
  <2>2. HandlerOK' /\ RestOK' /\ LinkInv'
    BY <1>0, <1>3 DEF Disconnect, optionVars, serverVars, HandlerOK, RestOK, LinkInv
  <2> QED
    BY <2>1, <2>2, TypeOKByParts
<1>4. CASE DisconnectAtEnd
  <2>1. AtOK' /\ BrokerOK'
    BY <1>0, <1>4, PollersStay, BrokerStays DEF DisconnectAtEnd, optionVars
  <2>2. HandlerOK' /\ RestOK' /\ LinkInv'
    BY <1>0, <1>4
    DEF DisconnectAtEnd, HandlerFails, optionVars, serverVars, HandlerOK, RestOK, LinkInv
  <2> QED
    BY <2>1, <2>2, TypeOKByParts
<1>5. CASE LinkDrop
  <2>1. AtOK' /\ BrokerOK'
    BY <1>0, <1>5, PollersStay, BrokerStays DEF LinkDrop, optionVars
  <2>2. faults' \in 0..MaxFaults
    BY <1>0, <1>5, FaultCounts DEF LinkDrop, RestOK
  <2>3. HandlerOK' /\ RestOK' /\ LinkInv'
    BY <1>0, <1>5, <2>2 DEF LinkDrop, optionVars, serverVars, HandlerOK, RestOK, LinkInv
  <2> QED
    BY <2>1, <2>3, TypeOKByParts
<1>6. CASE Crash
  <2>1. AtOK' /\ BrokerOK'
    BY <1>0, <1>6, PollersStay, BrokerStays DEF Crash, optionVars
  <2>2. faults' \in 0..MaxFaults
    BY <1>0, <1>6, FaultCounts DEF Crash, RestOK
  <2>3. HandlerOK' /\ RestOK' /\ LinkInv'
    BY <1>0, <1>6, <2>2 DEF Crash, optionVars, serverVars, HandlerOK, RestOK, LinkInv
  <2> QED
    BY <2>1, <2>3, TypeOKByParts
<1> QED
  BY <1>1, <1>2, <1>3, <1>4, <1>5, <1>6 DEF ClientStep

\* No step of the server or of the users breaks it.
LEMMA ServerStepKeeps ==
    ASSUME DeviceInv, server # "stopped",
           \/ ServerStep \/ Signal \/ OtherTaskFails
           \/ \E field \in NORMAL_DEVICE_FIELDS : ReceiveCommand(field)
    PROVE  DeviceInv'
<1> USE DEF DeviceInv
<1>0. AtOK /\ BrokerOK /\ HandlerOK /\ RestOK /\ LinkInv
  BY TypeOKByParts
<1>1. CASE UncaughtException
  <2>1. AtOK' /\ BrokerOK'
    BY <1>0, <1>1, PollersStay, BrokerStays DEF UncaughtException, optionVars
  <2>2. HandlerOK' /\ RestOK' /\ LinkInv'
    BY <1>0, <1>1 DEF UncaughtException, optionVars, linkVars, HandlerOK, RestOK, LinkInv
  <2> QED
    BY <2>1, <2>2, TypeOKByParts
<1>2. CASE CancelAll
  <2>1. AtOK'
    <3>1. \A p \in Pollers : at'[p] \in {Finished, Cancelled}
      BY <1>2 DEF CancelAll
    <3>2. at' \in [Pollers -> {Finished, Cancelled}]
      BY <1>2, <3>1 DEF CancelAll
    <3> QED
      BY <3>2 DEF AtOK, Finished, Cancelled
  <2>2. BrokerOK'
    BY <1>0, <1>2, BrokerStays DEF CancelAll, optionVars
  <2>3. HandlerOK' /\ RestOK'
    BY <1>0, <1>2 DEF CancelAll, optionVars, HandlerOK, RestOK
  <2>4. LinkInv'
    BY <1>0, <1>2 DEF CancelAll, LinkInv, RestOK
  <2> QED
    BY <2>1, <2>2, <2>3, <2>4, TypeOKByParts
<1>3. CASE StopLoop
  <2>1. AtOK' /\ BrokerOK'
    BY <1>0, <1>3, PollersStay, BrokerStays DEF StopLoop, optionVars
  <2>2. HandlerOK' /\ RestOK' /\ LinkInv'
    BY <1>0, <1>3 DEF StopLoop, optionVars, linkVars, HandlerOK, RestOK, LinkInv
  <2> QED
    BY <2>1, <2>2, TypeOKByParts
<1>4. CASE Signal
  <2>1. AtOK' /\ BrokerOK'
    BY <1>0, <1>4, PollersStay, BrokerStays DEF Signal, optionVars
  <2>2. HandlerOK' /\ RestOK' /\ LinkInv'
    BY <1>0, <1>4, BoundsAssumption DEF Signal, optionVars, linkVars, HandlerOK, RestOK, LinkInv
  <2> QED
    BY <2>1, <2>2, TypeOKByParts
<1>5. CASE OtherTaskFails
  <2>1. AtOK' /\ BrokerOK'
    BY <1>0, <1>5, PollersStay, BrokerStays DEF OtherTaskFails, optionVars
  <2>2. faults' \in 0..MaxFaults
    BY <1>0, <1>5, FaultCounts DEF OtherTaskFails, RestOK
  <2>3. HandlerOK' /\ RestOK' /\ LinkInv'
    BY <1>0, <1>5, <2>2 DEF OtherTaskFails, optionVars, linkVars, HandlerOK, RestOK, LinkInv
  <2> QED
    BY <2>1, <2>3, TypeOKByParts
<1>6. ASSUME NEW field \in NORMAL_DEVICE_FIELDS, ReceiveCommand(field)
      PROVE  DeviceInv'
  <2>1. AtOK' /\ BrokerOK'
    BY <1>0, <1>6, PollersStay, BrokerStays DEF ReceiveCommand, optionVars
  <2>2. requested' \in Nat /\ signals' \in 0..MaxSignals
    BY <1>0, <1>6, BoundsAssumption DEF ReceiveCommand, RestOK
  <2>3. HandlerOK' /\ RestOK' /\ LinkInv'
    BY <1>0, <1>6, <2>2 DEF ReceiveCommand, optionVars, linkVars, HandlerOK, RestOK, LinkInv
  <2> QED
    BY <2>1, <2>3, TypeOKByParts
<1> QED
  BY <1>1, <1>2, <1>3, <1>4, <1>5, <1>6 DEF ServerStep

\* Nor does a step that changes nothing.
LEMMA StutterKeeps ==
    ASSUME DeviceInv, UNCHANGED vars
    PROVE  DeviceInv'
<1>1. AtOK /\ BrokerOK /\ HandlerOK /\ RestOK /\ LinkInv
  BY TypeOKByParts DEF DeviceInv
<1>2. AtOK' /\ BrokerOK'
  BY <1>1, PollersStay, BrokerStays DEF vars, optionVars
<1>3. HandlerOK' /\ RestOK' /\ LinkInv'
  BY <1>1 DEF vars, optionVars, linkVars, serverVars, HandlerOK, RestOK, LinkInv
<1> QED
  BY <1>2, <1>3, TypeOKByParts DEF DeviceInv

-----------------------------------------------------------------------------
(* Theorems.                                                               *)

\* The invariant holds of every reachable state.
THEOREM DeviceInvariance == Spec => []DeviceInv
<1>1. DeviceInv /\ [Next]_vars => DeviceInv'
  BY PollStepKeeps, ClientStepKeeps, ServerStepKeeps, StutterKeeps DEF Next, Environment
<1> QED
  BY <1>1, InitDeviceInv, PTL DEF Spec

\* Type correctness: no poller leaves its list of reads, and no topic is
\* announced or shown that the station does not have.
THEOREM DeviceTypeCorrect == Spec => []TypeOK
<1>1. DeviceInv => TypeOK
  BY DEF DeviceInv
<1> QED
  BY <1>1, DeviceInvariance, PTL

\* The link to the station is closed when the loop stops by one shutdown.
THEOREM LinkIsClosed == Spec => []ClosedWhenStopped
<1>1. DeviceInv => ClosedWhenStopped
  BY DEF DeviceInv, LinkInv, ClosedWhenStopped
<1> QED
  BY <1>1, DeviceInvariance, PTL

-----------------------------------------------------------------------------
(* A shutdown is final.                                                    *)

\* Once a shutdown has begun, the pollers and run() have been cancelled.
EndInv ==
    server # "running" =>
        client # "running" /\ \A p \in Pollers : at[p] \in {Finished, Cancelled}

\* Cancelled pollers take no step, and a cancelled client does not connect.
LEMMA NothingGoesOn ==
    ASSUME TypeOK, EndInv, server # "running", [Next]_vars
    PROVE  UNCHANGED <<at, brokerVars>> /\ (connected' => connected)
<1>1. /\ client # "running"
      /\ \A p \in Pollers : at[p].pc \in {"done", "ended"}
  BY DEF EndInv, Finished, Cancelled
<1>2. ~PollStep
  BY <1>1 DEF PollStep, UnknownName, ReadSucceeds, ConversionFails, ReadRejected,
              ConnectionFails, StartPoll, StartPackPoll, SwitchPack, Pollers
<1>3. CASE ClientStep
  BY <1>1, <1>3 DEF ClientStep, Connect, StartListening, Disconnect, DisconnectAtEnd, brokerVars
<1>4. CASE ServerStep
  <2>1. CASE CancelAll
    <3>1. \A p \in Pollers : at'[p] = at[p]
      BY <2>1 DEF CancelAll, EndInv
    <3>2. at' = at
      BY <2>1, <3>1 DEF CancelAll, TypeOK
    <3> QED
      BY <2>1, <3>2 DEF CancelAll, brokerVars
  <2>2. CASE UncaughtException \/ StopLoop
    BY <2>2 DEF UncaughtException, StopLoop, linkVars
  <2> QED
    BY <1>4, <2>1, <2>2 DEF ServerStep
<1>5. CASE Environment
  BY <1>5 DEF Environment, LinkDrop, Crash, Signal, OtherTaskFails, ReceiveCommand, linkVars,
              brokerVars
<1>6. CASE UNCHANGED vars
  BY <1>6 DEF vars, linkVars, brokerVars
<1> QED
  BY <1>2, <1>3, <1>4, <1>5, <1>6 DEF Next

\* Only a shutdown ends the server, and it cancels them all.
LEMMA EndKeeps == TypeOK /\ EndInv /\ [Next]_vars => EndInv'
<1> SUFFICES ASSUME TypeOK, EndInv, [Next]_vars PROVE EndInv'
  OBVIOUS
<1>1. CASE CancelAll
  <2>1. client' # "running"
    BY <1>1 DEF CancelAll
  <2>2. \A p \in Pollers : at'[p] \in {Finished, Cancelled}
    BY <1>1 DEF CancelAll
  <2> QED
    BY <2>1, <2>2 DEF EndInv
<1>2. CASE ~CancelAll /\ server = "running"
  <2>1. PollStep \/ ClientStep \/ Environment => server' = server
    BY DEF PollStep, UnknownName, ReadSucceeds, ConversionFails, ReadRejected, ConnectionFails,
           StartPoll, StartPackPoll, SwitchPack, ClientStep, Connect, StartListening,
           Disconnect, DisconnectAtEnd, Environment, LinkDrop, Crash, Signal, OtherTaskFails,
           ReceiveCommand, serverVars
  <2>2. UncaughtException \/ UNCHANGED vars => server' = server
    BY DEF UncaughtException, vars, serverVars
  <2>3. ~StopLoop
    BY <1>2 DEF StopLoop
  <2>4. server' = "running"
    BY <1>2, <2>1, <2>2, <2>3 DEF Next, ServerStep
  <2> QED
    BY <2>4 DEF EndInv
<1>3. CASE server # "running"
  <2>1. UNCHANGED at
    BY <1>3, NothingGoesOn
  <2>2. client # "running"
    BY <1>3 DEF EndInv
  <2>3. client' # "running"
    <3>1. PollStep \/ Environment => client' # "running"
      BY <2>2 DEF PollStep, UnknownName, ReadSucceeds, ConversionFails, ReadRejected,
             ConnectionFails, StartPoll, StartPackPoll, SwitchPack, Environment, LinkDrop,
             Crash, Signal, OtherTaskFails, ReceiveCommand, linkVars
    <3>2. ClientStep => client' # "running"
      BY <2>2 DEF ClientStep, Connect, StartListening, Disconnect, DisconnectAtEnd
    <3>3. ServerStep => client' # "running"
      BY <2>2 DEF ServerStep, UncaughtException, CancelAll, StopLoop, linkVars
    <3>4. UNCHANGED vars => client' # "running"
      BY <2>2 DEF vars, linkVars
    <3> QED
      BY <3>1, <3>2, <3>3, <3>4 DEF Next
  <2> QED
    BY <1>3, <2>1, <2>3 DEF EndInv
<1> QED
  BY <1>1, <1>2, <1>3

\* After the first shutdown() nothing is read, published or connected to,
\* whatever signals and exceptions follow.
THEOREM ShutdownsAreFinal == Spec => ShutdownIsFinal
<1>1. Init => EndInv
  BY DEF Init, EndInv
<1>2. TypeOK /\ EndInv /\ [Next]_vars =>
          [server # "running" => UNCHANGED <<at, brokerVars>> /\ (connected' => connected)]_vars
  BY NothingGoesOn
<1> QED
  BY <1>1, <1>2, EndKeeps, DeviceTypeCorrect, PTL DEF Spec, ShutdownIsFinal

-----------------------------------------------------------------------------
(* What an EP2000 shows.                                                   *)

\* The EP2000 as a station.
LEMMA EP2000Station ==
    ASSUME type = "EP2000"
    PROVE  /\ Stations[type] = EP2000 /\ Stations.EP2000 = EP2000
           /\ EP2000.polling = EP2000Reads /\ EP2000.packs = <<>>
           /\ EP2000.pack_num_max = 1 /\ EP2000.normal \subseteq NORMAL_DEVICE_FIELDS
           /\ Known /\ EP2000.normal \subseteq StationTopics
<1>1. Stations[type] = EP2000 /\ Stations.EP2000 = EP2000
  BY DEF Stations
<1>2. /\ EP2000.polling = EP2000Reads /\ EP2000.packs = <<>>
      /\ EP2000.pack_num_max = 1 /\ EP2000.normal \subseteq NORMAL_DEVICE_FIELDS
  BY DEF EP2000, Station
<1>3. Known
  BY DEF Known, Prefixes, type, build_device, Stations
<1> QED
  BY <1>1, <1>2, <1>3 DEF StationTopics

\* The topics of packs and DC inputs are not those of the fields.
LEMMA TopicsDiffer ==
    /\ DOMAIN DC_INPUT_FIELDS \cap NORMAL_DEVICE_FIELDS = {}
    /\ PackDetails[1] \notin NORMAL_DEVICE_FIELDS
<1>1. /\ DOMAIN DC_INPUT_FIELDS = {"dc_input_voltage1", "dc_input_power1", "dc_input_current1"}
      /\ PackDetails[1] = "pack_details1"
  BY DEF DC_INPUT_FIELDS, PackDetails
<1>2. \A name \in NORMAL_DEVICE_FIELDS :
          name \notin {"dc_input_voltage1", "dc_input_power1", "dc_input_current1",
                       "pack_details1"}
  BY SMTT(60) DEF NORMAL_DEVICE_FIELDS, InputFields, InputAndGridFields, GridAndOutputFields,
     ConsumptionFields, TotalFields, LimitFields, PowerFields, InternalFields,
     SplitPhaseFields, SumFields, Settable, EP2000ControlFields, ControlFields
<1> QED
  BY <1>1, <1>2

\* A result of the EP2000 is shown by topics whose registers were read.
LEMMA ShownLiesInRead ==
    ASSUME type = "EP2000", NEW i \in DOMAIN EP2000Reads, NEW skipped,
           NEW topics \in {TopicsOf(parse(type, EP2000Reads[i], skipped), pack) :
                               pack \in 1..EP2000.pack_num_max},
           NEW t \in (EP2000.normal \ Sums) \cap topics
    PROVE  <<t, EP2000Reads[i].first>> \in Sources
<1> DEFINE read == EP2000Reads[i]
           parsed == parse(type, read, skipped)
<1>1. PICK pack \in 1..EP2000.pack_num_max : topics = TopicsOf(parsed, pack)
  OBVIOUS
<1>2. pack = 1
  BY EP2000Station
<1>3. t \in NORMAL_DEVICE_FIELDS
  BY EP2000Station
<1>4. t \in parsed
  <2>1. t \notin DOMAIN DC_INPUT_FIELDS /\ t # PackDetails[pack]
    BY <1>2, <1>3, TopicsDiffer
  <2> HIDE DEF parsed
  <2> QED
    BY <1>1, <2>1 DEF TopicsOf
<1>5. read \in Reads
  BY ReadLists
<1>6. get_field_registers(t) \subseteq Registers(read.first, read.quantity)
  BY <1>4, <1>5, ParsedLiesInRead
<1>7. <<t, read.first>> \in Stations.EP2000.normal
          \X {EP2000Reads[x].first : x \in DOMAIN EP2000Reads}
  BY EP2000Station
<1> DEFINE shows == <<t, read.first>>
<1>8. shows[1] = t /\ shows[2] = read.first
  OBVIOUS
<1>9. \E x \in DOMAIN EP2000Reads :
          /\ EP2000Reads[x].first = shows[2]
          /\ get_field_registers(shows[1])
                 \subseteq Registers(shows[2], EP2000Reads[x].quantity)
  BY <1>6, <1>8
<1> HIDE DEF shows
<1>10. shows \in Sources
  BY <1>7, <1>9 DEF Sources, shows
<1> QED
  BY <1>10 DEF shows

\* Publishing one of the results of a read keeps the attributes true.
LEMMA PublishTruly ==
    ASSUME TypeOK, AttributesAreTrue, UNCHANGED device_name,
           NEW i \in DOMAIN EP2000Reads, NEW kinds,
           type = "EP2000" =>
               Publish({parse(type, EP2000Reads[i], skipped) : skipped \in kinds},
                       EP2000Reads[i].first)
    PROVE  AttributesAreTrue'
<1> SUFFICES ASSUME type = "EP2000", NEW t \in Stations.EP2000.normal \ Sums, shown'[t] # 0
             PROVE  <<t, shown'[t]>> \in Sources
  BY NameDecides DEF AttributesAreTrue, FromItsRegisters, Sources
<1>1. PICK topics \in {TopicsOf(parsed, pack) :
                 parsed \in {parse(type, EP2000Reads[i], skipped) : skipped \in kinds},
                 pack \in 1..Stations[type].pack_num_max} :
          shown' = [x \in StationTopics |->
                       IF x \in topics THEN EP2000Reads[i].first ELSE shown[x]]
  BY DEF Publish
<1>2. PICK skipped \in kinds :
          topics \in {TopicsOf(parse(type, EP2000Reads[i], skipped), pack) :
                          pack \in 1..EP2000.pack_num_max}
  BY <1>1, EP2000Station
<1>3. t \in StationTopics /\ t \in EP2000.normal \ Sums
  BY EP2000Station
<1>4. CASE t \in topics
  <2>1. shown'[t] = EP2000Reads[i].first
    BY <1>1, <1>3, <1>4
  <2>2. <<t, EP2000Reads[i].first>> \in Sources
    BY <1>2, <1>3, <1>4, ShownLiesInRead
  <2> QED
    BY <2>1, <2>2
<1>5. CASE t \notin topics
  <2>1. shown'[t] = shown[t]
    BY <1>1, <1>3, <1>5
  <2> QED
    BY <2>1 DEF AttributesAreTrue, FromItsRegisters
<1> QED
  BY <1>4, <1>5

\* A read that succeeds keeps them true.
LEMMA ReadSucceedsTruly ==
    ASSUME TypeOK, AttributesAreTrue, NEW p \in Pollers, ReadSucceeds(p)
    PROVE  AttributesAreTrue'
<1>1. UNCHANGED device_name
  BY DEF ReadSucceeds, optionVars
<1>2. CASE type # "EP2000"
  BY <1>1, <1>2, NameDecides DEF AttributesAreTrue, FromItsRegisters
<1>3. CASE type = "EP2000"
  <2>1. at[p].i \in DOMAIN Commands(p)
    BY DEF TypeOK, ReadSucceeds
  <2>2. Commands(p) = EP2000Reads
    <3>1. Commands(p) = EP2000Reads \/ Commands(p) = <<>>
      BY <1>3, EP2000Station DEF Commands
    <3> QED
      BY <2>1, <3>1
  <2> DEFINE i == at[p].i
  <2>3. i \in DOMAIN EP2000Reads /\ Current(p) = EP2000Reads[i]
    BY <2>1, <2>2 DEF Current
  <2>4. CASE Publish({parse(type, Current(p), {})}, Current(p).first)
    <3>1. {parse(type, Current(p), {})}
            = {parse(type, EP2000Reads[i], skipped) : skipped \in {{}}}
      BY <2>3
    <3> QED
      BY <1>1, <2>3, <2>4, <3>1, PublishTruly
  <2>5. ASSUME NEW kinds,
               Publish({parse(type, Current(p), skipped) : skipped \in kinds}, Current(p).first)
        PROVE  AttributesAreTrue'
    BY <1>1, <2>3, <2>5, PublishTruly
  <2> QED
    BY <2>4, <2>5 DEF ReadSucceeds
<1> QED
  BY <1>2, <1>3

\* Nothing else changes what is shown.
LEMMA NextTruly == TypeOK /\ AttributesAreTrue /\ [Next]_vars => AttributesAreTrue'
<1> SUFFICES ASSUME TypeOK, AttributesAreTrue, [Next]_vars PROVE AttributesAreTrue'
  OBVIOUS
<1>1. ASSUME NEW p \in Pollers, ReadSucceeds(p) PROVE AttributesAreTrue'
  BY <1>1, ReadSucceedsTruly
<1>2. CASE UNCHANGED <<device_name, shown>>
  BY <1>2, NameDecides DEF AttributesAreTrue, FromItsRegisters, Sources
<1>3. PollStep => (\E p \in Pollers : ReadSucceeds(p)) \/ UNCHANGED <<device_name, shown>>
  BY DEF PollStep, UnknownName, ConversionFails, ReadRejected, ConnectionFails, StartPoll,
         StartPackPoll, SwitchPack, optionVars, brokerVars
<1>4. ClientStep => UNCHANGED <<device_name, shown>>
  BY DEF ClientStep, Connect, StartListening, Disconnect, DisconnectAtEnd, optionVars,
         brokerVars
<1>5. ServerStep => UNCHANGED <<device_name, shown>>
  BY DEF ServerStep, UncaughtException, CancelAll, StopLoop, optionVars, brokerVars
<1>6. Environment => UNCHANGED <<device_name, shown>>
  BY DEF Environment, LinkDrop, Crash, Signal, OtherTaskFails, ReceiveCommand, optionVars,
         brokerVars
<1>7. UNCHANGED vars => UNCHANGED <<device_name, shown>>
  BY DEF vars, optionVars, brokerVars
<1> QED
  BY <1>1, <1>2, <1>3, <1>4, <1>5, <1>6, <1>7 DEF Next

\* What a topic of an EP2000 shows comes from a read of the registers that its
\* attributes name, whatever reads fail and values are skipped.
THEOREM ShownIsTrue == Spec => []AttributesAreTrue
<1>1. Init => AttributesAreTrue
  <2> SUFFICES ASSUME Init, type = "EP2000", NEW t \in Stations.EP2000.normal
               PROVE  shown[t] = 0
    BY DEF AttributesAreTrue, FromItsRegisters
  <2> QED
    BY EP2000Station DEF Init
<1> QED
  BY <1>1, NextTruly, DeviceTypeCorrect, PTL DEF Spec
-----------------------------------------------------------------------------
(* The client lives as BluetoothClient does.                               *)

\* Between two sessions there is no link.
NoSession == state = "NOT_CONNECTED" => ~connected

\* Pollers end sessions, the client begins and closes them.
LEMMA PollStepLives ==
    ASSUME PollStep
    PROVE  Life!Fail \/ UNCHANGED Life!lifeVars
BY DEF PollStep, UnknownName, ReadSucceeds, ConversionFails, ReadRejected, ConnectionFails,
       StartPoll, StartPackPoll, SwitchPack, is_ready, linkVars, Life!Fail, Life!lifeVars

LEMMA ClientStepLives ==
    ASSUME NoSession, ClientStep
    PROVE  Life!Connect \/ Life!Listen \/ Life!Fail \/ Life!Disconnect \/ Life!Finish
<1>1. Connect => Life!Connect
  BY DEF Connect, NoSession, Life!Connect
<1>2. StartListening => Life!Listen \/ Life!Fail
  BY DEF StartListening, Life!Listen, Life!Fail
<1>3. Disconnect => Life!Disconnect
  BY DEF Disconnect, Life!Disconnect
<1>4. DisconnectAtEnd => Life!Finish
  BY DEF DisconnectAtEnd, Life!Finish
<1> QED
  BY <1>1, <1>2, <1>3, <1>4 DEF ClientStep

\* A shutdown ends the client, or interrupts its finally clause.
LEMMA ServerStepLives ==
    ASSUME TypeOK, ServerStep
    PROVE  Life!End \/ Life!Finish \/ UNCHANGED Life!lifeVars
<1>1. CASE CancelAll
  <2>1. client \in {"running", "finally", "ended"} /\ UNCHANGED <<state, connected>>
        /\ client' = IF client = "running" THEN "finally" ELSE "ended"
    BY <1>1 DEF CancelAll, TypeOK
  <2> QED
    BY <2>1 DEF Life!End, Life!Finish, Life!lifeVars
<1>2. CASE UncaughtException \/ StopLoop
  BY <1>2 DEF UncaughtException, StopLoop, linkVars, Life!lifeVars
<1> QED
  BY <1>1, <1>2 DEF ServerStep

LEMMA EnvironmentLives ==
    ASSUME Environment
    PROVE  Life!Drop \/ Life!End \/ UNCHANGED Life!lifeVars
BY DEF Environment, LinkDrop, Crash, Signal, OtherTaskFails, ReceiveCommand, linkVars,
       Life!Drop, Life!End, Life!lifeVars

\* Every step is one of the client's life or invisible, and so keeps NoSession.
LEMMA NextLives ==
    ASSUME TypeOK, NoSession, [Next]_vars
    PROVE  [Life!Next]_Life!lifeVars /\ NoSession'
<1>1. [Life!Next]_Life!lifeVars
  <2>1. UNCHANGED vars => UNCHANGED Life!lifeVars
    BY DEF vars, linkVars, Life!lifeVars
  <2> QED
    BY <2>1, PollStepLives, ClientStepLives, ServerStepLives, EnvironmentLives
       DEF Next, Life!Next
<1>2. [Life!Next]_Life!lifeVars => NoSession'
  BY DEF NoSession, Life!Next, Life!Connect, Life!Listen, Life!Fail, Life!Disconnect,
         Life!Drop, Life!End, Life!Finish, Life!lifeVars
<1> QED
  BY <1>1, <1>2

\* The client that the pollers and shutdowns are modelled with has the life of
\* the client that serves them.
THEOREM ClientLives == Spec => ImplementsLife
<1>1. Init => NoSession /\ Life!Init
  BY DEF Init, NoSession, Life!Init
<1>2. TypeOK /\ NoSession /\ [Next]_vars => [Life!Next]_Life!lifeVars /\ NoSession'
  BY NextLives
<1> QED
  BY <1>1, <1>2, DeviceTypeCorrect, PTL DEF Spec, ImplementsLife, Life!Spec
=============================================================================
