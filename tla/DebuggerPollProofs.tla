------------------------- MODULE DebuggerPollProofs -------------------------
(***************************************************************************)
(* Theorems about DebuggerPoll: types, that a value is published as that   *)
(* of the page and the category the station showed when it was read, and   *)
(* that a poll reports each command of each page once, for every list of   *)
(* groups, every page count and every fault.                               *)
(***************************************************************************)
EXTENDS DebuggerPoll, FiniteSetTheorems, TLAPS

-----------------------------------------------------------------------------
(* The inductive invariant.                                                *)

GroupType ==
    [slave : Nat, commands : Nat \ {0}, selector : Selectors \cup {NoSelector},
     triggers : Seq(Selectors \X Values), trigger_reads : Nat]

\* The parts of TypeOK.
ModesOK ==
    disconnect_on_slave_change \in ReconnectModes /\ HAS_CRYPTO \in CryptoModes
LoopsOK ==
    /\ pc \in Awaits
    /\ group \in DOMAIN Groups
    /\ previous_slave_id \in Nat
    /\ total_pages \in Counts \cup {1}
    /\ page_idx \in Nat \ {0} /\ (page_idx = 1 \/ page_idx <= total_pages)
    /\ item \in Nat \ {0}
    /\ pages \in [DOMAIN Groups -> Counts \cup {0, 1}]
ClientsOK ==
    /\ client \in Clients
    /\ task \in [Clients -> {"none", "running", "cancelled", "crashed"}]
    /\ is_ready \in [Clients -> BOOLEAN]
StationOK == selected \in [Selectors -> Values] /\ doubted \subseteq Selectors
ReportType ==
    [group : DOMAIN Groups, page : Nat, command : Nat,
     outcome : {"value", "invalid", "undecodable"}, shown : SUBSET (Selectors \X Values)]
ReportsOK == reports \in Seq(ReportType)

LEMMA TypeOKByParts ==
    /\ TypeOK <=> ModesOK /\ LoopsOK /\ ClientsOK /\ StationOK /\ ReportsOK
    /\ TypeOK' <=> ModesOK' /\ LoopsOK' /\ ClientsOK' /\ StationOK' /\ ReportsOK'
BY DEF TypeOK, ModesOK, LoopsOK, ClientsOK, StationOK, ReportsOK, ReportType

\* Where triggers have been or are being written and registers are read.
Reading == {"trigger", "trigger_read", "read", "single", "plain"}

\* The loop over triggers starts at the first one and stays among them.
ItemInv ==
    /\ pc \in {"idle", "group", "validate", "connecting", "first_page", "count", "page", "read"}
           => item = 1
    /\ pc = "trigger" => item \in DOMAIN current.triggers

\* A group has several pages only if it has a selector for them.
SelectorInv ==
    /\ pc \in {"first_page", "count"} => current.selector # NoSelector
    /\ pc \in {"page"} \cup Reading /\ total_pages > 1 => current.selector # NoSelector
    /\ pc = "page" => total_pages > 1

\* A selector is at v, as far as one can know.
At(reg, v) == reg \in doubted \/ selected[reg] = v

\* When registers are read, the selectors are at their page and categories.
ShownInv ==
    /\ pc = "count" => At(current.selector, 1)
    /\ pc \in Reading /\ current.selector # NoSelector => At(current.selector, page_idx)
    /\ \A j \in DOMAIN current.triggers :
           pc \in Reading /\ (pc = "trigger" => j < item)
               => At(current.triggers[j][1], current.triggers[j][2])

PlaceInv == ItemInv /\ SelectorInv /\ ShownInv
PollInv == TypeOK /\ PlaceInv /\ ShowsWhatWasSelected

-----------------------------------------------------------------------------
(* Groups, pages and settings.                                             *)

\* The current group is one.
LEMMA CurrentGroup ==
    ASSUME LoopsOK
    PROVE  current \in GroupType
<1>1. Groups \in Seq(GroupType)
  BY GroupsAssumption DEF GroupType
<1> QED
  BY <1>1 DEF LoopsOK, current

\* Page numbers are values of the selectors.
LEMMA PageIsValue ==
    ASSUME LoopsOK
    PROVE  page_idx \in Values /\ 1 \in Values
<1>1. 1..total_pages \subseteq Values /\ 1..1 \subseteq Values
  BY PagesAssumption DEF LoopsOK
<1>2. total_pages \in Nat
  BY PagesAssumption DEF LoopsOK
<1> QED
  BY <1>1, <1>2 DEF LoopsOK

\* The settings of a group are selectors with values.
LEMMA SettingsType ==
    ASSUME LoopsOK
    PROVE  Settings(group, page_idx) \subseteq Selectors \X Values
<1>1. current \in GroupType
  BY CurrentGroup
<1>2. \A i \in DOMAIN current.triggers : current.triggers[i] \in Selectors \X Values
  BY <1>1 DEF GroupType
<1>3. current.selector # NoSelector => <<current.selector, page_idx>> \in Selectors \X Values
  BY <1>1, PageIsValue DEF GroupType
<1> QED
  BY <1>2, <1>3 DEF Settings, current

\* Behind a group comes the next one, or the poll is over.
LEMMA NextGroupPlace ==
    ASSUME LoopsOK, NextGroup
    PROVE  group' \in DOMAIN Groups /\ pc' \in {"group", "idle"}
<1>1. Groups \in Seq(GroupType) /\ Groups # <<>>
  BY GroupsAssumption DEF GroupType
<1>2. group \in 1..Len(Groups) /\ Len(Groups) >= 1
  BY <1>1 DEF LoopsOK
<1> QED
  BY <1>1, <1>2 DEF NextGroup

\* Where the triggers of a page lead.
LEMMA TriggersPlace ==
    /\ Triggers \in {"trigger", "trigger_read", "read"}
    /\ Triggers = "trigger" <=> current.triggers # <<>>
BY DEF Triggers, ReadGroup

\* A group begins its pages: none, several, or one without a switch.
LEMMA BeginPagesPlace ==
    ASSUME LoopsOK, NEW n \in Counts \cup {1}, BeginPages(n)
    PROVE  /\ group' \in DOMAIN Groups /\ pc' \in Awaits
           /\ total_pages' = n /\ page_idx' = 1
           /\ pages' \in [DOMAIN Groups -> Counts \cup {0, 1}]
           /\ \/ pc' \in {"group", "idle"}
              \/ group' = group /\ n > 1 /\ pc' = "page"
              \/ group' = group /\ n = 1 /\ pc' = Triggers
<1>1. n \in Nat
  BY PagesAssumption
<1>2. pages' \in [DOMAIN Groups -> Counts \cup {0, 1}]
  BY DEF LoopsOK, BeginPages
<1>3. CASE n = 0
  BY <1>2, <1>3, NextGroupPlace DEF BeginPages, Awaits
<1>4. CASE n # 0
  BY <1>1, <1>2, <1>4, TriggersPlace DEF BeginPages, StartPage, LoopsOK, Awaits
<1> QED
  BY <1>3, <1>4

\* A page is followed by the next one, to which the selector is set, or by the
\* next group.
LEMMA NextPagePlace ==
    ASSUME LoopsOK, NextPage
    PROVE  /\ group' \in DOMAIN Groups /\ pc' \in Awaits
           /\ page_idx' \in Nat \ {0} /\ (page_idx' = 1 \/ page_idx' <= total_pages)
           /\ \/ pc' \in {"group", "idle"}
              \/ group' = group /\ total_pages > 1 /\ pc' = "page"
<1>1. total_pages \in Nat
  BY PagesAssumption DEF LoopsOK
<1>2. CASE page_idx < total_pages
  BY <1>1, <1>2 DEF NextPage, StartPage, LoopsOK, Awaits
<1>3. CASE ~(page_idx < total_pages)
  BY <1>3, NextGroupPlace DEF NextPage, LoopsOK, Awaits
<1> QED
  BY <1>2, <1>3

-----------------------------------------------------------------------------
(* Places and the station.                                                 *)

\* Outside of a group's pages nothing is required.
LEMMA OutsidePages ==
    ASSUME pc' \in {"idle", "group", "validate", "connecting", "dead"}, item' = 1 \/ pc' = "dead"
    PROVE  PlaceInv'
BY DEF PlaceInv, ItemInv, SelectorInv, ShownInv, Reading

\* Before the switch to one of several pages nothing is at its setting.
LEMMA BeforeSwitch ==
    ASSUME pc' = "page", item' = 1, total_pages' > 1, current'.selector # NoSelector
    PROVE  PlaceInv'
BY DEF PlaceInv, ItemInv, SelectorInv, ShownInv, Reading

\* The page is selected, no trigger has been written.
LEMMA PageSelected ==
    ASSUME LoopsOK, group' = group, pc' = Triggers, item' = 1,
           total_pages' > 1 => current.selector # NoSelector,
           current.selector # NoSelector => At(current.selector, page_idx)'
    PROVE  PlaceInv'
<1>1. current' = current
  BY DEF current
<1>2. current.triggers \in Seq(Selectors \X Values)
  BY CurrentGroup DEF GroupType
<1>3. ItemInv'
  BY <1>1, <1>2, TriggersPlace DEF ItemInv
<1>4. SelectorInv'
  BY <1>1, TriggersPlace DEF SelectorInv
<1>5. ShownInv'
  <2>1. pc' # "count" /\ (pc' = "trigger" <=> current.triggers # <<>>)
    BY TriggersPlace
  <2>2. ASSUME NEW j \in DOMAIN current.triggers
        PROVE  ~(pc' = "trigger" => j < item')
    BY <1>2, <2>1, <2>2
  <2>3. current.selector # NoSelector => At(current.selector, page_idx)'
    OBVIOUS
  <2> QED
    BY <1>1, <2>1, <2>2, <2>3 DEF ShownInv, At
<1> QED
  BY <1>3, <1>4, <1>5 DEF PlaceInv

\* All settings have been made: reads leave them alone.
LEMMA SettingsStay ==
    ASSUME PlaceInv, pc \in {"trigger_read", "read", "single", "plain"},
           pc' \in {"trigger_read", "read", "single", "plain"}, pc' = "read" => item' = 1,
           UNCHANGED <<group, page_idx, total_pages, station>>
    PROVE  PlaceInv'
<1>1. current' = current
  BY DEF current
<1> QED
  BY <1>1 DEF PlaceInv, ItemInv, SelectorInv, ShownInv, At, Reading, station

\* Nothing changes at this place.
LEMMA PlaceStays ==
    ASSUME PlaceInv, UNCHANGED <<pc, loops, station>>
    PROVE  PlaceInv'
<1>1. current' = current
  BY DEF current, loops
<1> QED
  BY <1>1 DEF PlaceInv, ItemInv, SelectorInv, ShownInv, At, Reading, station, loops

\* A write sets its selector, as far as one can know, and no other.
LEMMA WriteSets ==
    ASSUME StationOK, NEW reg \in Selectors, NEW v \in Values,
           Written(reg, v) \/ WriteFails(reg, v)
    PROVE  /\ StationOK'
           /\ reg \in doubted' \/ selected'[reg] = v
           /\ \A other \in Selectors \ {reg} :
                  /\ other \in doubted => other \in doubted'
                  /\ selected'[other] = selected[other]
<1>1. CASE Written(reg, v)
  BY <1>1 DEF Written, StationOK
<1>2. CASE WriteFails(reg, v)
  BY <1>2 DEF WriteFails, StationOK
<1> QED
  BY <1>1, <1>2

-----------------------------------------------------------------------------
(* Reports.                                                                *)

\* What is reported while registers are read is true of the settings.
LEMMA ReportIsTrue ==
    ASSUME LoopsOK, StationOK, PlaceInv, pc \in {"read", "single", "plain"},
           NEW i \in Nat, NEW outcome \in {"value", "invalid", "undecodable"}
    PROVE  /\ Report(i, outcome) \in ReportType
           /\ Report(i, outcome).shown
                  \subseteq Settings(Report(i, outcome).group, Report(i, outcome).page)
<1>1. Settings(group, page_idx) \subseteq Selectors \X Values
  BY SettingsType
<1> DEFINE known == {t \in Settings(group, page_idx) : t[1] \notin doubted}
           shown == {<<s[1], selected[s[1]]>> : s \in known}
<1>2. \A s \in known : At(s[1], s[2])
  <2>1. current.selector # NoSelector => At(current.selector, page_idx)
    BY DEF PlaceInv, ShownInv, Reading
  <2>2. \A j \in DOMAIN current.triggers : At(current.triggers[j][1], current.triggers[j][2])
    BY DEF PlaceInv, ShownInv, Reading
  <2> QED
    BY <2>1, <2>2 DEF Settings, current
<1>3. ASSUME NEW s \in known
      PROVE  <<s[1], selected[s[1]]>> = s
  <2>1. s \in Selectors \X Values /\ s[1] \notin doubted
    BY <1>1
  <2>2. selected[s[1]] = s[2]
    BY <1>2, <2>1 DEF At
  <2> QED
    BY <2>1, <2>2
<1>4. shown \subseteq Settings(group, page_idx)
  BY <1>3
<1>5. shown \in SUBSET (Selectors \X Values)
  BY <1>1, <1>4
<1>6. Report(i, outcome) = [group |-> group, page |-> page_idx, command |-> i,
                            outcome |-> outcome, shown |-> shown]
  BY DEF Report
<1> HIDE DEF shown, known
<1> QED
  BY <1>4, <1>5, <1>6 DEF ReportType, LoopsOK

\* True reports are added to true ones.
LEMMA ReportsGrow ==
    ASSUME ReportsOK, ShowsWhatWasSelected, NEW more \in Seq(ReportType),
           \A k \in DOMAIN more : more[k].shown \subseteq Settings(more[k].group, more[k].page),
           reports' = reports \o more
    PROVE  ReportsOK' /\ ShowsWhatWasSelected'
<1>1. ReportsOK'
  BY DEF ReportsOK
<1>2. ASSUME NEW k \in DOMAIN reports', reports'[k].outcome = "value"
      PROVE  reports'[k].shown \subseteq Settings(reports'[k].group, reports'[k].page)
  <2>1. CASE k \in DOMAIN reports
    <3>1. reports'[k] = reports[k]
      BY <2>1 DEF ReportsOK
    <3> QED
      BY <1>2, <2>1, <3>1 DEF ShowsWhatWasSelected
  <2>2. CASE k \notin DOMAIN reports
    <3>1. k - Len(reports) \in DOMAIN more /\ reports'[k] = more[k - Len(reports)]
      BY <2>2 DEF ReportsOK
    <3> QED
      BY <3>1
  <2> QED
    BY <2>1, <2>2
<1> QED
  BY <1>1, <1>2 DEF ShowsWhatWasSelected, Settings

\* One more.
LEMMA ReportAppended ==
    ASSUME LoopsOK, StationOK, PlaceInv, pc \in {"read", "single", "plain"},
           ReportsOK, ShowsWhatWasSelected,
           NEW outcome \in {"value", "invalid", "undecodable"},
           reports' = Append(reports, Report(item, outcome))
    PROVE  ReportsOK' /\ ShowsWhatWasSelected'
<1> DEFINE r == Report(item, outcome)
<1>1. r \in ReportType /\ r.shown \subseteq Settings(r.group, r.page)
  BY ReportIsTrue DEF LoopsOK
<1> HIDE DEF r
<1>2. <<r>> \in Seq(ReportType) /\ \A k \in DOMAIN <<r>> : <<r>>[k] = r
  BY <1>1
<1>3. reports' = reports \o <<r>>
  BY <1>1 DEF ReportsOK, r
<1> QED
  BY <1>1, <1>2, <1>3, ReportsGrow

-----------------------------------------------------------------------------
(* Steps.                                                                  *)

\* The invariant in its parts.
PartsInv ==
    /\ ModesOK /\ LoopsOK /\ ClientsOK /\ StationOK /\ ReportsOK
    /\ PlaceInv /\ ShowsWhatWasSelected

LEMMA PollInvByParts == (PollInv <=> PartsInv) /\ (PollInv' <=> PartsInv')
BY TypeOKByParts DEF PollInv, PartsInv

\* What a step leaves alone stays right.
LEMMA Unchanged ==
    ASSUME PartsInv
    PROVE  /\ UNCHANGED modes => ModesOK'
           /\ UNCHANGED clients => ClientsOK'
           /\ UNCHANGED station => StationOK'
           /\ UNCHANGED reports => ReportsOK' /\ ShowsWhatWasSelected'
BY DEF PartsInv, modes, ModesOK, clients, ClientsOK, station, StationOK, ReportsOK,
       ShowsWhatWasSelected, Settings

\* A group is begun: with the discovery of its pages or with its only page.
LEMMA BeginGroupKeeps ==
    ASSUME PartsInv, item = 1, BeginGroup, UNCHANGED clients
    PROVE  PartsInv'
<1> USE DEF PartsInv
<1>1. current \in GroupType
  BY CurrentGroup
<1>2. ModesOK' /\ ClientsOK' /\ StationOK' /\ ReportsOK' /\ ShowsWhatWasSelected'
  BY Unchanged DEF BeginGroup
<1>3. CASE current.selector = NoSelector
  <2>1. BeginPages(1)
    BY <1>3 DEF BeginGroup
  <2>2. LoopsOK'
    BY <1>1, <2>1, BeginPagesPlace DEF BeginGroup, LoopsOK, GroupType
  <2>3. PlaceInv'
    <3>1. CASE pc' \in {"group", "idle"}
      BY <3>1, OutsidePages DEF BeginGroup
    <3>2. CASE group' = group /\ pc' = Triggers
      BY <1>3, <2>1, <3>2, BeginPagesPlace, PageSelected DEF BeginGroup
    <3> QED
      BY <2>1, <3>1, <3>2, BeginPagesPlace
  <2> QED
    BY <1>2, <2>2, <2>3
<1>4. CASE current.selector # NoSelector
  <2>1. LoopsOK'
    BY <1>1, <1>4 DEF BeginGroup, LoopsOK, GroupType, Awaits
  <2>2. PlaceInv'
    BY <1>4 DEF BeginGroup, PlaceInv, ItemInv, SelectorInv, ShownInv, Reading, current
  <2> QED
    BY <1>2, <2>1, <2>2
<1> QED
  BY <1>3, <1>4

\* The number of pages is known, or one is assumed, and the selector is at the
\* first page as far as one can know.
LEMMA CountedKeeps ==
    ASSUME PartsInv, item = 1, current.selector # NoSelector, ClientsOK', StationOK',
           NEW n \in Counts \cup {1}, BeginPages(n), UNCHANGED <<slave, item, reports>>,
           current.selector \in doubted' \/ selected'[current.selector] = 1
    PROVE  PartsInv'
<1> USE DEF PartsInv
<1>1. LoopsOK'
  BY BeginPagesPlace DEF LoopsOK, slave
<1>2. PlaceInv'
  <2>1. CASE pc' \in {"group", "idle"}
    BY <2>1, OutsidePages
  <2>2. CASE group' = group /\ n > 1 /\ pc' = "page"
    BY <2>2, BeginPagesPlace, BeforeSwitch DEF current
  <2>3. CASE group' = group /\ n = 1 /\ pc' = Triggers
    <3>1. page_idx' = 1 /\ total_pages' = 1
      BY <2>3, BeginPagesPlace
    <3>2. At(current.selector, page_idx)'
      BY <2>3, <3>1 DEF At, current
    <3> QED
      BY <2>3, <3>1, <3>2, PageSelected
  <2> QED
    BY <2>1, <2>2, <2>3, BeginPagesPlace
<1>3. ModesOK' /\ ReportsOK' /\ ShowsWhatWasSelected'
  BY Unchanged DEF slave
<1> QED
  BY <1>1, <1>2, <1>3

\* Behind the reads of a page comes the next page or the next group.
LEMMA NextPageKeeps ==
    ASSUME PartsInv, pc \in Reading, item' = 1, NextPage,
           UNCHANGED <<slave, total_pages, pages, clients, station>>,
           ReportsOK', ShowsWhatWasSelected'
    PROVE  PartsInv'
<1> USE DEF PartsInv
<1>1. LoopsOK'
  BY NextPagePlace DEF LoopsOK, slave
<1>2. PlaceInv'
  <2>1. CASE pc' \in {"group", "idle"}
    BY <2>1, OutsidePages
  <2>2. CASE group' = group /\ total_pages > 1 /\ pc' = "page"
    <3>1. current'.selector # NoSelector
      BY <2>2 DEF current, PlaceInv, SelectorInv
    <3> QED
      BY <2>2, <3>1, BeforeSwitch
  <2> QED
    BY <2>1, <2>2, NextPagePlace
<1>3. ModesOK' /\ ClientsOK' /\ StationOK'
  BY Unchanged DEF slave
<1> QED
  BY <1>1, <1>2, <1>3

\* Behind a command comes the next one of the group, or its next page.
LEMMA NextCommandKeeps ==
    ASSUME PartsInv, pc \in {"single", "plain"}, NextCommand,
           UNCHANGED <<slave, total_pages, pages, clients, station>>,
           ReportsOK', ShowsWhatWasSelected'
    PROVE  PartsInv'
<1>1. CASE item < current.commands
  <2>1. item' = item + 1 /\ pc' = "single" /\ UNCHANGED <<group, page_idx>>
    BY <1>1 DEF NextCommand
  <2>2. LoopsOK'
    BY <2>1 DEF PartsInv, LoopsOK, slave, Awaits
  <2>3. PlaceInv'
    BY <2>1, SettingsStay DEF PartsInv
  <2> QED
    BY <2>2, <2>3, Unchanged DEF PartsInv, slave
<1>2. CASE ~(item < current.commands)
  BY <1>2, NextPageKeeps DEF NextCommand, Reading
<1> QED
  BY <1>1, <1>2

\* The program goes from one place outside of the pages to another.
LEMMA OutsideKeeps ==
    ASSUME PartsInv, pc' \in {"idle", "group", "validate", "connecting", "dead"},
           item = 1 \/ pc' = "dead", UNCHANGED <<loops, slave, station, history>>, ClientsOK'
    PROVE  PartsInv'
<1> USE DEF PartsInv
<1>1. LoopsOK'
  BY DEF LoopsOK, loops, slave, history, Awaits
<1>2. PlaceInv'
  BY OutsidePages DEF loops
<1> QED
  BY <1>1, <1>2, Unchanged DEF slave, history

\* The program starts with the invariant.
LEMMA InitPollInv == Init => PollInv
<1> SUFFICES ASSUME Init PROVE PartsInv
  BY PollInvByParts
<1> USE DEF Init
<1>1. ModesOK
  BY DEF ModesOK
<1>2. LoopsOK
  <2>1. 1 \in DOMAIN Groups
    BY GroupsAssumption
  <2> QED
    BY <2>1 DEF LoopsOK, Awaits
<1>3. ClientsOK
  BY OtherAssumption DEF ClientsOK, Clients, main
<1>4. StationOK /\ ReportsOK
  BY DEF StationOK, ReportsOK
<1>5. PlaceInv
  BY DEF PlaceInv, ItemInv, SelectorInv, ShownInv, Reading
<1>6. ShowsWhatWasSelected
  BY DEF ShowsWhatWasSelected
<1> QED
  BY <1>1, <1>2, <1>3, <1>4, <1>5, <1>6 DEF PartsInv

\* No step between groups breaks it.
LEMMA GroupStepKeeps ==
    ASSUME PartsInv,
           \/ StartPoll \/ SameSlave \/ SwitchSlave \/ Validated
           \/ ReplaceClient \/ AwaitRaises \/ Reconnected
    PROVE  PartsInv'
<1> USE DEF PartsInv
<1>0. pc \in {"idle", "group", "validate", "connecting"} => item = 1
  BY DEF PlaceInv, ItemInv
<1>1. CASE StartPoll
  <2>1. LoopsOK'
    BY <1>1 DEF StartPoll, LoopsOK, loops, Awaits
  <2>2. ClientsOK'
    BY <1>1, OtherAssumption DEF StartPoll, ClientsOK, Clients, main
  <2>3. ReportsOK' /\ ShowsWhatWasSelected'
    BY <1>1 DEF StartPoll, ReportsOK, ShowsWhatWasSelected
  <2>4. PlaceInv'
    BY <1>0, <1>1, OutsidePages DEF StartPoll, loops
  <2>5. ModesOK' /\ StationOK'
    BY <1>1, Unchanged DEF StartPoll
  <2> QED
    BY <2>1, <2>2, <2>3, <2>4, <2>5
<1>2. CASE SameSlave
  BY <1>0, <1>2, BeginGroupKeeps DEF SameSlave
<1>3. CASE SwitchSlave
  BY <1>0, <1>3, Unchanged, OutsideKeeps DEF SwitchSlave
<1>4. CASE Validated
  BY <1>0, <1>4, BeginGroupKeeps DEF Validated
<1>5. CASE ReplaceClient
  <2>1. ClientsOK'
    <3>1. PICK new \in Clients :
              client' = new /\ task' = [task EXCEPT ![client] = "cancelled", ![new] = "running"]
      BY <1>5 DEF ReplaceClient
    <3> QED
      BY <1>5, <3>1 DEF ReplaceClient, ClientsOK
  <2> QED
    BY <1>0, <1>5, <2>1, OutsideKeeps DEF ReplaceClient
<1>6. CASE AwaitRaises
  BY <1>6, Unchanged, OutsideKeeps DEF AwaitRaises
<1>7. CASE Reconnected
  BY <1>0, <1>7, BeginGroupKeeps DEF Reconnected
<1> QED
  BY <1>1, <1>2, <1>3, <1>4, <1>5, <1>6, <1>7

\* No step of the discovery of pages breaks it.
LEMMA DiscoveryKeeps ==
    ASSUME PartsInv, FirstPage \/ Count
    PROVE  PartsInv'
<1> USE DEF PartsInv
<1>0. item = 1 /\ current.selector # NoSelector /\ current.selector \in Selectors /\ 1 \in Values
  BY CurrentGroup, PageIsValue
  DEF FirstPage, Count, PlaceInv, ItemInv, SelectorInv, GroupType
<1>1. CASE FirstPage
  <2>1. StationOK' /\ (current.selector \in doubted' \/ selected'[current.selector] = 1)
    BY <1>0, <1>1, WriteSets DEF FirstPage
  <2>2. ClientsOK'
    BY <1>1, Unchanged DEF FirstPage
  <2>3. CASE pc' = "count" /\ UNCHANGED <<group, total_pages, page_idx, pages>>
    <3>1. LoopsOK'
      BY <1>1, <2>3 DEF FirstPage, LoopsOK, slave, Awaits
    <3>2. PlaceInv'
      BY <1>0, <1>1, <2>1, <2>3
      DEF FirstPage, PlaceInv, ItemInv, SelectorInv, ShownInv, At, Reading, current
    <3> QED
      BY <1>1, <2>1, <2>2, <3>1, <3>2, Unchanged DEF FirstPage, slave
  <2>4. CASE BeginPages(1)
    BY <1>0, <1>1, <2>1, <2>2, <2>4, CountedKeeps DEF FirstPage
  <2> QED
    BY <1>1, <2>3, <2>4 DEF FirstPage
<1>2. CASE Count
  <2>1. current.selector \in doubted' \/ selected'[current.selector] = 1
    BY <1>2 DEF Count, PlaceInv, ShownInv, At, station
  <2>2. PICK n \in Counts \cup {1} : BeginPages(n)
    BY <1>2 DEF Count
  <2>3. ClientsOK' /\ StationOK'
    BY <1>2, Unchanged DEF Count
  <2> QED
    BY <1>0, <1>2, <2>1, <2>2, <2>3, CountedKeeps DEF Count
<1> QED
  BY <1>1, <1>2

\* Switching to a page selects it.
LEMMA SwitchPageKeeps ==
    ASSUME PartsInv, SwitchPage
    PROVE  PartsInv'
<1> USE DEF PartsInv
<1>1. /\ item = 1 /\ current.selector # NoSelector
      /\ current.selector \in Selectors /\ page_idx \in Values
  BY CurrentGroup, PageIsValue
  DEF SwitchPage, PlaceInv, ItemInv, SelectorInv, GroupType
<1>2. StationOK' /\ (current.selector \in doubted' \/ selected'[current.selector] = page_idx)
  BY <1>1, WriteSets DEF SwitchPage
<1>3. LoopsOK'
  BY TriggersPlace DEF SwitchPage, LoopsOK, loops, slave, history, Awaits
<1>4. PlaceInv'
  <2>1. current' = current /\ UNCHANGED page_idx
    BY DEF SwitchPage, loops, current
  <2>2. At(current.selector, page_idx)'
    BY <1>2, <2>1 DEF At
  <2> QED
    BY <1>1, <2>2, PageSelected DEF SwitchPage, loops
<1>5. ModesOK' /\ ClientsOK' /\ ReportsOK' /\ ShowsWhatWasSelected'
  BY Unchanged DEF SwitchPage, slave, history
<1> QED
  BY <1>2, <1>3, <1>4, <1>5

\* Writing a trigger sets its register and leaves the page and the triggers
\* before it alone.
LEMMA TriggerKeeps ==
    ASSUME PartsInv, Trigger
    PROVE  PartsInv'
<1> USE DEF PartsInv
<1> DEFINE t == current.triggers[item]
<1>1. current \in GroupType
  BY CurrentGroup
<1>2. /\ item \in DOMAIN current.triggers
      /\ current.triggers \in Seq(Selectors \X Values)
  BY <1>1 DEF Trigger, PlaceInv, ItemInv, GroupType
<1>3. t[1] \in Selectors /\ t[2] \in Values
  BY <1>2
<1>4. Written(t[1], t[2]) \/ WriteFails(t[1], t[2])
  BY DEF Trigger
<1>5. /\ StationOK'
      /\ t[1] \in doubted' \/ selected'[t[1]] = t[2]
      /\ \A other \in Selectors \ {t[1]} :
             /\ other \in doubted => other \in doubted'
             /\ selected'[other] = selected[other]
  BY <1>3, <1>4, WriteSets
<1>6. current' = current /\ UNCHANGED <<group, total_pages, page_idx>>
  BY DEF Trigger, current
<1>7. \/ item' = item + 1 /\ pc' = "trigger" /\ item < Len(current.triggers)
      \/ item' = 1 /\ pc' \in {"trigger_read", "read"} /\ item = Len(current.triggers)
  BY <1>2 DEF Trigger, ReadGroup
<1>8. LoopsOK'
  BY <1>6, <1>7 DEF Trigger, LoopsOK, slave, history, Awaits
<1>9. ItemInv' /\ SelectorInv'
  BY <1>2, <1>6, <1>7 DEF Trigger, PlaceInv, ItemInv, SelectorInv, Reading
<1>10. ShownInv'
  <2>1. /\ \A i, j \in DOMAIN current.triggers :
               current.triggers[i][1] = current.triggers[j][1] => i = j
        /\ \A i \in DOMAIN current.triggers : current.triggers[i][1] # current.selector
    BY TriggersAssumption DEF LoopsOK, current
  <2>2. ASSUME current.selector # NoSelector
        PROVE  At(current.selector, page_idx)'
    <3>1. current.selector \in Selectors \ {t[1]}
      BY <1>1, <1>2, <2>1, <2>2 DEF GroupType
    <3>2. At(current.selector, page_idx)
      BY <2>2 DEF Trigger, PlaceInv, ShownInv, Reading
    <3> QED
      BY <1>5, <1>6, <3>1, <3>2 DEF At
  <2>3. ASSUME NEW j \in DOMAIN current.triggers, pc' = "trigger" => j < item'
        PROVE  current.triggers[j][1] \in doubted'
               \/ selected'[current.triggers[j][1]] = current.triggers[j][2]
    <3>1. j <= item
      BY <1>2, <1>7, <2>3
    <3>2. CASE j = item
      BY <1>5, <3>2
    <3>3. CASE j # item
      <4>1. current.triggers[j][1] \in Selectors \ {t[1]}
        BY <1>2, <2>1, <3>3
      <4>2. At(current.triggers[j][1], current.triggers[j][2])
        <5>1. j < item
          BY <1>2, <3>1, <3>3
        <5> QED
          BY <5>1 DEF Trigger, PlaceInv, ShownInv, Reading
      <4> QED
        BY <1>5, <4>1, <4>2 DEF At
    <3> QED
      BY <3>2, <3>3
  <2> QED
    BY <1>6, <1>7, <2>2, <2>3 DEF ShownInv, At
<1>11. ModesOK' /\ ClientsOK' /\ ReportsOK' /\ ShowsWhatWasSelected'
  BY Unchanged DEF Trigger, slave, history
<1> QED
  BY <1>5, <1>8, <1>9, <1>10, <1>11 DEF PlaceInv

\* No read breaks it.
LEMMA ReadStepKeeps ==
    ASSUME PartsInv,
           TriggerRead \/ ReadSucceeds \/ FallBack \/ ReadRaises \/ SingleSucceeds \/ CommandFails
    PROVE  PartsInv'
<1> USE DEF PartsInv
<1>0. Processed \subseteq {"value", "invalid", "undecodable"}
  BY DEF Processed
<1>1. CASE TriggerRead
  <2>1. LoopsOK'
    BY <1>1 DEF TriggerRead, LoopsOK, slave, history, Awaits
  <2>2. PlaceInv'
    BY <1>1, SettingsStay DEF TriggerRead
  <2> QED
    BY <1>1, <2>1, <2>2, Unchanged DEF TriggerRead, slave, history
<1>2. CASE ReadSucceeds
  <2>1. PICK outcome \in [1..current.commands -> Processed] :
            reports' = reports \o [i \in 1..current.commands |-> Report(i, outcome[i])]
    BY <1>2 DEF ReadSucceeds
  <2> DEFINE more == [i \in 1..current.commands |-> Report(i, outcome[i])]
  <2>2. current.commands \in Nat
    BY CurrentGroup DEF GroupType
  <2>3. ASSUME NEW i \in 1..current.commands
        PROVE  /\ Report(i, outcome[i]) \in ReportType
               /\ Report(i, outcome[i]).shown
                      \subseteq Settings(Report(i, outcome[i]).group, Report(i, outcome[i]).page)
    <3>1. i \in Nat
      BY <2>2
    <3>2. outcome[i] \in {"value", "invalid", "undecodable"}
      BY <1>0
    <3>3. pc \in {"read", "single", "plain"}
      BY <1>2 DEF ReadSucceeds
    <3> QED
      BY <3>1, <3>2, <3>3, ReportIsTrue
  <2>4. more \in Seq(ReportType) /\ DOMAIN more = 1..current.commands
    BY <2>2, <2>3
  <2>5. \A k \in DOMAIN more : more[k].shown \subseteq Settings(more[k].group, more[k].page)
    BY <2>3, <2>4
  <2>6. reports' = reports \o more
    BY <2>1
  <2> HIDE DEF more
  <2>7. ReportsOK' /\ ShowsWhatWasSelected'
    BY <2>4, <2>5, <2>6, ReportsGrow
  <2>8. item' = 1
    BY <1>2 DEF ReadSucceeds, PlaceInv, ItemInv
  <2> QED
    BY <1>2, <2>7, <2>8, NextPageKeeps DEF ReadSucceeds, Reading
<1>3. CASE FallBack
  <2>1. LoopsOK'
    BY <1>3 DEF FallBack, LoopsOK, loops, slave, history, Awaits
  <2>2. PlaceInv'
    BY <1>3, SettingsStay DEF FallBack, loops
  <2> QED
    BY <1>3, <2>1, <2>2, Unchanged DEF FallBack, slave, history
<1>4. CASE ReadRaises
  BY <1>4, Unchanged, OutsideKeeps DEF ReadRaises
<1>5. CASE SingleSucceeds
  <2>1. PICK outcome \in Processed : reports' = Append(reports, Report(item, outcome))
    BY <1>5 DEF SingleSucceeds
  <2>2. ReportsOK' /\ ShowsWhatWasSelected'
    BY <1>0, <1>5, <2>1, ReportAppended DEF SingleSucceeds
  <2> QED
    BY <1>5, <2>2, NextCommandKeeps DEF SingleSucceeds
<1>6. CASE CommandFails
  <2>1. pc \in {"single", "plain"}
    BY <1>6 DEF CommandFails
  <2>2. ReportsOK' /\ ShowsWhatWasSelected'
    BY <1>6, <2>1, ReportAppended DEF CommandFails
  <2> QED
    BY <1>6, <2>1, <2>2, NextCommandKeeps DEF CommandFails
<1> QED
  BY <1>1, <1>2, <1>3, <1>4, <1>5, <1>6

\* Neither do the clients nor a step that changes nothing.
LEMMA ClientStepKeeps ==
    ASSUME PartsInv, ClientStep \/ UNCHANGED vars
    PROVE  PartsInv'
<1> USE DEF PartsInv
<1>1. UNCHANGED <<pc, loops, slave, station, history>>
  BY DEF ClientStep, vars, loops, slave, modes, station, history
<1>2. LoopsOK'
  BY <1>1 DEF LoopsOK, loops, slave, history
<1>3. PlaceInv'
  BY <1>1, PlaceStays
<1>4. ClientsOK'
  <2>1. CASE ClientStep
    BY <2>1 DEF ClientStep, Connect, Drop, Crash, ClientsOK
  <2>2. CASE UNCHANGED vars
    BY <2>2 DEF vars, ClientsOK
  <2> QED
    BY <2>1, <2>2
<1> QED
  BY <1>1, <1>2, <1>3, <1>4, Unchanged DEF slave, history

-----------------------------------------------------------------------------
(* Every command once.                                                     *)

InPages == {"page"} \cup Reading
OneByOne == {"single", "plain"}

\* The groups that are still to come have no pages yet, the current one has
\* them as soon as it is read.
PageInv ==
    /\ pc \in InPages => pages[group] = total_pages /\ total_pages >= 1
    /\ pc \in OneByOne => item <= current.commands
    /\ pc # "idle" =>
           \A g \in DOMAIN Groups : g > group \/ (g = group /\ pc \notin InPages) => pages[g] = 0

\* Command i has been dealt with on page p of group g.
Dealt(g, p, i) ==
    /\ p \in 1..pages[g] /\ i \in 1..Groups[g].commands
    /\ \/ pc = "idle"
       \/ g < group
       \/ /\ g = group /\ pc \in InPages
          /\ p < page_idx \/ (p = page_idx /\ pc \in OneByOne /\ i < item)

Key(r) == <<r.group, r.page, r.command>>

\* There is one report of each command that has been dealt with.
OnceInv ==
    /\ \A k \in DOMAIN reports : Dealt(reports[k].group, reports[k].page, reports[k].command)
    /\ \A j, k \in DOMAIN reports : Key(reports[j]) = Key(reports[k]) => j = k
    /\ \A g \in DOMAIN Groups, p \in Nat, i \in Nat :
           Dealt(g, p, i) => \E k \in DOMAIN reports : Key(reports[k]) = <<g, p, i>>

CountInv == pc # "dead" => PageInv /\ OnceInv

\* No report, nothing dealt with.
LEMMA OnceStays ==
    ASSUME ReportsOK, OnceInv, reports' = reports,
           \A g \in DOMAIN Groups, p \in Nat, i \in Nat : Dealt(g, p, i)' <=> Dealt(g, p, i)
    PROVE  OnceInv'
<1>1. \A k \in DOMAIN reports :
          /\ reports[k].group \in DOMAIN Groups
          /\ reports[k].page \in Nat /\ reports[k].command \in Nat
  <2>1. \A k \in DOMAIN reports : reports[k] \in ReportType
    BY DEF ReportsOK
  <2> QED
    BY <2>1 DEF ReportType
<1>2. \A k \in DOMAIN reports' :
          Dealt(reports[k].group, reports[k].page, reports[k].command)'
  BY <1>1 DEF OnceInv
<1>3. \A j, k \in DOMAIN reports' : Key(reports'[j]) = Key(reports'[k]) => j = k
  BY DEF OnceInv
<1>4. \A g \in DOMAIN Groups, p \in Nat, i \in Nat :
          Dealt(g, p, i)' => \E k \in DOMAIN reports' : Key(reports'[k]) = <<g, p, i>>
  BY DEF OnceInv
<1> QED
  BY <1>2, <1>3, <1>4 DEF OnceInv, Key

\* Some reports, each of a command that had not been dealt with.
LEMMA OnceAdded ==
    ASSUME ReportsOK, OnceInv, NEW more \in Seq(ReportType), reports' = reports \o more,
           \A g \in DOMAIN Groups, p \in Nat, i \in Nat :
               Dealt(g, p, i)' <=>
                   Dealt(g, p, i) \/ \E k \in DOMAIN more : Key(more[k]) = <<g, p, i>>,
           \A k \in DOMAIN more : ~Dealt(more[k].group, more[k].page, more[k].command),
           \A j, k \in DOMAIN more : Key(more[j]) = Key(more[k]) => j = k
    PROVE  OnceInv'
<1>1. /\ \A k \in DOMAIN reports : reports[k] \in ReportType /\ k \in Nat
      /\ \A k \in DOMAIN more : more[k] \in ReportType /\ k \in Nat
  BY DEF ReportsOK
<1>2. \A r \in ReportType : r.group \in DOMAIN Groups /\ r.page \in Nat /\ r.command \in Nat
  BY DEF ReportType
<1>3. /\ \A k \in DOMAIN reports : k \in DOMAIN reports' /\ reports'[k] = reports[k]
      /\ \A k \in DOMAIN more : Len(reports) + k \in DOMAIN reports' /\ reports'[Len(reports) + k] = more[k]
      /\ \A k \in DOMAIN reports' :
             k \in DOMAIN reports \/ \E j \in DOMAIN more : k = Len(reports) + j
  <2>1. /\ reports \in Seq(ReportType) /\ Len(reports) \in Nat /\ Len(more) \in Nat
        /\ DOMAIN reports = 1..Len(reports) /\ DOMAIN more = 1..Len(more)
        /\ DOMAIN reports' = 1..(Len(reports) + Len(more))
    BY DEF ReportsOK
  <2>2. \A k \in DOMAIN reports : k \in DOMAIN reports' /\ reports'[k] = reports[k]
    BY <2>1
  <2>3. ASSUME NEW k \in DOMAIN more
        PROVE  Len(reports) + k \in DOMAIN reports' /\ reports'[Len(reports) + k] = more[k]
    BY <2>1, <2>3
  <2>4. ASSUME NEW k \in DOMAIN reports', k \notin DOMAIN reports
        PROVE  \E j \in DOMAIN more : k = Len(reports) + j
    <3>1. k - Len(reports) \in DOMAIN more /\ k = Len(reports) + (k - Len(reports))
      BY <2>1, <2>4
    <3> QED
      BY <3>1
  <2> QED
    BY <2>2, <2>3, <2>4
<1>4. \A j \in DOMAIN reports, k \in DOMAIN more : Key(reports[j]) # Key(more[k])
  BY <1>1, <1>2 DEF OnceInv, Key
<1>5. ASSUME NEW k \in DOMAIN reports'
      PROVE  Dealt(reports[k].group, reports[k].page, reports[k].command)'
  <2>1. CASE k \in DOMAIN reports
    BY <1>1, <1>2, <1>3, <2>1 DEF OnceInv
  <2>2. ASSUME NEW j \in DOMAIN more, k = Len(reports) + j
        PROVE  Dealt(reports[k].group, reports[k].page, reports[k].command)'
    <3>1. more[j].group \in DOMAIN Groups /\ more[j].page \in Nat /\ more[j].command \in Nat
          /\ Key(more[j]) = <<more[j].group, more[j].page, more[j].command>>
      BY <1>1, <1>2 DEF Key
    <3>2. reports'[k] = more[j]
      BY <1>3, <2>2
    <3> QED
      BY <3>1, <3>2
  <2> QED
    BY <1>3, <2>1, <2>2
<1>6. ASSUME NEW j \in DOMAIN reports', NEW k \in DOMAIN reports', Key(reports'[j]) = Key(reports'[k])
      PROVE  j = k
  <2>1. CASE j \in DOMAIN reports /\ k \in DOMAIN reports
    BY <1>3, <1>6, <2>1 DEF OnceInv
  <2>2. CASE j \in DOMAIN reports /\ k \notin DOMAIN reports
    BY <1>3, <1>4, <1>6, <2>2
  <2>3. CASE j \notin DOMAIN reports /\ k \in DOMAIN reports
    BY <1>3, <1>4, <1>6, <2>3
  <2>4. CASE j \notin DOMAIN reports /\ k \notin DOMAIN reports
    <3>1. PICK a \in DOMAIN more : j = Len(reports) + a
      BY <1>3, <2>4
    <3>2. PICK b \in DOMAIN more : k = Len(reports) + b
      BY <1>3, <2>4
    <3>3. Key(more[a]) = Key(more[b])
      BY <1>3, <1>6, <3>1, <3>2
    <3> QED
      BY <3>1, <3>2, <3>3
  <2> QED
    BY <2>1, <2>2, <2>3, <2>4
<1>7. ASSUME NEW g \in DOMAIN Groups, NEW p \in Nat, NEW i \in Nat, Dealt(g, p, i)'
      PROVE  \E k \in DOMAIN reports' : Key(reports'[k]) = <<g, p, i>>
  <2>1. CASE Dealt(g, p, i)
    BY SMTT(30), <1>3, <2>1 DEF OnceInv
  <2>2. CASE \E k \in DOMAIN more : Key(more[k]) = <<g, p, i>>
    BY <1>3, <2>2
  <2> QED
    BY <1>7, <2>1, <2>2
<1> QED
  BY <1>5, <1>6, <1>7 DEF OnceInv, Key

\* Outside of the pages of a group nothing is dealt with, ...
LEMMA OutsideDealt ==
    ASSUME pc \notin InPages \cup {"idle"}, pc' \notin InPages \cup {"idle"},
           UNCHANGED <<group, pages>>
    PROVE  \A g \in DOMAIN Groups, p \in Nat, i \in Nat : Dealt(g, p, i)' <=> Dealt(g, p, i)
BY DEF Dealt

\* ... nor by what is done on a page before and between the reads.
LEMMA InsideDealt ==
    ASSUME pc \in InPages, pc' \in InPages, UNCHANGED <<group, page_idx, pages>>,
           \/ pc \notin OneByOne /\ pc' \notin OneByOne
           \/ pc \notin OneByOne /\ pc' \in OneByOne /\ item' = 1
           \/ pc \in OneByOne /\ pc' \in OneByOne /\ item' = item
    PROVE  \A g \in DOMAIN Groups, p \in Nat, i \in Nat : Dealt(g, p, i)' <=> Dealt(g, p, i)
<1>1. pc # "idle" /\ pc' # "idle"
  BY DEF InPages, Reading
<1>2. ASSUME NEW g \in DOMAIN Groups, NEW p \in Nat, NEW i \in Nat
      PROVE  i \in 1..Groups[g].commands =>
                 (pc' \in OneByOne /\ i < item' <=> pc \in OneByOne /\ i < item)
  <2>1. i \in 1..Groups[g].commands => ~(i < 1)
    OBVIOUS
  <2> QED
    BY <2>1
<1> QED
  BY <1>1, <1>2 DEF Dealt

\* The groups are numbered, and each has commands.
LEMMA GroupNumbers ==
    /\ DOMAIN Groups = 1..Len(Groups) /\ Len(Groups) \in Nat \ {0}
    /\ \A g \in DOMAIN Groups : Groups[g].commands \in Nat \ {0}
<1>1. Groups \in Seq(GroupType) /\ Groups # <<>>
  BY GroupsAssumption DEF GroupType
<1>2. DOMAIN Groups = 1..Len(Groups) /\ Len(Groups) \in Nat \ {0}
  BY <1>1
<1>3. \A g \in DOMAIN Groups : Groups[g] \in GroupType
  BY <1>1
<1> QED
  BY <1>2, <1>3 DEF GroupType

\* The step to the next group, or to the end of the poll.
LEMMA NextGroupPages ==
    ASSUME LoopsOK, NextGroup, \A g \in DOMAIN Groups : g > group => pages'[g] = 0
    PROVE  /\ \/ group' = group + 1 /\ pc' = "group"
              \/ group = Len(Groups) /\ pc' = "idle"
           /\ PageInv'
<1>1. group \in 1..Len(Groups) /\ Len(Groups) \in Nat
  BY GroupNumbers DEF LoopsOK
<1>2. \/ group' = group + 1 /\ pc' = "group"
      \/ group = Len(Groups) /\ pc' = "idle"
  BY <1>1 DEF NextGroup
<1>3. pc' \notin InPages /\ pc' \notin OneByOne
  BY <1>2 DEF InPages, OneByOne, Reading
<1>4. CASE group' = group + 1
  <2>1. \A g \in DOMAIN Groups : g > group' \/ g = group' => g > group
    BY <1>1, <1>4, GroupNumbers
  <2> QED
    BY <1>2, <1>3, <2>1 DEF PageInv
<1>5. CASE pc' = "idle"
  BY <1>2, <1>3, <1>5 DEF PageInv
<1> QED
  BY <1>2, <1>4, <1>5

\* Beginning the pages of a group deals with nothing, even if it has none.
LEMMA BeginPagesDealt ==
    ASSUME LoopsOK, PageInv, pc \notin InPages \cup {"idle"},
           NEW n \in Counts \cup {1}, BeginPages(n)
    PROVE  /\ PageInv'
           /\ \A g \in DOMAIN Groups, p \in Nat, i \in Nat : Dealt(g, p, i)' <=> Dealt(g, p, i)
<1>1. n \in Nat /\ total_pages' = n /\ page_idx' = 1
  BY PagesAssumption DEF BeginPages
<1>2. /\ pages' \in [DOMAIN Groups -> Counts \cup {0, 1}] /\ pages'[group] = n
      /\ \A g \in DOMAIN Groups : g # group => pages'[g] = pages[g]
      /\ \A g \in DOMAIN Groups : g >= group => pages[g] = 0
  BY GroupNumbers DEF BeginPages, LoopsOK, PageInv
<1>3. group \in 1..Len(Groups)
  BY GroupNumbers DEF LoopsOK
<1>4. CASE n = 0
  <2>0. NextGroup /\ \A g \in DOMAIN Groups : g > group => pages'[g] = 0
    BY <1>2, <1>3, <1>4, GroupNumbers DEF BeginPages
  <2>1. \/ group' = group + 1 /\ pc' = "group"
        \/ group = Len(Groups) /\ pc' = "idle"
    BY <2>0, NextGroupPages
  <2>2. PageInv'
    BY <2>0, NextGroupPages
  <2>3. ASSUME NEW g \in DOMAIN Groups, NEW p \in Nat, NEW i \in Nat
        PROVE  Dealt(g, p, i)' <=> Dealt(g, p, i)
    <3>1. g \in Nat /\ g <= Len(Groups)
      BY GroupNumbers
    <3>2. CASE g < group
      BY <1>2, <1>3, <2>1, <3>1, <3>2 DEF Dealt
    <3>3. CASE g >= group
      <4>1. pages[g] = 0 /\ pages'[g] = 0
        BY <1>2, <1>4, <3>3
      <4>2. ~(p \in 1..0)
        OBVIOUS
      <4> QED
        BY <4>1, <4>2 DEF Dealt
    <3> QED
      BY <1>3, <3>1, <3>2, <3>3
  <2> QED
    BY <2>2, <2>3
<1>5. CASE n # 0
  <2>1. group' = group /\ pc' \in {"page", "trigger", "trigger_read", "read"}
    BY <1>5, TriggersPlace DEF BeginPages, StartPage
  <2>2. PageInv'
    BY <1>1, <1>2, <1>3, <1>5, <2>1, GroupNumbers DEF PageInv, InPages, OneByOne, Reading
  <2>3. ASSUME NEW g \in DOMAIN Groups, NEW p \in Nat, NEW i \in Nat
        PROVE  Dealt(g, p, i)' <=> Dealt(g, p, i)
    <3>1. g \in Nat
      BY GroupNumbers
    <3>2. CASE g < group
      BY <1>2, <1>3, <2>1, <3>1, <3>2 DEF Dealt, InPages, OneByOne, Reading
    <3>3. CASE g >= group
      <4>1. ~Dealt(g, p, i)
        BY <1>2, <1>3, <3>1, <3>3 DEF Dealt
      <4>2. ~Dealt(g, p, i)'
        BY <1>1, <1>3, <2>1, <3>1, <3>3 DEF Dealt, OneByOne
      <4> QED
        BY <4>1, <4>2
    <3> QED
      BY <1>3, <3>1, <3>2, <3>3
  <2> QED
    BY <2>2, <2>3
<1> QED
  BY <1>4, <1>5

\* With the step to the next page, or to the next group, all commands of the
\* page have been dealt with.
LEMMA NextPageDealt ==
    ASSUME LoopsOK, PageInv, pc \in InPages, NextPage, UNCHANGED <<total_pages, pages>>
    PROVE  /\ PageInv'
           /\ \A g \in DOMAIN Groups, p \in Nat, i \in Nat :
                  Dealt(g, p, i)' <=>
                      /\ p \in 1..pages[g] /\ i \in 1..Groups[g].commands
                      /\ g < group \/ (g = group /\ p <= page_idx)
<1>1. /\ total_pages \in Nat /\ page_idx \in Nat \ {0} /\ pages[group] = total_pages
      /\ page_idx <= total_pages
  BY PagesAssumption DEF LoopsOK, PageInv
<1>2. group \in 1..Len(Groups) /\ \A g \in DOMAIN Groups : g > group => pages[g] = 0
  BY GroupNumbers DEF LoopsOK, PageInv, InPages, Reading
<1>3. CASE page_idx < total_pages
  <2>1. page_idx' = page_idx + 1 /\ pc' = "page" /\ group' = group
    BY <1>1, <1>3 DEF NextPage, StartPage
  <2>2. PageInv'
    BY <1>1, <1>2, <2>1 DEF PageInv, InPages, OneByOne, Reading
  <2>3. ASSUME NEW g \in DOMAIN Groups, NEW p \in Nat, NEW i \in Nat
        PROVE  Dealt(g, p, i)' <=>
                   /\ p \in 1..pages[g] /\ i \in 1..Groups[g].commands
                   /\ g < group \/ (g = group /\ p <= page_idx)
    BY <1>1, <2>1 DEF Dealt, InPages, OneByOne
  <2> QED
    BY <2>2, <2>3
<1>4. CASE ~(page_idx < total_pages)
  <2>1. page_idx = total_pages
    BY <1>1, <1>4
  <2>2. \/ group' = group + 1 /\ pc' = "group"
        \/ group = Len(Groups) /\ pc' = "idle"
    BY <1>2, <1>4, NextGroupPages DEF NextPage
  <2>3. PageInv'
    BY <1>2, <1>4, NextGroupPages DEF NextPage
  <2>4. ASSUME NEW g \in DOMAIN Groups, NEW p \in Nat, NEW i \in Nat
        PROVE  Dealt(g, p, i)' <=>
                   /\ p \in 1..pages[g] /\ i \in 1..Groups[g].commands
                   /\ g < group \/ (g = group /\ p <= page_idx)
    <3>1. g \in Nat /\ g <= Len(Groups)
      BY GroupNumbers
    <3>2. CASE g <= group
      <4>1. g = group => (p \in 1..pages[g] => p <= page_idx)
        BY <1>1, <2>1
      <4>2. pc' = "idle" \/ g < group'
        BY <1>2, <2>2, <3>1, <3>2
      <4>3. g < group \/ g = group
        BY <1>2, <3>1, <3>2
      <4> QED
        BY <4>1, <4>2, <4>3 DEF Dealt
    <3>3. CASE g > group
      <4>1. pages[g] = 0 /\ ~(p \in 1..0)
        BY <1>2, <3>3
      <4> QED
        BY <4>1 DEF Dealt
    <3> QED
      BY <1>2, <3>1, <3>2, <3>3
  <2> QED
    BY <2>3, <2>4
<1> QED
  BY <1>3, <1>4

\* A group is begun.
LEMMA BeginGroupCounts ==
    ASSUME PartsInv, PageInv, OnceInv, pc \notin InPages \cup {"idle"}, BeginGroup
    PROVE  PageInv' /\ OnceInv'
<1> USE DEF PartsInv
<1>1. UNCHANGED reports
  BY DEF BeginGroup
<1>2. CASE current.selector = NoSelector
  BY <1>1, <1>2, BeginPagesDealt, OnceStays DEF BeginGroup
<1>3. CASE current.selector # NoSelector
  <2>1. pc' = "first_page" /\ UNCHANGED <<group, pages>>
    BY <1>3 DEF BeginGroup
  <2>2. PageInv'
    BY <2>1 DEF PageInv, InPages, OneByOne, Reading
  <2>3. OnceInv'
    BY <1>1, <2>1, OutsideDealt, OnceStays DEF InPages, Reading
  <2> QED
    BY <2>2, <2>3
<1> QED
  BY <1>2, <1>3

\* A poll starts with no reports; going to a slave reports nothing.
LEMMA GroupStepCounts ==
    ASSUME PartsInv, CountInv,
           \/ StartPoll \/ SameSlave \/ SwitchSlave \/ Validated
           \/ ReplaceClient \/ AwaitRaises \/ Reconnected
    PROVE  CountInv'
<1> USE DEF PartsInv
<1>1. CASE StartPoll
  <2>1. /\ pc' = "group" /\ reports' = <<>>
        /\ \A g \in DOMAIN Groups : pages'[g] = 0
    BY <1>1 DEF StartPoll
  <2>2. PageInv'
    BY <2>1 DEF PageInv, InPages, OneByOne, Reading
  <2>3. \A g \in DOMAIN Groups, p \in Nat, i \in Nat : ~Dealt(g, p, i)'
    <3>1. \A p : p \notin 1..0
      OBVIOUS
    <3> QED
      BY <2>1, <3>1 DEF Dealt
  <2>4. DOMAIN reports' = {}
    BY <2>1
  <2>5. OnceInv'
    BY <2>3, <2>4 DEF OnceInv
  <2> QED
    BY <2>2, <2>5 DEF CountInv
<1>2. CASE SameSlave \/ Validated \/ Reconnected
  <2>1. pc \notin InPages \cup {"idle", "dead"} /\ BeginGroup
    BY <1>2 DEF SameSlave, Validated, Reconnected, InPages, Reading
  <2> QED
    BY <2>1, BeginGroupCounts DEF CountInv
<1>3. CASE SwitchSlave \/ ReplaceClient
  <2>1. /\ pc = "group" /\ pc' \in {"validate", "connecting"}
        /\ UNCHANGED <<group, pages, reports>>
    BY <1>3 DEF SwitchSlave, ReplaceClient, loops, history
  <2>2. PageInv'
    BY <2>1 DEF CountInv, PageInv, InPages, OneByOne, Reading
  <2>3. OnceInv'
    BY <2>1, OutsideDealt, OnceStays DEF CountInv, InPages, Reading
  <2> QED
    BY <2>2, <2>3 DEF CountInv
<1>4. CASE AwaitRaises
  BY <1>4 DEF AwaitRaises, CountInv
<1> QED
  BY <1>1, <1>2, <1>3, <1>4

\* The discovery of the pages reports nothing.
LEMMA DiscoveryCounts ==
    ASSUME PartsInv, CountInv, FirstPage \/ Count
    PROVE  CountInv'
<1> USE DEF PartsInv
<1>1. pc \notin InPages \cup {"idle", "dead"} /\ UNCHANGED reports
  BY DEF FirstPage, Count, InPages, Reading
<1>2. CASE pc' = "count" /\ UNCHANGED <<group, pages>>
  <2>1. PageInv'
    BY <1>1, <1>2 DEF CountInv, PageInv, InPages, OneByOne, Reading
  <2>2. OnceInv'
    BY <1>1, <1>2, OutsideDealt, OnceStays DEF CountInv, InPages, Reading
  <2> QED
    BY <2>1, <2>2 DEF CountInv
<1>3. CASE \E n \in Counts \cup {1} : BeginPages(n)
  BY <1>1, <1>3, BeginPagesDealt, OnceStays DEF CountInv
<1> QED
  BY <1>2, <1>3 DEF FirstPage, Count

\* Switches, triggers and reads that fail report nothing either.
LEMMA InsideCounts ==
    ASSUME PartsInv, CountInv, SwitchPage \/ Trigger \/ TriggerRead \/ FallBack \/ ReadRaises
    PROVE  CountInv'
<1> USE DEF PartsInv
<1>1. CASE ReadRaises
  BY <1>1 DEF ReadRaises, CountInv
<1>2. CASE SwitchPage \/ Trigger \/ TriggerRead \/ FallBack
  <2>1. /\ pc \in InPages /\ pc # "dead" /\ pc' \in InPages
        /\ UNCHANGED <<group, page_idx, total_pages, pages, reports>>
    BY <1>2, TriggersPlace
    DEF SwitchPage, Trigger, TriggerRead, FallBack, ReadGroup, InPages, Reading, loops, history
  <2>2. \/ pc \notin OneByOne /\ pc' \notin OneByOne
        \/ pc \notin OneByOne /\ pc' \in OneByOne /\ item' = 1
        \/ pc \in OneByOne /\ pc' \in OneByOne /\ item' = item
    BY <1>2, TriggersPlace
    DEF SwitchPage, Trigger, TriggerRead, FallBack, ReadGroup, OneByOne, loops, PlaceInv, ItemInv
  <2>3. current' = current /\ 1 <= current.commands
    <3>1. current.commands \in Nat \ {0}
      BY CurrentGroup DEF GroupType
    <3> QED
      BY <2>1, <3>1 DEF current
  <2>4. PageInv'
    <3>1. PageInv /\ pc # "idle" /\ pc' # "idle"
      BY <2>1 DEF CountInv, InPages, Reading
    <3>2. pages'[group'] = total_pages' /\ total_pages' >= 1
      BY <2>1, <3>1 DEF PageInv
    <3>3. pc' \in OneByOne => item' <= current'.commands
      BY <2>2, <2>3, <3>1 DEF PageInv
    <3>4. \A g \in DOMAIN Groups : g > group' => pages'[g] = 0
      BY <2>1, <3>1 DEF PageInv
    <3> QED
      BY <2>1, <3>2, <3>3, <3>4 DEF PageInv
  <2>5. OnceInv'
    BY <2>1, <2>2, InsideDealt, OnceStays DEF CountInv
  <2> QED
    BY <2>4, <2>5 DEF CountInv
<1> QED
  BY <1>1, <1>2

\* A read of the whole group reports all its commands.
LEMMA ReadCounts ==
    ASSUME PartsInv, CountInv, ReadSucceeds
    PROVE  CountInv'
<1> USE DEF PartsInv
<1>0. pc = "read" /\ pc \in InPages /\ pc \notin OneByOne /\ PageInv /\ OnceInv
  BY DEF ReadSucceeds, CountInv, InPages, OneByOne, Reading
<1>1. PICK outcome \in [1..current.commands -> Processed] :
          reports' = reports \o [i \in 1..current.commands |-> Report(i, outcome[i])]
  BY DEF ReadSucceeds
<1> DEFINE more == [i \in 1..current.commands |-> Report(i, outcome[i])]
<1>2. current.commands \in Nat \ {0} /\ current.commands = Groups[group].commands
  BY CurrentGroup DEF GroupType, current
<1>3. more \in Seq(ReportType) /\ DOMAIN more = 1..current.commands
  <2>1. \A i \in 1..current.commands :
            i \in Nat /\ outcome[i] \in {"value", "invalid", "undecodable"}
    BY <1>2 DEF Processed
  <2>2. \A i \in 1..current.commands : Report(i, outcome[i]) \in ReportType
    BY <1>0, <2>1, ReportIsTrue
  <2> QED
    BY <1>2, <2>2
<1>4. \A i \in DOMAIN more :
          more[i].group = group /\ more[i].page = page_idx /\ more[i].command = i
  BY <1>3 DEF Report
<1>5. reports' = reports \o more
  BY <1>1
<1> HIDE DEF more
<1>6. /\ PageInv'
      /\ \A g \in DOMAIN Groups, p \in Nat, i \in Nat :
             Dealt(g, p, i)' <=>
                 /\ p \in 1..pages[g] /\ i \in 1..Groups[g].commands
                 /\ g < group \/ (g = group /\ p <= page_idx)
  BY <1>0, NextPageDealt DEF ReadSucceeds
<1>7. page_idx \in 1..pages[group]
  BY <1>0, PagesAssumption DEF PageInv, LoopsOK
<1>8. \A k \in DOMAIN more : ~Dealt(more[k].group, more[k].page, more[k].command)
  BY <1>0, <1>4, GroupNumbers DEF Dealt, LoopsOK
<1>9. \A j, k \in DOMAIN more : Key(more[j]) = Key(more[k]) => j = k
  BY <1>4 DEF Key
<1>10. ASSUME NEW g \in DOMAIN Groups, NEW p \in Nat, NEW i \in Nat
       PROVE  Dealt(g, p, i)' <=> Dealt(g, p, i) \/ \E k \in DOMAIN more : Key(more[k]) = <<g, p, i>>
  <2>1. (\E k \in DOMAIN more : Key(more[k]) = <<g, p, i>>) <=>
            g = group /\ p = page_idx /\ i \in 1..Groups[group].commands
    BY <1>2, <1>3, <1>4 DEF Key
  <2>2. Dealt(g, p, i) <=>
            /\ p \in 1..pages[g] /\ i \in 1..Groups[g].commands
            /\ g < group \/ (g = group /\ p < page_idx)
    BY <1>0 DEF Dealt
  <2>3. p <= page_idx <=> p < page_idx \/ p = page_idx
    BY DEF LoopsOK
  <2> QED
    BY <1>6, <1>7, <2>1, <2>2, <2>3
<1>11. OnceInv'
  BY <1>0, <1>3, <1>5, <1>8, <1>9, <1>10, OnceAdded
<1> QED
  BY <1>6, <1>11 DEF CountInv

\* A single read, or its last failure, reports its command.
LEMMA SingleCounts ==
    ASSUME PartsInv, CountInv, SingleSucceeds \/ CommandFails
    PROVE  CountInv'
<1> USE DEF PartsInv
<1>0. pc \in {"single", "plain"} /\ pc \in InPages /\ pc \in OneByOne /\ PageInv /\ OnceInv
  BY DEF SingleSucceeds, CommandFails, CountInv, InPages, OneByOne, Reading
<1>1. PICK outcome \in {"value", "invalid", "undecodable"} :
          reports' = Append(reports, Report(item, outcome))
  BY DEF SingleSucceeds, CommandFails, Processed
<1> DEFINE r == Report(item, outcome)
<1>2. r \in ReportType /\ r.group = group /\ r.page = page_idx /\ r.command = item
  BY <1>0, ReportIsTrue DEF LoopsOK, Report
<1>3. reports' = Append(reports, r)
  BY <1>1
<1> HIDE DEF r
<1>4. /\ <<r>> \in Seq(ReportType) /\ DOMAIN <<r>> = {1} /\ <<r>>[1] = r
      /\ reports' = reports \o <<r>>
  BY <1>2, <1>3 DEF ReportsOK
<1>5. current.commands \in Nat \ {0} /\ current.commands = Groups[group].commands
  BY CurrentGroup DEF GroupType, current
<1>6. /\ item \in 1..current.commands /\ page_idx \in Nat
      /\ page_idx \in 1..pages[group] /\ group \in DOMAIN Groups
  BY <1>0, <1>5, PagesAssumption DEF PageInv, LoopsOK
<1>7. /\ PageInv'
      /\ \A g \in DOMAIN Groups, p \in Nat, i \in Nat :
             Dealt(g, p, i)' <=>
                 /\ p \in 1..pages[g] /\ i \in 1..Groups[g].commands
                 /\ g < group \/ (g = group /\ (p < page_idx \/ (p = page_idx /\ i <= item)))
  <2>0. NextCommand /\ UNCHANGED <<total_pages, pages>>
    BY DEF SingleSucceeds, CommandFails
  <2>1. CASE item < current.commands
    <3>1. item' = item + 1 /\ pc' = "single" /\ UNCHANGED <<group, page_idx>>
      BY <2>0, <2>1 DEF NextCommand
    <3>2. current' = current
      BY <3>1 DEF current
    <3>3. PageInv'
      BY <1>0, <1>5, <1>6, <2>0, <2>1, <3>1, <3>2 DEF PageInv, InPages, OneByOne, Reading
    <3>4. ASSUME NEW i \in Nat
          PROVE  i < item' <=> i <= item
      BY <1>5, <1>6, <3>1
    <3> QED
      BY <2>0, <3>1, <3>3, <3>4 DEF Dealt, InPages, OneByOne, Reading
  <2>2. CASE ~(item < current.commands)
    <3>1. NextPage /\ item = current.commands
      BY <1>5, <1>6, <2>0, <2>2 DEF NextCommand
    <3>2. /\ PageInv'
          /\ \A g \in DOMAIN Groups, p \in Nat, i \in Nat :
                 Dealt(g, p, i)' <=>
                     /\ p \in 1..pages[g] /\ i \in 1..Groups[g].commands
                     /\ g < group \/ (g = group /\ p <= page_idx)
      BY <1>0, <2>0, <3>1, NextPageDealt
    <3>3. \A i \in 1..Groups[group].commands : i <= item
      BY <1>5, <3>1
    <3>4. \A p \in Nat : p <= page_idx <=> p < page_idx \/ p = page_idx
      BY <1>6
    <3> QED
      BY <3>2, <3>3, <3>4
  <2> QED
    BY <2>1, <2>2
<1>8. \A k \in DOMAIN <<r>> : ~Dealt(<<r>>[k].group, <<r>>[k].page, <<r>>[k].command)
  <2>1. ~(group < group) /\ ~(page_idx < page_idx) /\ ~(item < item) /\ pc # "idle"
    BY <1>0, <1>5, <1>6, GroupNumbers
  <2> QED
    BY <1>2, <1>4, <2>1 DEF Dealt
<1>9. \A j, k \in DOMAIN <<r>> : Key(<<r>>[j]) = Key(<<r>>[k]) => j = k
  BY <1>4
<1>10. ASSUME NEW g \in DOMAIN Groups, NEW p \in Nat, NEW i \in Nat
       PROVE  Dealt(g, p, i)' <=>
                  Dealt(g, p, i) \/ \E k \in DOMAIN <<r>> : Key(<<r>>[k]) = <<g, p, i>>
  <2>1. (\E k \in DOMAIN <<r>> : Key(<<r>>[k]) = <<g, p, i>>) <=>
            g = group /\ p = page_idx /\ i = item
    BY <1>2, <1>4 DEF Key
  <2>2. Dealt(g, p, i) <=>
            /\ p \in 1..pages[g] /\ i \in 1..Groups[g].commands
            /\ g < group \/ (g = group /\ (p < page_idx \/ (p = page_idx /\ i < item)))
    BY <1>0 DEF Dealt
  <2>3. i <= item <=> i < item \/ i = item
    BY <1>5, <1>6
  <2>4. g = group /\ p = page_idx /\ i = item =>
            p \in 1..pages[g] /\ i \in 1..Groups[g].commands
    BY <1>5, <1>6
  <2> QED
    BY <1>7, <2>1, <2>2, <2>3, <2>4
<1>11. OnceInv'
  BY <1>0, <1>4, <1>8, <1>9, <1>10, OnceAdded
<1> QED
  BY <1>7, <1>11 DEF CountInv

\* The clients deal with nothing.
LEMMA ClientStepCounts ==
    ASSUME PartsInv, CountInv, ClientStep \/ UNCHANGED vars
    PROVE  CountInv'
<1> USE DEF PartsInv
<1>1. UNCHANGED <<pc, group, total_pages, page_idx, item, pages, reports>>
  BY DEF ClientStep, vars, loops, history
<1>2. current' = current
  BY <1>1 DEF current
<1>3. \A g \in DOMAIN Groups, p \in Nat, i \in Nat : Dealt(g, p, i)' <=> Dealt(g, p, i)
  BY <1>1 DEF Dealt
<1>4. PageInv => PageInv'
  BY <1>1, <1>2 DEF PageInv
<1>5. OnceInv => OnceInv'
  BY <1>1, <1>3, OnceStays
<1> QED
  BY <1>1, <1>4, <1>5 DEF CountInv

\* Before the first poll there are no pages.
LEMMA InitCounts == Init => CountInv
<1> SUFFICES ASSUME Init PROVE PageInv /\ OnceInv
  BY DEF CountInv
<1>1. pc = "idle" /\ DOMAIN reports = {} /\ \A g \in DOMAIN Groups : pages[g] = 0
  BY DEF Init
<1>2. PageInv
  BY <1>1 DEF PageInv, InPages, OneByOne, Reading
<1>3. \A g \in DOMAIN Groups, p \in Nat, i \in Nat : ~Dealt(g, p, i)
  <2>1. \A p : p \notin 1..0
    OBVIOUS
  <2> QED
    BY <1>1, <2>1 DEF Dealt
<1> QED
  BY <1>1, <1>2, <1>3 DEF OnceInv

LEMMA PagesAreNumbers ==
    ASSUME LoopsOK, NEW g \in DOMAIN Groups
    PROVE  pages[g] \in Nat
<1>1. pages[g] \in Counts \cup {0, 1}
  BY DEF LoopsOK
<1>2. Counts \cup {0, 1} \subseteq Nat
  BY PagesAssumption
<1> QED
  BY <1>1, <1>2

\* When the poll is over, everything has been dealt with.
LEMMA OncePerCommand ==
    ASSUME LoopsOK, ReportsOK, CountInv
    PROVE  EveryCommandIsReported
<1> SUFFICES ASSUME pc = "idle", NEW g \in DOMAIN Groups,
                    NEW p \in 1..pages[g], NEW i \in 1..Groups[g].commands
             PROVE  Cardinality({k \in DOMAIN reports :
                        /\ reports[k].group = g /\ reports[k].page = p
                        /\ reports[k].command = i}) = 1
  BY DEF EveryCommandIsReported
<1>1. p \in Nat /\ i \in Nat
  BY GroupNumbers, PagesAreNumbers
<1>2. Dealt(g, p, i)
  BY DEF Dealt
<1>3. PICK k \in DOMAIN reports : Key(reports[k]) = <<g, p, i>>
  BY <1>1, <1>2 DEF CountInv, OnceInv
<1>4. \A j \in DOMAIN reports : Key(reports[j]) = <<g, p, i>> => j = k
  BY <1>3 DEF CountInv, OnceInv
<1>5. {j \in DOMAIN reports : /\ reports[j].group = g /\ reports[j].page = p
                              /\ reports[j].command = i} = {k}
  BY <1>3, <1>4 DEF Key
<1> QED
  BY <1>5, FS_Singleton

-----------------------------------------------------------------------------
(* Theorems.                                                               *)

\* The invariant holds of every reachable state.
THEOREM PollInvariance == Spec => []PollInv
<1>1. PollInv /\ [Next]_vars => PollInv'
  BY PollInvByParts, GroupStepKeeps, DiscoveryKeeps, SwitchPageKeeps, TriggerKeeps,
     ReadStepKeeps, ClientStepKeeps
  DEF Next, Poll
<1> QED
  BY <1>1, InitPollInv, PTL DEF Spec

\* Type correctness: no loop leaves its bounds, and only selectors of the
\* station are written, with values they have.
THEOREM PollTypeCorrect == Spec => []TypeOK
<1>1. PollInv => TypeOK
  BY DEF PollInv
<1> QED
  BY <1>1, PollInvariance, PTL

\* Values are published as those of the page and the category the station
\* showed when they were read.
THEOREM ValuesAreOfTheirPage == Spec => []ShowsWhatWasSelected
<1>1. PollInv => ShowsWhatWasSelected
  BY DEF PollInv
<1> QED
  BY <1>1, PollInvariance, PTL

\* The reports are those of what has been dealt with.
THEOREM CountInvariance == Spec => []CountInv
<1>1. PollInv /\ CountInv /\ [Next]_vars => CountInv'
  BY PollInvByParts, GroupStepCounts, DiscoveryCounts, InsideCounts, ReadCounts,
     SingleCounts, ClientStepCounts
  DEF Next, Poll
<1> QED
  BY <1>1, InitCounts, PollInvariance, PTL DEF Spec

\* A poll reports each command of each group exactly once for each page,
\* whichever reads failed and however many pages the station said it has.
THEOREM CommandsAreReported == Spec => []EveryCommandIsReported
<1>1. PollInv /\ CountInv => EveryCommandIsReported
  BY PollInvByParts, OncePerCommand DEF PartsInv
<1> QED
  BY <1>1, PollInvariance, CountInvariance, PTL

-----------------------------------------------------------------------------
(* A poll goes forward.                                                    *)

\* The awaits in their order.
LEMMA OrderValues ==
    /\ DOMAIN Order = {"group", "validate", "connecting", "first_page", "count", "page",
                       "trigger", "trigger_read", "read", "single", "plain"}
    /\ Order["group"] = 0 /\ Order["validate"] = 1 /\ Order["connecting"] = 1
    /\ Order["first_page"] = 2 /\ Order["count"] = 3 /\ Order["page"] = 4
    /\ Order["trigger"] = 5 /\ Order["trigger_read"] = 6 /\ Order["read"] = 7
    /\ Order["single"] = 8 /\ Order["plain"] = 8
    /\ \A x \in DOMAIN Order : Order[x] \in Nat
BY DEF Order

\* One quintuple is before another if its first number that differs is less.
LEMMA BeforeFirst ==
    ASSUME NEW a, NEW b, DOMAIN a = 1..5,
           \/ a[1] < b[1]
           \/ a[1] = b[1] /\ a[2] < b[2]
           \/ a[1] = b[1] /\ a[2] = b[2] /\ a[3] < b[3]
           \/ a[1] = b[1] /\ a[2] = b[2] /\ a[3] = b[3] /\ a[4] < b[4]
           \/ a[1] = b[1] /\ a[2] = b[2] /\ a[3] = b[3] /\ a[4] = b[4] /\ a[5] < b[5]
    PROVE  Before(a, b)
<1>1. \E i \in 1..5 : a[i] < b[i] /\ \A j \in 1..(i - 1) : a[j] = b[j]
  <2>1. CASE a[1] < b[1]
    <3>1. \A j \in 1..(1 - 1) : a[j] = b[j]
      OBVIOUS
    <3> QED
      BY <2>1, <3>1
  <2>2. CASE a[1] = b[1] /\ a[2] < b[2]
    <3>1. \A j \in 1..(2 - 1) : a[j] = b[j]
      BY <2>2
    <3> QED
      BY <2>2, <3>1
  <2>3. CASE a[1] = b[1] /\ a[2] = b[2] /\ a[3] < b[3]
    <3>1. \A j \in 1..(3 - 1) : a[j] = b[j]
      <4>1. \A j \in 1..(3 - 1) : j \in {1, 2}
        OBVIOUS
      <4> QED
        BY <2>3, <4>1
    <3> QED
      BY <2>3, <3>1
  <2>4. CASE a[1] = b[1] /\ a[2] = b[2] /\ a[3] = b[3] /\ a[4] < b[4]
    <3>1. \A j \in 1..(4 - 1) : a[j] = b[j]
      <4>1. \A j \in 1..(4 - 1) : j \in {1, 2, 3}
        OBVIOUS
      <4> QED
        BY <2>4, <4>1
    <3> QED
      BY <2>4, <3>1
  <2>5. CASE a[1] = b[1] /\ a[2] = b[2] /\ a[3] = b[3] /\ a[4] = b[4] /\ a[5] < b[5]
    <3>1. \A j \in 1..(5 - 1) : a[j] = b[j]
      <4>1. \A j \in 1..(5 - 1) : j \in {1, 2, 3, 4}
        OBVIOUS
      <4> QED
        BY <2>5, <4>1
    <3> QED
      BY <2>5, <3>1
  <2> QED
    BY <2>1, <2>2, <2>3, <2>4, <2>5
<1> QED
  BY <1>1 DEF Before

\* The ways in which a poll goes forward: to another group, from the discovery
\* of pages to a page, within the discovery, to another page, within a page, to
\* the next trigger or command, and from one way of reading it to the other.
Forward ==
    \/ group < group'
    \/ /\ group' = group
       /\ \/ Order[pc] < 4 /\ Order[pc'] >= 4
          \/ Order[pc'] < 4 /\ Order[pc] < Order[pc']
          \/ /\ Order[pc] >= 4 /\ Order[pc'] >= 4
             /\ \/ page_idx < page_idx'
                \/ page_idx' = page_idx /\ Order[pc] < Order[pc']
                \/ /\ page_idx' = page_idx /\ Order[pc'] = Order[pc]
                   /\ \/ item < item'
                      \/ item' = item /\ pc = "single" /\ pc' = "plain"

\* Each of them leads to a later place.
LEMMA ForwardIsLater ==
    ASSUME TypeOK, TypeOK', {pc, pc'} \subseteq DOMAIN Order, Forward
    PROVE  Before(Place, Place')
<1> DEFINE page(p, x) == IF Order[p] < 4 THEN 0 ELSE x
           way(p) == IF p = "plain" THEN 1 ELSE 0
<1>1. /\ group \in Nat /\ page_idx \in Nat \ {0} /\ item \in Nat
      /\ group' \in Nat /\ page_idx' \in Nat \ {0} /\ item' \in Nat
      /\ Order[pc] \in Nat /\ Order[pc'] \in Nat
  <2>1. Groups \in Seq(GroupType)
    BY GroupsAssumption DEF GroupType
  <2>2. DOMAIN Groups \subseteq Nat
    BY <2>1
  <2> QED
    BY <2>2, OrderValues DEF TypeOK
<1>2. /\ page(pc, page_idx) \in Nat /\ page(pc', page_idx') \in Nat
      /\ way(pc) \in Nat /\ way(pc') \in Nat
  BY <1>1
<1>3. \/ group < group'
      \/ group = group' /\ page(pc, page_idx) < page(pc', page_idx')
      \/ /\ group = group' /\ page(pc, page_idx) = page(pc', page_idx')
         /\ \/ Order[pc] < Order[pc']
            \/ Order[pc] = Order[pc'] /\ item < item'
            \/ Order[pc] = Order[pc'] /\ item = item' /\ way(pc) < way(pc')
  BY <1>1 DEF Forward
<1> DEFINE p1 == page(pc, page_idx)   q1 == page(pc', page_idx')
           p2 == Order[pc]             q2 == Order[pc']
           p3 == way(pc)               q3 == way(pc')
<1>4. /\ DOMAIN Place = 1..5
      /\ Place[1] = group /\ Place[2] = p1 /\ Place[3] = p2 /\ Place[4] = item
      /\ Place[5] = p3
  BY DEF Place, Order
<1>5. /\ Place'[1] = group' /\ Place'[2] = q1 /\ Place'[3] = q2 /\ Place'[4] = item'
      /\ Place'[5] = q3
  BY DEF Place, Order
<1>6. \/ group < group'
      \/ group = group' /\ p1 < q1
      \/ group = group' /\ p1 = q1 /\ p2 < q2
      \/ group = group' /\ p1 = q1 /\ p2 = q2 /\ item < item'
      \/ group = group' /\ p1 = q1 /\ p2 = q2 /\ item = item' /\ p3 < q3
  BY <1>3
<1> HIDE DEF page, way, p1, p2, p3, q1, q2, q3
<1> QED
  BY <1>4, <1>5, <1>6, BeforeFirst

\* What is behind in the same page is behind in the poll.
LEMMA WithinPageForward ==
    ASSUME group' = group, page_idx' = page_idx,
           NEW from \in Nat, NEW to \in Nat, from >= 4,
           Order[pc] = from, Order[pc'] = to,
           \/ from < to
           \/ from = to /\ item < item'
           \/ from = to /\ item' = item /\ pc = "single" /\ pc' = "plain"
    PROVE  Forward
<1>1. Order[pc] >= 4 /\ Order[pc'] >= 4
  OBVIOUS
<1>2. CASE from < to
  <2>1. Order[pc] < Order[pc']
    BY <1>2
  <2> QED
    BY <1>1, <2>1, Zenon DEF Forward
<1>3. CASE from = to /\ item < item'
  <2>1. Order[pc] = Order[pc']
    BY <1>3
  <2> QED
    BY <1>1, <1>3, <2>1, Zenon DEF Forward
<1>4. CASE from = to /\ item' = item /\ pc = "single" /\ pc' = "plain"
  <2>1. Order[pc] = Order[pc']
    BY <1>4
  <2> QED
    BY <1>1, <1>4, <2>1, Zenon DEF Forward
<1> QED
  BY <1>2, <1>3, <1>4, Zenon

\* The next group is a later one.
LEMMA NextGroupForward ==
    ASSUME LoopsOK, NextGroup, pc' \in DOMAIN Order
    PROVE  group < group'
<1>1. Groups \in Seq(GroupType)
  BY GroupsAssumption DEF GroupType
<1>2. group \in Nat
  BY <1>1 DEF LoopsOK
<1>3. "idle" \notin DOMAIN Order
  BY OrderValues
<1> QED
  BY <1>2, <1>3 DEF NextGroup

\* The pages of a group follow the discovery of their number.
LEMMA BeginPagesForward ==
    ASSUME LoopsOK, NEW n \in Counts \cup {1}, BeginPages(n),
           pc \in DOMAIN Order, Order[pc] < 4, pc' \in DOMAIN Order
    PROVE  Forward
<1>1. CASE n = 0
  BY <1>1, NextGroupForward DEF BeginPages, Forward
<1>2. CASE n # 0
  <2>1. group' = group /\ pc' \in {"page", "trigger", "trigger_read", "read"}
    BY <1>2, TriggersPlace DEF BeginPages, StartPage
  <2>2. Order[pc'] >= 4
    BY <2>1, OrderValues
  <2> QED
    BY <2>1, <2>2 DEF Forward
<1> QED
  BY <1>1, <1>2

\* A page is followed by the next one or by the next group.
LEMMA NextPageForward ==
    ASSUME LoopsOK, NextPage, pc \in DOMAIN Order, Order[pc] >= 4, pc' \in DOMAIN Order
    PROVE  Forward
<1>1. page_idx \in Nat
  BY DEF LoopsOK
<1>2. CASE page_idx < total_pages
  <2>1. /\ group' = group /\ page_idx < page_idx'
        /\ pc' \in {"page", "trigger", "trigger_read", "read"}
    BY <1>1, <1>2, TriggersPlace DEF NextPage, StartPage
  <2>2. Order[pc'] >= 4
    BY <2>1, OrderValues
  <2> QED
    BY <2>1, <2>2 DEF Forward
<1>3. CASE ~(page_idx < total_pages)
  BY <1>3, NextGroupForward DEF NextPage, Forward
<1> QED
  BY <1>2, <1>3

\* A command of the fallback is followed by the next one, or by what comes
\* after the page.
LEMMA NextCommandForward ==
    ASSUME LoopsOK, NextCommand, pc \in {"single", "plain"}, pc' \in DOMAIN Order
    PROVE  Forward
<1>1. pc \in DOMAIN Order /\ Order[pc] = 8 /\ Order["single"] = 8
  BY OrderValues
<1>2. CASE item < current.commands
  <2>1. /\ group' = group /\ page_idx' = page_idx /\ item' = item + 1 /\ pc' = "single"
        /\ item \in Nat
    BY <1>2 DEF NextCommand, LoopsOK
  <2>2. Order[pc] = 8 /\ Order[pc'] = 8 /\ item < item'
    BY <1>1, <2>1
  <2> QED
    BY <2>1, <2>2, WithinPageForward
<1>3. CASE ~(item < current.commands)
  BY <1>1, <1>3, NextPageForward DEF NextCommand
<1> QED
  BY <1>2, <1>3

\* A group begins, on its slave or behind a switch to it.
LEMMA BeginGroupForward ==
    ASSUME LoopsOK, BeginGroup, pc \in {"group", "validate", "connecting"},
           pc' \in DOMAIN Order
    PROVE  Forward
<1>1. pc \in DOMAIN Order /\ Order[pc] \in {0, 1} /\ Order["first_page"] = 2
  BY OrderValues
<1>2. CASE current.selector = NoSelector
  <2>1. BeginPages(1) /\ 1 \in Counts \cup {1} /\ Order[pc] < 4
    BY <1>1, <1>2 DEF BeginGroup
  <2> QED
    BY <1>1, <2>1, BeginPagesForward
<1>3. CASE current.selector # NoSelector
  <2>1. group' = group /\ Order[pc'] = 2
    BY <1>1, <1>3 DEF BeginGroup
  <2> QED
    BY <1>1, <2>1 DEF Forward
<1> QED
  BY <1>2, <1>3

\* Each step of a poll goes forward.
LEMMA PollForward ==
    ASSUME LoopsOK, Poll, {pc, pc'} \subseteq DOMAIN Order
    PROVE  Forward
<1>0. /\ pc \in DOMAIN Order /\ pc' \in DOMAIN Order
      /\ page_idx \in Nat /\ item \in Nat
  BY DEF LoopsOK
<1>1. ~StartPoll
  BY <1>0, OrderValues DEF StartPoll
<1>2. CASE SameSlave \/ Validated \/ Reconnected
  BY <1>0, <1>2, BeginGroupForward DEF SameSlave, Validated, Reconnected
<1>3. CASE SwitchSlave \/ ReplaceClient
  <2>1. pc = "group" /\ pc' \in {"validate", "connecting"} /\ group' = group
    BY <1>3 DEF SwitchSlave, ReplaceClient, loops
  <2>2. Order[pc] = 0 /\ Order[pc'] = 1
    BY <2>1, OrderValues
  <2> QED
    BY <2>1, <2>2 DEF Forward
<1>4. ~AwaitRaises /\ ~ReadRaises
  BY <1>0, OrderValues DEF AwaitRaises, ReadRaises
<1>5. CASE FirstPage
  <2>1. pc = "first_page" /\ Order[pc] = 2 /\ Order["count"] = 3
    BY <1>5, OrderValues DEF FirstPage
  <2>2. CASE pc' = "count" /\ group' = group
    BY <2>1, <2>2 DEF Forward
  <2>3. CASE BeginPages(1)
    BY <1>0, <2>1, <2>3, BeginPagesForward
  <2> QED
    BY <1>5, <2>2, <2>3 DEF FirstPage
<1>6. CASE Count
  <2>1. pc = "count" /\ Order[pc] = 3
    BY <1>6, OrderValues DEF Count
  <2>2. \E n \in Counts \cup {1} : BeginPages(n)
    BY <1>6 DEF Count
  <2> QED
    BY <1>0, <2>1, <2>2, BeginPagesForward
<1>7. CASE SwitchPage
  <2>1. /\ pc = "page" /\ pc' \in {"trigger", "trigger_read", "read"}
        /\ group' = group /\ page_idx' = page_idx
    BY <1>7, TriggersPlace DEF SwitchPage, loops
  <2>2. Order[pc] = 4 /\ Order[pc'] \in {5, 6, 7}
    BY <2>1, OrderValues
  <2> QED
    BY <2>1, <2>2, WithinPageForward
<1>8. CASE Trigger
  <2>1. /\ pc = "trigger" /\ group' = group /\ page_idx' = page_idx
        /\ \/ item' = item + 1 /\ pc' = pc
           \/ pc' \in {"trigger_read", "read"}
    BY <1>8 DEF Trigger, ReadGroup
  <2>2. Order[pc] = 5 /\ ((item < item' /\ Order[pc'] = 5) \/ Order[pc'] \in {6, 7})
    BY <1>0, <2>1, OrderValues
  <2> QED
    BY <2>1, <2>2, WithinPageForward
<1>9. CASE TriggerRead
  <2>1. /\ pc = "trigger_read" /\ group' = group /\ page_idx' = page_idx
        /\ \/ item' = item + 1 /\ pc' = pc
           \/ pc' = "read"
    BY <1>9 DEF TriggerRead
  <2>2. Order[pc] = 6 /\ ((item < item' /\ Order[pc'] = 6) \/ Order[pc'] = 7)
    BY <1>0, <2>1, OrderValues
  <2> QED
    BY <2>1, <2>2, WithinPageForward
<1>10. CASE ReadSucceeds
  <2>1. pc = "read" /\ NextPage /\ Order[pc] >= 4
    BY <1>10, OrderValues DEF ReadSucceeds
  <2> QED
    BY <1>0, <2>1, NextPageForward
<1>11. CASE FallBack
  <2>1. group' = group /\ page_idx' = page_idx /\ item' = item
    BY <1>11 DEF FallBack, loops
  <2>2. CASE pc = "read" /\ pc' = "single"
    <3>1. Order[pc] = 7 /\ Order[pc'] = 8
      BY <2>2, OrderValues
    <3> QED
      BY <2>1, <3>1, WithinPageForward
  <2>3. CASE pc = "single" /\ pc' = "plain"
    <3>1. Order[pc] = 8 /\ Order[pc'] = 8
      BY <2>3, OrderValues
    <3> QED
      BY <2>1, <2>3, <3>1, WithinPageForward
  <2> QED
    BY <1>11, <2>2, <2>3 DEF FallBack
<1>12. CASE SingleSucceeds \/ CommandFails
  BY <1>0, <1>12, NextCommandForward DEF SingleSucceeds, CommandFails
<1> QED
  BY <1>1, <1>2, <1>3, <1>4, <1>5, <1>6, <1>7, <1>8, <1>9, <1>10, <1>11, <1>12 DEF Poll

\* A poll never comes back to a place it has left.
THEOREM PollsGoForward == Spec => PollsAdvance
<1>1. TypeOK /\ TypeOK' /\ [Next]_vars
          => [Poll /\ {pc, pc'} \subseteq DOMAIN Order => Before(Place, Place')]_vars
  BY PollForward, ForwardIsLater, TypeOKByParts
<1> QED
  BY <1>1, PollTypeCorrect, PTL DEF Spec, PollsAdvance
=============================================================================
