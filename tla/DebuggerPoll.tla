---------------------------- MODULE DebuggerPoll ----------------------------
(***************************************************************************)
(* poll_device_registers() of the register debugger (mqtt_debugger.py),    *)
(* the loop of async_main() around it, and the clients they use.           *)
(*                                                                         *)
(* A step ends at an await.  The station keeps selector registers: what a  *)
(* register holds depends on the page and the category written last.       *)
(***************************************************************************)
EXTENDS Integers, Sequences, FiniteSets

CONSTANTS
    Groups,          \* what group_commands() returns
    Selectors,       \* selector registers of the station
    Values,          \* what they are set to: page numbers and categories
    NoSelector,      \* pagination_selector is None
    Counts,          \* what the page count register may hold
    ReconnectModes,  \* values of --disconnect-on-slave-change
    CryptoModes,     \* whether the cryptographic library is installed
    Faults,          \* faults that may happen
    MaxClients       \* bound: clients made

AllFaults == {
    "fail",    \* a command ends with an error the callers expect
    "eof",     \* a command ends with EOFError
    "decode",  \* a register's data cannot be decoded
    "drop",    \* the link is lost
    "crash"}   \* run() of a client ends with an exception

\* A poll without groups does nothing.
ASSUME GroupsAssumption ==
    /\ Groups # <<>>
    /\ Groups \in Seq([slave : Nat, commands : Nat \ {0},
                       selector : Selectors \cup {NoSelector},
                       triggers : Seq(Selectors \X Values), trigger_reads : Nat])
    /\ NoSelector \notin Selectors
\* No group triggers a register twice or triggers its own page selector.
ASSUME TriggersAssumption ==
    \A g \in DOMAIN Groups : \A i, j \in DOMAIN Groups[g].triggers :
        /\ Groups[g].triggers[i][1] = Groups[g].triggers[j][1] => i = j
        /\ Groups[g].triggers[i][1] # Groups[g].selector
ASSUME PagesAssumption ==
    /\ Counts \subseteq Nat
    /\ \A n \in Counts \cup {1} : 1..n \subseteq Values
ASSUME OtherAssumption ==
    /\ ReconnectModes \subseteq BOOLEAN /\ CryptoModes \subseteq BOOLEAN
    /\ Faults \subseteq AllFaults
    /\ MaxClients \in Nat \ {0}

Clients == 1..MaxClients
\* async_main() makes the first client and keeps it for all polls.
main == 1

VARIABLES
    disconnect_on_slave_change,
    HAS_CRYPTO,
    pc,                 \* the await the program is at, or the loop's head
    group,              \* index of the group
    previous_slave_id,
    total_pages,
    page_idx,
    item,               \* index of the trigger or command
    client,             \* the client of this poll
    task,               \* task[k]: how the task of client k fares
    is_ready,           \* is_ready of client k
    selected,           \* the station's selector registers
    doubted,            \* history: those whose last write ended with an error
    pages,              \* history: total_pages of the groups of this poll
    reports             \* what this poll did about each command and page

vars == <<disconnect_on_slave_change, HAS_CRYPTO, pc, group, previous_slave_id,
          total_pages, page_idx, item, client, task, is_ready, selected, doubted, pages, reports>>

modes == <<disconnect_on_slave_change, HAS_CRYPTO>>
slave == <<modes, previous_slave_id>>
loops == <<group, total_pages, page_idx, item>>
clients == <<client, task, is_ready>>
station == <<selected, doubted>>
history == <<pages, reports>>

Awaits == {"idle", "group", "validate", "connecting", "first_page", "count",
           "page", "trigger", "trigger_read", "read", "single", "plain", "dead"}

current == Groups[group]

\* A future of a running client with a link ends; one of a task that has
\* ended never does.
Answers == task[client] = "running" /\ is_ready[client]

Init ==
    /\ disconnect_on_slave_change \in ReconnectModes /\ HAS_CRYPTO \in CryptoModes
    /\ pc = "idle"
    /\ group = 1 /\ previous_slave_id = 1
    /\ total_pages = 1 /\ page_idx = 1 /\ item = 1
    /\ client = main
    /\ task = [k \in Clients |-> IF k = main THEN "running" ELSE "none"]
    /\ is_ready = [k \in Clients |-> FALSE]
    /\ selected \in [Selectors -> Values]
    /\ doubted = {}
    /\ pages = [g \in DOMAIN Groups |-> 0]
    /\ reports = <<>>

-----------------------------------------------------------------------------
(* Ends of commands.  The errors are those of the client; "eof" is the one *)
(* that is not among the four that the reads expect.                       *)

Fails == Answers /\ Faults \cap {"fail", "eof"} # {}
FailsAsExpected == Answers /\ "fail" \in Faults
FailsOtherwise == Answers /\ "eof" \in Faults

\* A write that ends with an error may have reached the station.
Written(reg, v) ==
    /\ Answers
    /\ selected' = [selected EXCEPT ![reg] = v]
    /\ doubted' = doubted \ {reg}
WriteFails(reg, v) ==
    /\ Fails
    /\ selected' \in {selected, [selected EXCEPT ![reg] = v]}
    /\ doubted' = doubted \cup {reg}

\* The settings under which page p of group g is meant to be read.
Settings(g, p) ==
    {Groups[g].triggers[i] : i \in DOMAIN Groups[g].triggers} \cup
    (IF Groups[g].selector = NoSelector THEN {} ELSE {<<Groups[g].selector, p>>})

\* What the program does about command i: publishes its value, publishes that
\* it is invalid, or only prints that its data cannot be processed.  shown is
\* what the group's selectors are at, without those whose last write ended with
\* an error.
Report(i, outcome) ==
    [group |-> group, page |-> page_idx, command |-> i, outcome |-> outcome,
     shown |-> {<<s[1], selected[s[1]]>> :
                    s \in {t \in Settings(group, page_idx) : t[1] \notin doubted}}]
Processed == IF "decode" \in Faults THEN {"value", "undecodable"} ELSE {"value"}

-----------------------------------------------------------------------------
(* The loops: over groups, pages, triggers and commands.                   *)

NextGroup ==
    IF group < Len(Groups)
    THEN group' = group + 1 /\ pc' = "group"
    ELSE group' = 1 /\ pc' = "idle"

ReadGroup == IF current.trigger_reads > 0 THEN "trigger_read" ELSE "read"
Triggers == IF current.triggers # <<>> THEN "trigger" ELSE ReadGroup
StartPage(n) == IF n > 1 THEN "page" ELSE Triggers

BeginPages(n) ==
    /\ total_pages' = n
    /\ page_idx' = 1
    /\ pages' = [pages EXCEPT ![group] = n]
    /\ IF n = 0 THEN NextGroup ELSE pc' = StartPage(n) /\ UNCHANGED group

\* Mutants: one page too many; the last page is not written to the selector.
NextPageInclusive ==
    IF page_idx <= total_pages
    THEN page_idx' = page_idx + 1 /\ pc' = StartPage(total_pages) /\ UNCHANGED group
    ELSE NextGroup /\ UNCHANGED page_idx
NextPageUnwritten ==
    IF page_idx < total_pages
    THEN page_idx' = page_idx + 1 /\ pc' = Triggers /\ UNCHANGED group
    ELSE NextGroup /\ UNCHANGED page_idx

NextPage ==
    IF page_idx < total_pages
    THEN page_idx' = page_idx + 1 /\ pc' = StartPage(total_pages) /\ UNCHANGED group
    ELSE NextGroup /\ UNCHANGED page_idx

\* Mutant: a command that failed ends the fallback.
NextCommandGivesUp ==
    IF item < current.commands /\ reports'[Len(reports')].outcome # "invalid"
    THEN item' = item + 1 /\ pc' = "single" /\ UNCHANGED <<group, page_idx>>
    ELSE item' = 1 /\ NextPage

NextCommand ==
    IF item < current.commands
    THEN item' = item + 1 /\ pc' = "single" /\ UNCHANGED <<group, page_idx>>
    ELSE item' = 1 /\ NextPage

BeginGroup ==
    /\ previous_slave_id' = current.slave
    /\ IF current.selector = NoSelector
       THEN BeginPages(1)
       ELSE pc' = "first_page" /\ UNCHANGED <<group, total_pages, page_idx, pages>>
    /\ UNCHANGED <<modes, item, station, reports>>

-----------------------------------------------------------------------------
(* async_main() starts a poll, poll_device_registers() goes to a slave.    *)

StartPoll ==
    /\ pc = "idle" /\ is_ready[main]
    /\ client' = main
    /\ previous_slave_id' = 1
    /\ pages' = [g \in DOMAIN Groups |-> 0]
    /\ reports' = <<>>
    /\ pc' = "group"
    /\ UNCHANGED <<modes, loops, task, is_ready, station>>

SameSlave ==
    /\ pc = "group" /\ current.slave = previous_slave_id
    /\ BeginGroup
    /\ UNCHANGED clients

SwitchSlave ==
    /\ pc = "group" /\ current.slave # previous_slave_id
    /\ ~disconnect_on_slave_change
    /\ pc' = "validate"
    /\ UNCHANGED <<loops, slave, clients, station, history>>

\* Whatever the validation read ends with is ignored.
Validated ==
    /\ pc = "validate" /\ Answers
    /\ BeginGroup
    /\ UNCHANGED clients

\* The task is cancelled and awaited; a new client is made and started.
ReplaceClient ==
    /\ pc = "group" /\ current.slave # previous_slave_id
    /\ disconnect_on_slave_change
    /\ task[client] # "crashed"
    /\ \E new \in Clients :
           /\ task[new] = "none" /\ \A k \in Clients : k < new => task[k] # "none"
           /\ client' = new
           /\ task' = [task EXCEPT ![client] = "cancelled", ![new] = "running"]
    /\ pc' = "connecting"
    /\ UNCHANGED <<loops, slave, is_ready, station, history>>

\* Awaiting a task that has ended with an exception raises it.
AwaitRaises ==
    /\ pc = "group" /\ current.slave # previous_slave_id
    /\ disconnect_on_slave_change
    /\ task[client] = "crashed"
    /\ pc' = "dead"
    /\ UNCHANGED <<loops, slave, clients, station, history>>

Reconnected ==
    /\ pc = "connecting" /\ is_ready[client]
    /\ BeginGroup
    /\ UNCHANGED clients

-----------------------------------------------------------------------------
(* Pages and triggers.                                                     *)

\* Any error of the discovery of pages leaves one page.
FirstPage ==
    /\ pc = "first_page"
    /\ \/ Written(current.selector, 1) /\ pc' = "count"
          /\ UNCHANGED <<group, total_pages, page_idx, pages>>
       \/ WriteFails(current.selector, 1) /\ BeginPages(1)
    /\ UNCHANGED <<slave, item, clients, reports>>

\* Mutant: after a failed count the discovery starts again.
CountAgain ==
    /\ pc = "count"
    /\ \/ Answers /\ \E n \in Counts : BeginPages(n)
       \/ Fails /\ pc' = "first_page" /\ UNCHANGED <<group, total_pages, page_idx, pages>>
    /\ UNCHANGED <<slave, item, clients, station, reports>>

Count ==
    /\ pc = "count"
    /\ \/ Answers /\ \E n \in Counts : BeginPages(n)
       \/ Fails /\ BeginPages(1)
    /\ UNCHANGED <<slave, item, clients, station, reports>>

SwitchPage ==
    /\ pc = "page"
    /\ \/ Written(current.selector, page_idx)
       \/ WriteFails(current.selector, page_idx)
    /\ pc' = Triggers
    /\ UNCHANGED <<loops, slave, clients, history>>

Trigger ==
    /\ pc = "trigger"
    /\ LET t == current.triggers[item]
       IN  Written(t[1], t[2]) \/ WriteFails(t[1], t[2])
    /\ IF item < Len(current.triggers)
       THEN item' = item + 1 /\ UNCHANGED pc
       ELSE item' = 1 /\ pc' = ReadGroup
    /\ UNCHANGED <<group, slave, total_pages, page_idx, clients, history>>

\* The data and the errors of these reads are discarded.
TriggerRead ==
    /\ pc = "trigger_read" /\ Answers
    /\ IF item < current.trigger_reads
       THEN item' = item + 1 /\ UNCHANGED pc
       ELSE item' = 1 /\ pc' = "read"
    /\ UNCHANGED <<group, slave, total_pages, page_idx, clients, station, history>>

-----------------------------------------------------------------------------
(* Reads.                                                                  *)

ReadSucceeds ==
    /\ pc = "read" /\ Answers
    /\ \E outcome \in [1..current.commands -> Processed] :
           reports' = reports \o [i \in 1..current.commands |-> Report(i, outcome[i])]
    /\ NextPage
    /\ UNCHANGED <<slave, total_pages, item, clients, station, pages>>

FallBack ==
    /\ \/ pc = "read" /\ pc' = "single"
       \/ pc = "single" /\ HAS_CRYPTO /\ pc' = "plain"
    /\ FailsAsExpected
    /\ UNCHANGED <<loops, slave, clients, station, history>>

\* The program ends with the exception.
ReadRaises ==
    /\ pc \in {"read", "single"} /\ FailsOtherwise
    /\ pc' = "dead"
    /\ UNCHANGED <<loops, slave, clients, station, history>>

SingleSucceeds ==
    /\ pc \in {"single", "plain"} /\ Answers
    /\ \E outcome \in Processed : reports' = Append(reports, Report(item, outcome))
    /\ NextCommand
    /\ UNCHANGED <<slave, total_pages, clients, station, pages>>

\* There is no other way to read the command.
CommandFails ==
    /\ \/ pc = "plain" /\ Fails
       \/ pc = "single" /\ ~HAS_CRYPTO /\ FailsAsExpected
    /\ reports' = Append(reports, Report(item, "invalid"))
    /\ NextCommand
    /\ UNCHANGED <<slave, total_pages, clients, station, pages>>

-----------------------------------------------------------------------------
(* The clients.  The station accepts one link at a time; what run() leaves *)
(* behind when it ends, nobody changes any more.                           *)

Connect(k) ==
    /\ task[k] = "running" /\ ~is_ready[k]
    /\ \A j \in Clients : task[j] = "running" => ~is_ready[j]
    /\ is_ready' = [is_ready EXCEPT ![k] = TRUE]
    /\ UNCHANGED <<client, task>>

Drop(k) ==
    /\ "drop" \in Faults
    /\ task[k] = "running" /\ is_ready[k]
    /\ is_ready' = [is_ready EXCEPT ![k] = FALSE]
    /\ UNCHANGED <<client, task>>

Crash(k) ==
    /\ "crash" \in Faults
    /\ task[k] = "running"
    /\ task' = [task EXCEPT ![k] = "crashed"]
    /\ UNCHANGED <<client, is_ready>>

ClientStep ==
    /\ \E k \in Clients : Connect(k) \/ Drop(k) \/ Crash(k)
    /\ UNCHANGED <<pc, loops, slave, station, history>>

Poll ==
    \/ StartPoll \/ SameSlave \/ SwitchSlave \/ Validated
    \/ ReplaceClient \/ AwaitRaises \/ Reconnected
    \/ FirstPage \/ Count \/ SwitchPage \/ Trigger \/ TriggerRead
    \/ ReadSucceeds \/ FallBack \/ ReadRaises \/ SingleSucceeds \/ CommandFails

Next == Poll \/ ClientStep

Spec == Init /\ [][Next]_vars

\* The event loop runs the program; a client that runs connects if the station
\* has no other link; one that is ready again and again answers.
FairSpec ==
    /\ Spec
    /\ SF_vars(Poll)
    /\ \A k \in Clients :
           WF_vars(Connect(k)
                   /\ UNCHANGED <<pc, loops, slave, station, history>>)

-----------------------------------------------------------------------------
(* Properties.                                                             *)

\* Type invariant; the indices stay within their loops.
TypeOK ==
    /\ disconnect_on_slave_change \in ReconnectModes /\ HAS_CRYPTO \in CryptoModes
    /\ pc \in Awaits
    /\ group \in DOMAIN Groups
    /\ previous_slave_id \in Nat
    /\ total_pages \in Counts \cup {1}
    /\ page_idx \in Nat \ {0} /\ (page_idx = 1 \/ page_idx <= total_pages)
    /\ item \in Nat \ {0}
    /\ client \in Clients
    /\ task \in [Clients -> {"none", "running", "cancelled", "crashed"}]
    /\ is_ready \in [Clients -> BOOLEAN]
    /\ selected \in [Selectors -> Values]
    /\ doubted \subseteq Selectors
    /\ pages \in [DOMAIN Groups -> Counts \cup {0, 1}]
    /\ reports \in Seq([group : DOMAIN Groups, page : Nat, command : Nat,
                        outcome : {"value", "invalid", "undecodable"},
                        shown : SUBSET (Selectors \X Values)])

\* When a poll is over, each command of each group has been dealt with once
\* for each page, whichever reads failed.
EveryCommandIsReported ==
    pc = "idle" =>
        \A g \in DOMAIN Groups :
            \A p \in 1..pages[g], i \in 1..Groups[g].commands :
                Cardinality({k \in DOMAIN reports :
                    /\ reports[k].group = g /\ reports[k].page = p
                    /\ reports[k].command = i}) = 1

\* A value is published as that of the page and the category that the station
\* showed when it was read, unless the last write to that selector ended with
\* an error (which is only printed).
ShowsWhatWasSelected ==
    \A k \in DOMAIN reports : reports[k].outcome = "value" =>
        reports[k].shown \subseteq Settings(reports[k].group, reports[k].page)

\* The place in the loops: group, page, await, and, at a command, how it is read.
Order ==
    [group |-> 0, validate |-> 1, connecting |-> 1, first_page |-> 2, count |-> 3,
     page |-> 4, trigger |-> 5, trigger_read |-> 6, read |-> 7, single |-> 8, plain |-> 8]
Place ==
    <<group, IF Order[pc] < 4 THEN 0 ELSE page_idx, Order[pc], item,
      IF pc = "plain" THEN 1 ELSE 0>>
Before(a, b) == \E i \in DOMAIN a : a[i] < b[i] /\ \A j \in 1..(i - 1) : a[j] = b[j]

\* A poll never comes back to a place it has left, whichever commands fail:
\* fallbacks and page counts form no cycle, and the place is bounded, so that a
\* poll ends after so many awaits.
PollsAdvance ==
    [][Poll /\ {pc, pc'} \subseteq DOMAIN Order => Before(Place, Place')]_vars

\* Without an exception that ends a task or the program, there is another poll.
Undisturbed == \A k \in Clients : pc # "dead" /\ task[k] # "crashed"
PollsGoOn ==
    (~disconnect_on_slave_change /\ []Undisturbed) => []<>(pc = "idle")

\* --disconnect-on-slave-change is "slow but reliable".
ReconnectingPollsGoOn ==
    (disconnect_on_slave_change /\ []Undisturbed) => []<>(pc = "idle")
=============================================================================
