--------------------------- MODULE RegisterGroups ---------------------------
(***************************************************************************)
(* group_commands() of the register debugger (mqtt_debugger.py): commands  *)
(* sorted by target and register are cut into groups that are read with    *)
(* one MODBUS command each.                                                *)
(*                                                                         *)
(* A step is one iteration of the loop over sorted_commands.  The list is  *)
(* not given beforehand: each step takes any command that may follow in    *)
(* sorting order, so that every sorted list is one behaviour.              *)
(***************************************************************************)
EXTENDS Integers, Sequences, FiniteSets

CONSTANTS
    Registers,     \* register addresses
    Lengths,       \* values of "len"
    Contexts,      \* what a command carries besides its register
    MaxGap,        \* max_gap
    MaxGroupSize,  \* max_group_size
    MaxCommands    \* bound: commands in the list

ASSUME ConstantsAssumption ==
    /\ Registers \subseteq Nat /\ Lengths \subseteq Nat \ {0}
    /\ MaxGap \in Nat /\ MaxGroupSize \in Nat \ {0} /\ MaxCommands \in Nat
\* triggers and trigger_reads stand for get_trigger_key() and
\* get_trigger_read_key(), numbered in their order; trigger_slaves are the
\* slaves of the triggers, which the key leaves out.
ASSUME ContextsAssumption ==
    \A context \in Contexts :
        /\ {"slave", "triggers", "trigger_slaves", "trigger_reads", "selector", "trigger_val"}
               \subseteq DOMAIN context
        /\ context.slave \in Nat /\ context.triggers \in Nat
        /\ context.trigger_reads \in Nat

Commands == [reg : Registers, len : Lengths, ascii : BOOLEAN, in : Contexts]

VARIABLES
    sorted_commands,  \* the commands iterated over so far
    current,          \* index of the first one in current_group, or 0
    groups,           \* the groups so far, as ranges of indices
    done              \* the loop has ended

vars == <<sorted_commands, current, groups, done>>

\* "len" counts bits from 16 on, registers below and for text.
get_num_regs(cmd) ==
    IF ~cmd.ascii /\ cmd.len >= 16 THEN cmd.len \div 16 ELSE cmd.len

End(cmd) == cmd.reg + get_num_regs(cmd)

SortKey(cmd) == <<cmd.in.slave, cmd.in.triggers, cmd.in.trigger_reads, cmd.reg>>

InOrder(c, d) ==
    \/ SortKey(c) = SortKey(d)
    \/ \E i \in 1..4 :
           /\ SortKey(c)[i] < SortKey(d)[i]
           /\ \A j \in 1..(i - 1) : SortKey(c)[j] = SortKey(d)[j]

\* What is compared of two commands; trigger_slaves and trigger_val are not.
SameTarget(c, d) ==
    /\ c.in.slave = d.in.slave
    /\ c.in.triggers = d.in.triggers
    /\ c.in.trigger_reads = d.in.trigger_reads
    /\ c.in.selector = d.in.selector

\* Mutants of Fits: the length of the command is not looked at; a command right
\* behind the group is refused.
FitsByRegister(cmd) ==
    LET first == sorted_commands[current]
        last == sorted_commands[Len(sorted_commands)]
    IN  /\ cmd.reg - End(last) \in 0..MaxGap
        /\ cmd.reg - first.reg <= MaxGroupSize
        /\ SameTarget(cmd, first)
FitsBehindGap(cmd) ==
    LET first == sorted_commands[current]
        last == sorted_commands[Len(sorted_commands)]
    IN  /\ cmd.reg - End(last) \in 1..MaxGap
        /\ End(cmd) - first.reg <= MaxGroupSize
        /\ SameTarget(cmd, first)

\* Gap and size are okay and the targets match.
Fits(cmd) ==
    LET first == sorted_commands[current]
        last == sorted_commands[Len(sorted_commands)]
        gap == cmd.reg - End(last)
        new_group_size == End(cmd) - first.reg
    IN  /\ gap >= 0 /\ gap <= MaxGap
        /\ new_group_size <= MaxGroupSize
        /\ SameTarget(cmd, first)

Init ==
    /\ sorted_commands = <<>>
    /\ current = 0
    /\ groups = <<>>
    /\ done = FALSE

Take(cmd) ==
    /\ ~done
    /\ Len(sorted_commands) < MaxCommands
    /\ sorted_commands # <<>> =>
           InOrder(sorted_commands[Len(sorted_commands)], cmd)
    /\ sorted_commands' = Append(sorted_commands, cmd)
    /\ UNCHANGED done

FirstCommand(cmd) ==
    /\ current = 0
    /\ Take(cmd)
    /\ current' = 1
    /\ UNCHANGED groups

Join(cmd) ==
    /\ current # 0 /\ Fits(cmd)
    /\ Take(cmd)
    /\ UNCHANGED <<current, groups>>

\* Mutants: the new group starts behind the command; it starts empty.
StartGroupLate(cmd) ==
    /\ current # 0 /\ ~Fits(cmd)
    /\ Take(cmd)
    /\ groups' = Append(groups, [first |-> current, last |-> Len(sorted_commands)])
    /\ current' = Len(sorted_commands) + 2
StartGroupTwice(cmd) ==
    /\ current # 0 /\ ~Fits(cmd)
    /\ Take(cmd)
    /\ groups' = Append(groups, [first |-> current, last |-> Len(sorted_commands)])
    /\ UNCHANGED current

StartGroup(cmd) ==
    /\ current # 0 /\ ~Fits(cmd)
    /\ Take(cmd)
    /\ groups' = Append(groups, [first |-> current, last |-> Len(sorted_commands)])
    /\ current' = Len(sorted_commands) + 1

Finish ==
    /\ ~done
    /\ done' = TRUE
    /\ groups' = IF current = 0 THEN groups
                 ELSE Append(groups, [first |-> current, last |-> Len(sorted_commands)])
    /\ UNCHANGED <<sorted_commands, current>>

Next ==
    \/ \E cmd \in Commands : FirstCommand(cmd) \/ Join(cmd) \/ StartGroup(cmd)
    \/ Finish

Spec == Init /\ [][Next]_vars

-----------------------------------------------------------------------------
(* final_groups: the read command of each group.                           *)

start_reg(g) == sorted_commands[g.first].reg

\* The furthest end of a command of the group, or 0.
end_reg(g) ==
    CHOOSE e \in {0} \cup {End(sorted_commands[i]) : i \in g.first..g.last} :
        \A i \in g.first..g.last : End(sorted_commands[i]) <= e

num_regs(g) == end_reg(g) - start_reg(g)

\* The registers written before the read, the values and the slaves they are
\* written to, are those of the first command.
triggers(g) ==
    LET first == sorted_commands[g.first].in
    IN  <<first.triggers, first.trigger_slaves>>

-----------------------------------------------------------------------------
(* Properties.                                                             *)

\* Type invariant.
TypeOK ==
    /\ sorted_commands \in Seq(Commands)
    /\ Len(sorted_commands) <= MaxCommands
    /\ current \in 0..Len(sorted_commands)
    /\ groups \in Seq([first : 1..MaxCommands, last : 1..MaxCommands])
    /\ done \in BOOLEAN

\* Every command is in exactly one group, and the group's read covers all of
\* its registers: the slice of the response is never short.
EveryCommandIsRead ==
    done => \A i \in DOMAIN sorted_commands :
        \E k \in DOMAIN groups :
            /\ i \in groups[k].first..groups[k].last
            /\ \A l \in DOMAIN groups \ {k} :
                   i \notin groups[l].first..groups[l].last
            /\ start_reg(groups[k]) <= sorted_commands[i].reg
            /\ End(sorted_commands[i]) <= start_reg(groups[k]) + num_regs(groups[k])

\* max_group_size bounds every read of several commands.
ReadsAreBounded ==
    done => \A k \in DOMAIN groups :
        groups[k].first < groups[k].last => num_regs(groups[k]) <= MaxGroupSize

\* Commands i to j may be read together: no two overlap or are too far apart,
\* they span no more than the limit, and they have one target.
Readable(i, j) ==
    \/ i = j
    \/ /\ End(sorted_commands[j]) - sorted_commands[i].reg <= MaxGroupSize
       /\ \A k \in i..(j - 1) :
              /\ sorted_commands[k + 1].reg - End(sorted_commands[k]) \in 0..MaxGap
              /\ SameTarget(sorted_commands[k], sorted_commands[k + 1])

\* "To improve polling efficiency": no other way of cutting the sorted list
\* into readable groups needs fewer reads.
FewestReads ==
    done /\ sorted_commands # <<>> =>
        \A cuts \in SUBSET (1..(Len(sorted_commands) - 1)) :
            (\A i, j \in DOMAIN sorted_commands :
                /\ i <= j
                /\ i = 1 \/ (i - 1) \in cuts
                /\ j = Len(sorted_commands) \/ j \in cuts
                /\ \A k \in i..(j - 1) : k \notin cuts
                => Readable(i, j))
            => Len(groups) <= Cardinality(cuts) + 1

\* "Group if gap/size are okay [...] AND triggers match" (mqtt_debugger.py), and
\* "commands with different trigger values go to different groups" (its test):
\* what the group writes is what each of its commands has to be read behind, and
\* its commands have one trigger value.
TriggersMatch ==
    \A k \in DOMAIN groups : \A i, j \in groups[k].first..groups[k].last :
        LET own == sorted_commands[i].in
        IN  /\ <<own.triggers, own.trigger_slaves>> = triggers(groups[k])
            /\ own.trigger_val = sorted_commands[j].in.trigger_val
=============================================================================
