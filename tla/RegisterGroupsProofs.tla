------------------------ MODULE RegisterGroupsProofs ------------------------
(***************************************************************************)
(* Theorems about RegisterGroups: whatever the registers, the lengths, the *)
(* limits and the number of commands, every command is read in exactly one *)
(* group, whose read covers it and keeps the limit.                        *)
(***************************************************************************)
EXTENDS RegisterGroups, TLAPS

\* Commands first to last of cmds make a group: what they share, that their
\* registers begin behind the first and end before the last, and its size.
GoodGroup(cmds, first, last) ==
    /\ \A i \in first..last :
           /\ SameTarget(cmds[i], cmds[first])
           /\ cmds[first].reg <= cmds[i].reg
           /\ End(cmds[i]) <= End(cmds[last])
    /\ first < last => End(cmds[last]) - cmds[first].reg <= MaxGroupSize

\* The groups follow each other, and current_group is behind them.
Shape ==
    /\ current = 0 <=> sorted_commands = <<>>
    /\ \A k \in DOMAIN groups :
           /\ groups[k].first <= groups[k].last
           /\ groups[k].last <= Len(sorted_commands)
           /\ ~done => groups[k].last < current
    /\ \A k, l \in DOMAIN groups : k < l => groups[k].last < groups[l].first

\* No command is lost between the groups.
Cover ==
    \A i \in DOMAIN sorted_commands :
        \/ ~done /\ current <= i
        \/ \E k \in DOMAIN groups : i \in groups[k].first..groups[k].last

Good ==
    /\ \A k \in DOMAIN groups :
           GoodGroup(sorted_commands, groups[k].first, groups[k].last)
    /\ current # 0 => GoodGroup(sorted_commands, current, Len(sorted_commands))

IInv == TypeOK /\ Shape /\ Cover /\ Good

-----------------------------------------------------------------------------
(* Facts about commands and lists.                                         *)

\* A command is at a register and takes a number of them.
LEMMA CommandNumbers ==
    ASSUME NEW cmd \in Commands
    PROVE  cmd.reg \in Nat /\ get_num_regs(cmd) \in Nat /\ End(cmd) \in Nat
<1>1. cmd.reg \in Nat /\ cmd.len \in Nat
  BY ConstantsAssumption DEF Commands
<1>2. get_num_regs(cmd) \in Nat
  BY <1>1 DEF get_num_regs
<1> QED
  BY <1>1, <1>2 DEF End

\* An element of a sequence is an element of its set.
LEMMA SeqElement ==
    ASSUME NEW S, NEW s \in Seq(S), NEW k \in DOMAIN s
    PROVE  s[k] \in S
OBVIOUS

\* A command that is appended changes no group before it.
LEMMA GoodGroupStays ==
    ASSUME NEW cmds \in Seq(Commands), NEW cmd \in Commands,
           NEW first \in Nat \ {0}, NEW last \in Nat, last <= Len(cmds),
           first <= last,
           GoodGroup(cmds, first, last)
    PROVE  GoodGroup(Append(cmds, cmd), first, last)
<1>1. \A i \in first..last : Append(cmds, cmd)[i] = cmds[i]
  OBVIOUS
<1> QED
  BY <1>1 DEF GoodGroup

\* A command alone is a group.
LEMMA SingleGroup ==
    ASSUME NEW cmds \in Seq(Commands), NEW cmd \in Commands
    PROVE  GoodGroup(Append(cmds, cmd), Len(cmds) + 1, Len(cmds) + 1)
<1>1. Append(cmds, cmd)[Len(cmds) + 1] = cmd
  OBVIOUS
<1>2. \A i \in (Len(cmds) + 1)..(Len(cmds) + 1) : i = Len(cmds) + 1
  OBVIOUS
<1> QED
  BY <1>1, <1>2, CommandNumbers DEF GoodGroup, SameTarget

\* A command that fits extends the group at the end of the list.
LEMMA GroupExtends ==
    ASSUME IInv, current # 0, NEW cmd \in Commands, Fits(cmd)
    PROVE  GoodGroup(Append(sorted_commands, cmd), current, Len(sorted_commands) + 1)
<1> DEFINE n == Len(sorted_commands)
           longer == Append(sorted_commands, cmd)
           first == sorted_commands[current]
           last == sorted_commands[n]
<1>1. sorted_commands \in Seq(Commands) /\ n \in Nat /\ current \in 1..n
  BY DEF IInv, TypeOK
<1>2. /\ \A i \in 1..n : longer[i] = sorted_commands[i] /\ sorted_commands[i] \in Commands
      /\ longer[n + 1] = cmd
  BY <1>1
<1>3. /\ cmd.reg - End(last) >= 0
      /\ End(cmd) - first.reg <= MaxGroupSize
      /\ SameTarget(cmd, first)
  BY DEF Fits
<1>4. GoodGroup(sorted_commands, current, n)
  BY DEF IInv, Good
<1>5. /\ cmd.reg \in Nat /\ End(cmd) \in Nat /\ cmd.reg <= End(cmd)
      /\ \A i \in 1..n : sorted_commands[i].reg \in Nat /\ End(sorted_commands[i]) \in Nat
                         /\ sorted_commands[i].reg <= End(sorted_commands[i])
  BY <1>2, CommandNumbers DEF End
<1>6. End(last) <= End(cmd) /\ first.reg <= cmd.reg
  <2>1. first.reg <= End(first) /\ End(first) <= End(last)
    BY <1>1, <1>4, <1>5 DEF GoodGroup
  <2> QED
    BY <2>1, <1>1, <1>3, <1>5
<1>7. ASSUME NEW i \in current..(n + 1)
      PROVE  /\ SameTarget(longer[i], longer[current])
             /\ longer[current].reg <= longer[i].reg
             /\ End(longer[i]) <= End(longer[n + 1])
  <2>1. CASE i = n + 1
    BY <2>1, <1>1, <1>2, <1>3, <1>5, <1>6
  <2>2. CASE i \in current..n
    <3>1. /\ SameTarget(sorted_commands[i], first)
          /\ first.reg <= sorted_commands[i].reg
          /\ End(sorted_commands[i]) <= End(last)
      BY <2>2, <1>4 DEF GoodGroup
    <3>2. i \in 1..n /\ n \in 1..n
      BY <2>2, <1>1
    <3> QED
      BY SMTT(30), <3>1, <3>2, <1>1, <1>2, <1>5, <1>6
  <2> QED
    BY <1>1, <2>1, <2>2
<1> QED
  BY <1>1, <1>2, <1>3, <1>7 DEF GoodGroup

-----------------------------------------------------------------------------
(* The invariant.                                                          *)

\* The invariant holds at the start.
LEMMA InitIInv == Init => IInv
<1> SUFFICES ASSUME Init PROVE IInv
  OBVIOUS
<1>1. /\ sorted_commands = <<>> /\ Len(sorted_commands) = 0 /\ current = 0
      /\ groups = <<>> /\ DOMAIN groups = {} /\ done = FALSE
  BY DEF Init
<1>2. sorted_commands \in Seq(Commands)
  BY <1>1
<1>3. groups \in Seq([first : 1..MaxCommands, last : 1..MaxCommands])
  BY <1>1
<1>4. TypeOK
  <2>1. Len(sorted_commands) <= MaxCommands
    BY <1>1, ConstantsAssumption
  <2>2. 0 \in 0..0
    OBVIOUS
  <2>3. current \in 0..Len(sorted_commands)
    BY <1>1, <2>2
  <2>4. done \in BOOLEAN
    BY <1>1
  <2> QED
    BY <1>2, <1>3, <2>1, <2>3, <2>4 DEF TypeOK
<1>5. Shape /\ Cover /\ Good
  BY <1>1 DEF Shape, Cover, Good
<1> QED
  BY <1>4, <1>5 DEF IInv

\* What TypeOK says of the lists, as facts about their elements.
LEMMA Elements ==
    ASSUME IInv
    PROVE  /\ sorted_commands \in Seq(Commands)
           /\ Len(sorted_commands) \in Nat
           /\ groups \in Seq([first : 1..MaxCommands, last : 1..MaxCommands])
           /\ current \in 0..Len(sorted_commands)
           /\ DOMAIN groups = 1..Len(groups) /\ Len(groups) \in Nat
           /\ \A k \in DOMAIN groups :
                  /\ groups[k].first \in Nat \ {0} /\ groups[k].last \in Nat
                  /\ groups[k].first <= groups[k].last
                  /\ groups[k].last <= Len(sorted_commands)
<1>1. /\ sorted_commands \in Seq(Commands)
      /\ groups \in Seq([first : 1..MaxCommands, last : 1..MaxCommands])
      /\ current \in 0..Len(sorted_commands)
  BY DEF IInv, TypeOK
<1>2. DOMAIN groups = 1..Len(groups) /\ Len(groups) \in Nat
  BY <1>1
<1>3. ASSUME NEW k \in DOMAIN groups
      PROVE  groups[k].first \in Nat \ {0} /\ groups[k].last \in Nat
  <2>1. groups[k] \in [first : 1..MaxCommands, last : 1..MaxCommands]
    BY <1>1, SeqElement
  <2> QED
    BY <2>1, ConstantsAssumption
<1> QED
  BY <1>1, <1>2, <1>3 DEF IInv, Shape

\* Groups that are finished stay what they are when a command is appended.
LEMMA GroupsStay ==
    ASSUME IInv, NEW cmd \in Commands
    PROVE  \A k \in DOMAIN groups :
               GoodGroup(Append(sorted_commands, cmd), groups[k].first, groups[k].last)
<1> SUFFICES ASSUME NEW k \in DOMAIN groups
             PROVE  GoodGroup(Append(sorted_commands, cmd), groups[k].first, groups[k].last)
  OBVIOUS
<1>1. GoodGroup(sorted_commands, groups[k].first, groups[k].last)
  BY DEF IInv, Good
<1> QED
  BY <1>1, Elements, GoodGroupStays

\* The first command begins the first group.
LEMMA FirstCommandIInv ==
    ASSUME IInv, NEW cmd \in Commands, FirstCommand(cmd)
    PROVE  IInv'
<1>1. /\ current = 0 /\ sorted_commands = <<>> /\ Len(sorted_commands) = 0
      /\ sorted_commands' = Append(sorted_commands, cmd)
      /\ Len(sorted_commands') = 1 /\ current' = 1 /\ groups' = groups
      /\ done' = done /\ done = FALSE /\ MaxCommands >= 1
  BY ConstantsAssumption DEF IInv, Shape, TypeOK, FirstCommand, Take
<1>2. DOMAIN groups = {}
  BY <1>1, Elements
<1>3. TypeOK'
  BY <1>1 DEF IInv, TypeOK
<1>4. Shape'
  BY <1>1, <1>2, Elements DEF Shape
<1>5. Cover'
  BY <1>1 DEF Cover
<1>6. Good'
  <2>1. GoodGroup(Append(sorted_commands, cmd), Len(sorted_commands) + 1,
                  Len(sorted_commands) + 1)
    BY Elements, SingleGroup
  <2>2. Len(sorted_commands) + 1 = 1
    BY <1>1
  <2>3. GoodGroup(sorted_commands', current', Len(sorted_commands'))
    BY <2>1, <2>2, <1>1
  <2> QED
    BY <2>3, <1>1, <1>2 DEF Good, GoodGroup, SameTarget
<1> QED
  BY <1>3, <1>4, <1>5, <1>6 DEF IInv

\* A command that joins the current group leaves the others.
LEMMA JoinIInv ==
    ASSUME IInv, NEW cmd \in Commands, Join(cmd)
    PROVE  IInv'
<1> DEFINE n == Len(sorted_commands)
<1>1. /\ current # 0 /\ Fits(cmd)
      /\ sorted_commands' = Append(sorted_commands, cmd)
      /\ current' = current /\ groups' = groups
      /\ done' = done /\ done = FALSE /\ n < MaxCommands
  BY DEF IInv, TypeOK, Join, Take
<1>2. n \in Nat /\ Len(sorted_commands') = n + 1 /\ sorted_commands' \in Seq(Commands)
  BY <1>1, Elements
<1>3. TypeOK'
  BY <1>1, <1>2, ConstantsAssumption DEF IInv, TypeOK
<1>4. Shape'
  <2>1. sorted_commands' # <<>> /\ \A k \in DOMAIN groups : groups[k].last <= n + 1
    BY <1>2, Elements
  <2> QED
    BY <2>1, <1>1, <1>2 DEF IInv, Shape
<1>5. Cover'
  <2>1. \A i \in DOMAIN sorted_commands' : i \in DOMAIN sorted_commands \/ current <= i
    BY <1>2, Elements
  <2> QED
    BY <2>1, <1>1 DEF IInv, Cover
<1>6. Good'
  BY <1>1, <1>2, GroupsStay, GroupExtends DEF Good, GoodGroup
<1> QED
  BY <1>3, <1>4, <1>5, <1>6 DEF IInv

\* The current group, put behind the others, keeps them apart and complete.
LEMMA CurrentIsAppended ==
    ASSUME IInv, current # 0, ~done,
           NEW more, more = Append(groups, [first |-> current, last |-> Len(sorted_commands)])
    PROVE  /\ more \in Seq([first : 1..MaxCommands, last : 1..MaxCommands])
           /\ \A k \in DOMAIN more :
                  /\ more[k].first <= more[k].last
                  /\ more[k].last <= Len(sorted_commands)
                  /\ GoodGroup(sorted_commands, more[k].first, more[k].last)
           /\ \A k, l \in DOMAIN more : k < l => more[k].last < more[l].first
           /\ \A i \in DOMAIN sorted_commands : \E k \in DOMAIN more :
                  i \in more[k].first..more[k].last
<1> DEFINE n == Len(sorted_commands)
           m == Len(groups)
           new == [first |-> current, last |-> n]
<1>1. /\ n \in Nat /\ current \in 1..n /\ n <= MaxCommands /\ m \in Nat
      /\ DOMAIN sorted_commands = 1..n
  BY Elements DEF IInv, TypeOK
<1>2. new \in [first : 1..MaxCommands, last : 1..MaxCommands]
  BY <1>1, ConstantsAssumption
<1>3. /\ more \in Seq([first : 1..MaxCommands, last : 1..MaxCommands])
      /\ DOMAIN more = 1..(m + 1)
      /\ \A k \in 1..m : more[k] = groups[k]
      /\ more[m + 1] = new
  BY <1>1, <1>2, Elements
<1>4. DOMAIN groups = 1..m
  BY Elements
<1>5. \A k \in DOMAIN more : k \in DOMAIN groups \/ k = m + 1
  BY <1>1, <1>3, <1>4
<1>6. /\ \A k \in DOMAIN groups : more[k] = groups[k] /\ k \in DOMAIN more
      /\ m + 1 \in DOMAIN more /\ m + 1 \notin DOMAIN groups
      /\ more[m + 1].first = current /\ more[m + 1].last = n
  BY <1>1, <1>3, <1>4
<1>7. ASSUME NEW k \in DOMAIN more
      PROVE  /\ more[k].first <= more[k].last
             /\ more[k].last <= n
             /\ GoodGroup(sorted_commands, more[k].first, more[k].last)
  <2>1. CASE k \in DOMAIN groups
    BY <2>1, <1>6 DEF IInv, Shape, Good
  <2>2. CASE k = m + 1
    BY <2>2, <1>1, <1>6 DEF IInv, Good
  <2> QED
    BY <2>1, <2>2, <1>5
<1>8. ASSUME NEW k \in DOMAIN more, NEW l \in DOMAIN more, k < l
      PROVE  more[k].last < more[l].first
  <2>1. k \in DOMAIN groups
    BY <1>1, <1>3, <1>4, <1>8
  <2>2. CASE l \in DOMAIN groups
    BY <2>1, <2>2, <1>6, <1>8 DEF IInv, Shape
  <2>3. CASE l = m + 1
    BY <2>1, <2>3, <1>6 DEF IInv, Shape
  <2> QED
    BY <2>2, <2>3, <1>5
<1>9. ASSUME NEW i \in DOMAIN sorted_commands
      PROVE  \E k \in DOMAIN more : i \in more[k].first..more[k].last
  <2>1. CASE current <= i
    BY <2>1, <1>1, <1>6
  <2>2. CASE \E k \in DOMAIN groups : i \in groups[k].first..groups[k].last
    BY <2>2, <1>6
  <2> QED
    BY <2>1, <2>2 DEF IInv, Cover
<1> QED
  BY <1>3, <1>7, <1>8, <1>9

\* A command that does not fit ends the current group and begins the next.
LEMMA StartGroupIInv ==
    ASSUME IInv, NEW cmd \in Commands, StartGroup(cmd)
    PROVE  IInv'
<1> DEFINE n == Len(sorted_commands)
<1>1. /\ current # 0 /\ current' = n + 1
      /\ sorted_commands' = Append(sorted_commands, cmd)
      /\ groups' = Append(groups, [first |-> current, last |-> n])
      /\ done' = done /\ done = FALSE /\ n < MaxCommands
  BY DEF IInv, TypeOK, StartGroup, Take
<1>2. /\ n \in Nat /\ Len(sorted_commands') = n + 1 /\ sorted_commands' \in Seq(Commands)
      /\ sorted_commands \in Seq(Commands)
      /\ DOMAIN sorted_commands' = 1..(n + 1) /\ DOMAIN sorted_commands = 1..n
  BY <1>1, Elements
<1>3. /\ groups' \in Seq([first : 1..MaxCommands, last : 1..MaxCommands])
      /\ \A k \in DOMAIN groups' :
             /\ groups'[k].first <= groups'[k].last
             /\ groups'[k].last <= n
             /\ GoodGroup(sorted_commands, groups'[k].first, groups'[k].last)
      /\ \A k, l \in DOMAIN groups' : k < l => groups'[k].last < groups'[l].first
      /\ \A i \in DOMAIN sorted_commands : \E k \in DOMAIN groups' :
             i \in groups'[k].first..groups'[k].last
  BY <1>1, CurrentIsAppended
<1>4. \A k \in DOMAIN groups' : groups'[k].first \in Nat \ {0} /\ groups'[k].last \in Nat
  <2> SUFFICES ASSUME NEW k \in DOMAIN groups'
               PROVE  groups'[k].first \in Nat \ {0} /\ groups'[k].last \in Nat
    OBVIOUS
  <2>1. groups'[k] \in [first : 1..MaxCommands, last : 1..MaxCommands]
    BY <1>3, SeqElement
  <2> QED
    BY <2>1, ConstantsAssumption
<1>5. TypeOK'
  <2>1. current' \in 0..Len(sorted_commands') /\ Len(sorted_commands') <= MaxCommands
    BY <1>1, <1>2, ConstantsAssumption
  <2> QED
    BY <2>1, <1>1, <1>2, <1>3 DEF TypeOK
<1>6. Shape'
  <2>1. ASSUME NEW k \in DOMAIN groups'
        PROVE  /\ groups'[k].first <= groups'[k].last
               /\ groups'[k].last <= n + 1
               /\ groups'[k].last < n + 1
    <3>1. groups'[k].first <= groups'[k].last /\ groups'[k].last <= n
      BY <1>3
    <3>2. groups'[k].last \in Nat
      BY <1>4
    <3> QED
      BY <3>1, <3>2, <1>2
  <2>2. current' # 0 /\ sorted_commands' # <<>>
    BY <1>1, <1>2
  <2>3. \A k, l \in DOMAIN groups' : k < l => groups'[k].last < groups'[l].first
    BY <1>3
  <2>4. Len(sorted_commands') = n + 1 /\ current' = n + 1
    BY <1>1, <1>2
  <2> HIDE DEF n
  <2> QED
    BY <2>1, <2>2, <2>3, <2>4 DEF Shape
<1>7. Cover'
  <2>1. \A i \in DOMAIN sorted_commands' : i \in DOMAIN sorted_commands \/ current' <= i
    BY <1>1, <1>2
  <2> QED
    BY <2>1, <1>1, <1>3 DEF Cover
<1>8. Good'
  <2>1. ASSUME NEW k \in DOMAIN groups'
        PROVE  GoodGroup(Append(sorted_commands, cmd), groups'[k].first, groups'[k].last)
    BY <1>2, <1>3, <1>4, GoodGroupStays
  <2>2. GoodGroup(Append(sorted_commands, cmd), n + 1, n + 1)
    BY <1>2, SingleGroup
  <2> QED
    BY <2>1, <2>2, <1>1, <1>2 DEF Good, GoodGroup
<1> QED
  BY <1>5, <1>6, <1>7, <1>8 DEF IInv

\* At the end the current group is put behind the others.
LEMMA FinishIInv ==
    ASSUME IInv, Finish
    PROVE  IInv'
<1> DEFINE n == Len(sorted_commands)
<1>1. /\ sorted_commands' = sorted_commands /\ current' = current
      /\ done = FALSE /\ done' = TRUE
  BY DEF IInv, TypeOK, Finish
<1>2. TypeOK' /\ Shape' /\ Cover' /\ Good'
  <2>1. CASE current = 0
    <3>1. groups' = groups /\ DOMAIN sorted_commands = {}
      BY <2>1 DEF Finish, IInv, Shape
    <3>2. TypeOK'
      BY <3>1, <1>1 DEF IInv, TypeOK
    <3> QED
      BY <2>1, <3>1, <3>2, <1>1 DEF IInv, Shape, Cover, Good
  <2>2. CASE current # 0
    <3>1. groups' = Append(groups, [first |-> current, last |-> n])
      BY <2>2 DEF Finish
    <3>2. /\ groups' \in Seq([first : 1..MaxCommands, last : 1..MaxCommands])
          /\ \A k \in DOMAIN groups' :
                 /\ groups'[k].first <= groups'[k].last
                 /\ groups'[k].last <= n
                 /\ GoodGroup(sorted_commands, groups'[k].first, groups'[k].last)
          /\ \A k, l \in DOMAIN groups' : k < l => groups'[k].last < groups'[l].first
          /\ \A i \in DOMAIN sorted_commands : \E k \in DOMAIN groups' :
                 i \in groups'[k].first..groups'[k].last
      BY <2>2, <3>1, <1>1, CurrentIsAppended
    <3>3. TypeOK'
      BY <3>2, <1>1 DEF IInv, TypeOK
    <3>4. Shape' /\ Cover'
      BY <3>2, <1>1 DEF IInv, Shape, Cover
    <3>5. Good'
      BY <3>2, <1>1 DEF IInv, Good, GoodGroup
    <3> QED
      BY <3>3, <3>4, <3>5
  <2> QED
    BY <2>1, <2>2
<1> QED
  BY <1>2 DEF IInv

\* Every step keeps the invariant.
LEMMA NextIInv == IInv /\ [Next]_vars => IInv'
<1> SUFFICES ASSUME IInv, [Next]_vars PROVE IInv'
  OBVIOUS
<1>1. ASSUME NEW cmd \in Commands, FirstCommand(cmd) PROVE IInv'
  BY <1>1, FirstCommandIInv
<1>2. ASSUME NEW cmd \in Commands, Join(cmd) PROVE IInv'
  BY <1>2, JoinIInv
<1>3. ASSUME NEW cmd \in Commands, StartGroup(cmd) PROVE IInv'
  BY <1>3, StartGroupIInv
<1>4. CASE Finish
  BY <1>4, FinishIInv
<1>5. CASE UNCHANGED vars
  BY <1>5 DEF vars, IInv, TypeOK, Shape, Cover, Good, GoodGroup
<1> QED
  BY <1>1, <1>2, <1>3, <1>4, <1>5 DEF Next

\* The inductive invariant holds of every state group_commands() reaches.
THEOREM GroupsInvariance == Spec => []IInv
  BY InitIInv, NextIInv, PTL DEF Spec

-----------------------------------------------------------------------------
(* The theorems.                                                           *)

\* Type correctness.
THEOREM GroupsTypeCorrect == Spec => []TypeOK
<1>1. IInv => TypeOK
  BY DEF IInv
<1> QED
  BY <1>1, GroupsInvariance, PTL

\* The last command of a group has the furthest end, which is what end_reg is.
LEMMA EndOfGroup ==
    ASSUME IInv, NEW k \in DOMAIN groups
    PROVE  end_reg(groups[k]) = End(sorted_commands[groups[k].last])
<1> DEFINE g == groups[k]
           ends == {End(sorted_commands[i]) : i \in g.first..g.last}
           top == End(sorted_commands[g.last])
<1>1. /\ g.first \in Nat \ {0} /\ g.last \in Nat /\ g.first <= g.last
      /\ g.last <= Len(sorted_commands)
      /\ sorted_commands \in Seq(Commands) /\ Len(sorted_commands) \in Nat
  BY Elements
<1>2. \A i \in g.first..g.last : End(sorted_commands[i]) <= top
  BY DEF IInv, Good, GoodGroup
<1>3. \A i \in g.first..g.last : End(sorted_commands[i]) \in Nat
  <2>1. \A i \in g.first..g.last : sorted_commands[i] \in Commands
    BY <1>1
  <2> QED
    BY <2>1, CommandNumbers
<1>4. g.last \in g.first..g.last /\ top \in {0} \cup ends /\ top \in Nat
  BY <1>1, <1>3
<1>5. ASSUME NEW e \in {0} \cup ends, \A i \in g.first..g.last : End(sorted_commands[i]) <= e
      PROVE  e = top
  <2>1. top <= e
    BY <1>4, <1>5
  <2>2. e \in Nat /\ e <= top
    BY <1>2, <1>3, <1>4
  <2> QED
    BY <1>4, <2>1, <2>2
<1>6. \E e \in {0} \cup ends : \A i \in g.first..g.last : End(sorted_commands[i]) <= e
  BY <1>2, <1>4
<1> QED
  BY <1>5, <1>6 DEF end_reg

\* Every command is in exactly one group, whose read covers its registers.
THEOREM CommandsAreRead == Spec => []EveryCommandIsRead
<1>1. IInv => EveryCommandIsRead
  <2> SUFFICES ASSUME IInv, done, NEW i \in DOMAIN sorted_commands
               PROVE  \E k \in DOMAIN groups :
                   /\ i \in groups[k].first..groups[k].last
                   /\ \A l \in DOMAIN groups \ {k} :
                          i \notin groups[l].first..groups[l].last
                   /\ start_reg(groups[k]) <= sorted_commands[i].reg
                   /\ End(sorted_commands[i]) <= start_reg(groups[k]) + num_regs(groups[k])
    BY DEF EveryCommandIsRead
  <2>1. PICK k \in DOMAIN groups : i \in groups[k].first..groups[k].last
    BY DEF IInv, Cover
  <2>2. ASSUME NEW l \in DOMAIN groups \ {k}
        PROVE  i \notin groups[l].first..groups[l].last
    <3>1. /\ groups[k].first \in Nat /\ groups[k].last \in Nat
          /\ groups[l].first \in Nat /\ groups[l].last \in Nat
          /\ k \in Nat /\ l \in Nat
      BY SMTT(30), Elements
    <3>2. groups[k].last < groups[l].first \/ groups[l].last < groups[k].first
      BY <3>1 DEF IInv, Shape
    <3> QED
      BY <2>1, <3>1, <3>2
  <2>3. /\ sorted_commands[groups[k].first].reg <= sorted_commands[i].reg
        /\ End(sorted_commands[i]) <= End(sorted_commands[groups[k].last])
    BY <2>1 DEF IInv, Good, GoodGroup
  <2>4. /\ groups[k].first \in DOMAIN sorted_commands
        /\ groups[k].last \in DOMAIN sorted_commands
    <3>1. DOMAIN sorted_commands = 1..Len(sorted_commands)
      BY Elements
    <3>2. /\ groups[k].first \in Nat \ {0} /\ groups[k].last \in Nat
          /\ groups[k].first <= groups[k].last
          /\ groups[k].last <= Len(sorted_commands) /\ Len(sorted_commands) \in Nat
      BY Elements
    <3> QED
      BY <3>1, <3>2
  <2>5. /\ sorted_commands[groups[k].first] \in Commands
        /\ sorted_commands[groups[k].last] \in Commands
    BY <2>4, Elements, SeqElement
  <2>6. /\ start_reg(groups[k]) \in Nat
        /\ start_reg(groups[k]) + num_regs(groups[k]) = End(sorted_commands[groups[k].last])
    BY <2>5, CommandNumbers, EndOfGroup DEF start_reg, num_regs
  <2> QED
    BY <2>1, <2>2, <2>3, <2>6 DEF start_reg
<1> QED
  BY <1>1, GroupsInvariance, PTL

\* A read of several commands keeps max_group_size.
THEOREM ReadsKeepTheLimit == Spec => []ReadsAreBounded
<1>1. IInv => ReadsAreBounded
  BY EndOfGroup DEF IInv, Good, GoodGroup, ReadsAreBounded, num_regs, start_reg
<1> QED
  BY <1>1, GroupsInvariance, PTL
=============================================================================
