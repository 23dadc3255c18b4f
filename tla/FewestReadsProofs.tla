------------------------- MODULE FewestReadsProofs -------------------------
(***************************************************************************)
(* group_commands() needs the fewest reads: no other way of cutting the    *)
(* sorted list into readable groups has fewer, whatever the commands.      *)
(*                                                                         *)
(* The groups are maximal: none can be read together with the first        *)
(* command of the next one.  So every cutting has a cut between the first  *)
(* commands of two groups that follow each other, and these cuts differ.   *)
(***************************************************************************)
EXTENDS RegisterGroupsProofs, FiniteSetTheorems

\* Readable of any list of commands.
ReadableIn(cmds, i, j) ==
    \/ i = j
    \/ /\ End(cmds[j]) - cmds[i].reg <= MaxGroupSize
       /\ \A k \in i..(j - 1) :
              /\ cmds[k + 1].reg - End(cmds[k]) \in 0..MaxGap
              /\ SameTarget(cmds[k], cmds[k + 1])

\* No group could have taken the command behind it.
Maximal ==
    /\ \A k \in DOMAIN groups : k + 1 \in DOMAIN groups =>
           ~ReadableIn(sorted_commands, groups[k].first, groups[k + 1].first)
    /\ ~done /\ groups # <<>> =>
           ~ReadableIn(sorted_commands, groups[Len(groups)].first, current)

\* The end of a list of commands is a cut, and so is the start.
IsEnd(cuts, j) == j = Len(sorted_commands) \/ j \in cuts
IsStart(cuts, i) == i = 1 \/ (i - 1) \in cuts

\* Every piece that cuts leave is readable.
Readably(cuts) ==
    \A i, j \in DOMAIN sorted_commands :
        (/\ i <= j /\ IsStart(cuts, i) /\ IsEnd(cuts, j)
         /\ \A k \in i..(j - 1) : k \notin cuts) => Readable(i, j)

-----------------------------------------------------------------------------
(* Least and greatest numbers.                                             *)

\* A set of numbers that is not empty has a least one.
LEMMA Least ==
    ASSUME NEW T \in SUBSET Nat, T # {}
    PROVE  \E n \in T : \A m \in T : n <= m
<1> DEFINE R == OpToRel(<, Nat)
<1>1. IsWellFoundedOn(R, Nat)
  BY NatLessThanWellFounded
<1>2. \A x, y \in Nat : <<y, x>> \in R <=> y < x
  BY DEF OpToRel
<1> HIDE DEF R
<1>3. PICK n \in T : \A m \in T : ~(<<m, n>> \in R)
  BY <1>1, WFMin
<1>4. \A m \in T : ~(m < n) /\ m \in Nat /\ n \in Nat
  BY <1>2, <1>3
<1> QED
  BY <1>4

\* A set of numbers that is bounded has a greatest one.
LEMMA Greatest ==
    ASSUME NEW b \in Nat, NEW T \in SUBSET (0..b), T # {}
    PROVE  \E n \in T : \A m \in T : m <= n
<1> DEFINE D == {b - t : t \in T}
<1>1. D \in SUBSET Nat /\ D # {}
  <2>1. \A t \in T : t \in 0..b
    OBVIOUS
  <2>2. \A t \in 0..b : b - t \in Nat
    OBVIOUS
  <2> QED
    BY <2>1, <2>2
<1>2. PICK d \in D : \A e \in D : d <= e
  BY <1>1, Least
<1>3. PICK n \in T : d = b - n
  OBVIOUS
<1>4. \A m \in T : d <= b - m
  BY <1>2
<1> QED
  BY <1>3, <1>4

-----------------------------------------------------------------------------
(* Readable pieces of the list.                                            *)

\* What the commands of the list are: numbers that grow from register to end.
LEMMA ListNumbers ==
    ASSUME IInv
    PROVE  /\ DOMAIN sorted_commands = 1..Len(sorted_commands)
           /\ Len(sorted_commands) \in Nat
           /\ \A i \in DOMAIN sorted_commands :
                  /\ sorted_commands[i] \in Commands
                  /\ sorted_commands[i].reg \in Nat
                  /\ End(sorted_commands[i]) \in Nat
                  /\ sorted_commands[i].reg <= End(sorted_commands[i])
<1>1. sorted_commands \in Seq(Commands) /\ Len(sorted_commands) \in Nat
  BY Elements
<1>2. DOMAIN sorted_commands = 1..Len(sorted_commands)
  BY <1>1
<1>3. ASSUME NEW i \in DOMAIN sorted_commands
      PROVE  /\ sorted_commands[i] \in Commands
             /\ sorted_commands[i].reg \in Nat
             /\ End(sorted_commands[i]) \in Nat
             /\ sorted_commands[i].reg <= End(sorted_commands[i])
  <2>1. sorted_commands[i] \in Commands
    BY <1>1, SeqElement
  <2>2. /\ sorted_commands[i].reg \in Nat
        /\ get_num_regs(sorted_commands[i]) \in Nat
        /\ End(sorted_commands[i]) \in Nat
    BY <2>1, CommandNumbers
  <2> QED
    BY <2>1, <2>2 DEF End
<1> QED
  BY <1>1, <1>2, <1>3

\* In a readable piece, registers and ends grow.
LEMMA ReadableGrows ==
    ASSUME IInv, NEW i \in DOMAIN sorted_commands, NEW j \in DOMAIN sorted_commands,
           i < j, Readable(i, j), NEW k \in i..j, NEW l \in k..j
    PROVE  /\ sorted_commands[k].reg <= sorted_commands[l].reg
           /\ End(sorted_commands[k]) <= End(sorted_commands[l])
<1> DEFINE reg(x) == sorted_commands[x].reg
           end(x) == End(sorted_commands[x])
           T == {x \in k..j : ~(reg(k) <= reg(x) /\ end(k) <= end(x))}
<1>1. i \in Nat /\ j \in Nat /\ k \in Nat /\ l \in Nat
  BY ListNumbers
<1>2. \A x \in i..j : reg(x) \in Nat /\ end(x) \in Nat /\ reg(x) <= end(x)
  BY ListNumbers
<1>3. \A x \in i..(j - 1) : reg(x + 1) - end(x) >= 0
  BY <1>1, <1>2 DEF Readable
<1> HIDE DEF reg, end
<1>4. T = {}
  <2> SUFFICES ASSUME T # {} PROVE FALSE
    OBVIOUS
  <2>1. T \in SUBSET Nat
    BY <1>1
  <2>2. PICK x \in T : \A y \in T : x <= y
    BY <2>1, Least
  <2>3. x \in k..j /\ x # k /\ ~(reg(k) <= reg(x) /\ end(k) <= end(x))
    BY <1>1, <1>2, <2>2
  <2>4. x - 1 \in k..j /\ x - 1 \in i..(j - 1)
    BY <1>1, <2>3
  <2>5. reg(k) <= reg(x - 1) /\ end(k) <= end(x - 1)
    BY <1>1, <2>2, <2>3, <2>4
  <2>6. reg(x) >= end(x - 1)
    <3>1. reg((x - 1) + 1) - end(x - 1) >= 0
      BY <1>3, <2>4
    <3>2. (x - 1) + 1 = x /\ x \in i..j /\ x - 1 \in i..j
      BY <1>1, <2>3, <2>4
    <3> QED
      BY <1>2, <3>1, <3>2
  <2>7. /\ reg(x) \in Nat /\ end(x) \in Nat /\ reg(x) <= end(x)
        /\ reg(x - 1) \in Nat /\ end(x - 1) \in Nat /\ reg(x - 1) <= end(x - 1)
        /\ reg(k) \in Nat /\ end(k) \in Nat
    <3>1. x \in i..j /\ x - 1 \in i..j /\ k \in i..j
      BY <1>1, <2>3, <2>4
    <3> QED
      BY <1>2, <3>1
  <2> QED
    BY <2>3, <2>5, <2>6, <2>7
<1>5. reg(k) <= reg(l) /\ end(k) <= end(l)
  BY <1>1, <1>4
<1> QED
  BY <1>5 DEF reg, end

\* A piece of a readable piece is readable.
LEMMA ReadablePiece ==
    ASSUME IInv, NEW i \in DOMAIN sorted_commands, NEW j \in DOMAIN sorted_commands,
           Readable(i, j), NEW k \in i..j, NEW l \in k..j
    PROVE  Readable(k, l)
<1>1. i \in Nat /\ j \in Nat /\ k \in Nat /\ l \in Nat
  BY ListNumbers
<1>2. CASE k = l
  BY <1>2 DEF Readable
<1>3. CASE k # l
  <2>1. i < j
    BY <1>1, <1>3
  <2>2. /\ End(sorted_commands[j]) - sorted_commands[i].reg <= MaxGroupSize
        /\ \A x \in i..(j - 1) :
               /\ sorted_commands[x + 1].reg - End(sorted_commands[x]) \in 0..MaxGap
               /\ SameTarget(sorted_commands[x], sorted_commands[x + 1])
    BY <1>1, <2>1 DEF Readable
  <2>3. sorted_commands[i].reg <= sorted_commands[k].reg
    <3>1. i \in i..j /\ k \in i..j
      BY <1>1
    <3> QED
      BY <2>1, <3>1, ReadableGrows
  <2>4. End(sorted_commands[l]) <= End(sorted_commands[j])
    <3>1. l \in i..j /\ j \in l..j
      BY <1>1
    <3> QED
      BY <2>1, <3>1, ReadableGrows
  <2>5. /\ sorted_commands[i].reg \in Nat /\ sorted_commands[k].reg \in Nat
        /\ End(sorted_commands[l]) \in Nat /\ End(sorted_commands[j]) \in Nat
    BY SMTT(30), <1>1, ListNumbers
  <2>6. End(sorted_commands[l]) - sorted_commands[k].reg <= MaxGroupSize
    BY <2>2, <2>3, <2>4, <2>5, ConstantsAssumption
  <2>7. \A x \in k..(l - 1) : x \in i..(j - 1)
    BY <1>1
  <2> QED
    BY <2>2, <2>6, <2>7 DEF Readable
<1> QED
  BY <1>2, <1>3

-----------------------------------------------------------------------------
(* The groups are maximal.                                                 *)

\* A command that is appended changes nothing before it.
LEMMA ReadableStays ==
    ASSUME NEW cmds \in Seq(Commands), NEW cmd \in Commands,
           NEW i \in DOMAIN cmds, NEW j \in DOMAIN cmds
    PROVE  ReadableIn(Append(cmds, cmd), i, j) <=> ReadableIn(cmds, i, j)
<1>1. \A x \in DOMAIN cmds : Append(cmds, cmd)[x] = cmds[x]
  OBVIOUS
<1>2. \A x \in i..(j - 1) : x \in DOMAIN cmds /\ x + 1 \in DOMAIN cmds
  OBVIOUS
<1> QED
  BY <1>1, <1>2 DEF ReadableIn

\* A command that does not fit cannot be read with the current group.
LEMMA NotReadableTogether ==
    ASSUME IInv, current # 0, NEW cmd \in Commands, ~Fits(cmd)
    PROVE  ~ReadableIn(Append(sorted_commands, cmd), current, Len(sorted_commands) + 1)
<1> DEFINE n == Len(sorted_commands)
           longer == Append(sorted_commands, cmd)
           first == sorted_commands[current]
           last == sorted_commands[n]
<1>1. n \in Nat /\ current \in 1..n /\ sorted_commands \in Seq(Commands)
  BY Elements
<1>2. longer[n + 1] = cmd /\ longer[n] = last /\ longer[current] = first
  BY <1>1
<1>3. SameTarget(last, first)
  BY <1>1 DEF IInv, Good, GoodGroup
<1>4. first \in Commands /\ last \in Commands
  BY <1>1
<1>5. End(cmd) \in Nat /\ cmd.reg \in Nat /\ End(last) \in Nat /\ first.reg \in Nat
  BY <1>4, CommandNumbers
<1> SUFFICES ASSUME ReadableIn(longer, current, n + 1) PROVE FALSE
  OBVIOUS
<1>6. current # n + 1 /\ n \in current..((n + 1) - 1)
  BY <1>1
<1>7. /\ End(cmd) - first.reg <= MaxGroupSize
      /\ cmd.reg - End(last) \in 0..MaxGap
      /\ SameTarget(last, cmd)
  BY <1>2, <1>6 DEF ReadableIn
<1>8. SameTarget(cmd, first)
  BY <1>3, <1>7 DEF SameTarget
<1>9. cmd.reg - End(last) >= 0 /\ cmd.reg - End(last) <= MaxGap
  BY <1>5, <1>7, ConstantsAssumption
<1> QED
  BY <1>7, <1>8, <1>9 DEF Fits

\* What an element of the longer list of groups is.
LEMMA GroupsBefore ==
    ASSUME IInv, NEW g, NEW more, more = Append(groups, g)
    PROVE  /\ DOMAIN more = 1..(Len(groups) + 1)
           /\ DOMAIN groups = 1..Len(groups) /\ Len(groups) \in Nat
           /\ more # <<>> /\ Len(more) = Len(groups) + 1
           /\ more[Len(groups) + 1] = g
           /\ \A k \in DOMAIN groups : more[k] = groups[k]
<1>1. groups \in Seq([first : 1..MaxCommands, last : 1..MaxCommands])
  BY Elements
<1> QED
  BY <1>1

\* The first command of every group is in the list, and current is.
LEMMA FirstsAreListed ==
    ASSUME IInv
    PROVE  /\ \A k \in DOMAIN groups : groups[k].first \in DOMAIN sorted_commands
           /\ current # 0 => current \in DOMAIN sorted_commands
           /\ groups # <<>> => Len(groups) \in DOMAIN groups
<1>1. /\ Len(sorted_commands) \in Nat /\ current \in 0..Len(sorted_commands)
      /\ DOMAIN sorted_commands = 1..Len(sorted_commands)
  BY ListNumbers, Elements
<1>2. ASSUME NEW k \in DOMAIN groups
      PROVE  groups[k].first \in DOMAIN sorted_commands
  <2>1. /\ groups[k].first \in Nat \ {0} /\ groups[k].last \in Nat
        /\ groups[k].first <= groups[k].last
        /\ groups[k].last <= Len(sorted_commands)
    BY Elements
  <2> QED
    BY <2>1, <1>1
<1>3. groups # <<>> => Len(groups) \in DOMAIN groups
  <2>1. groups \in Seq([first : 1..MaxCommands, last : 1..MaxCommands])
    BY Elements
  <2> QED
    BY <2>1
<1> QED
  BY <1>1, <1>2, <1>3

\* Maximality of the groups before a command is appended is kept by it.
LEMMA MaximalStays ==
    ASSUME IInv, Maximal, NEW cmd \in Commands
    PROVE  /\ \A k \in DOMAIN groups : k + 1 \in DOMAIN groups =>
                  ~ReadableIn(Append(sorted_commands, cmd),
                              groups[k].first, groups[k + 1].first)
           /\ ~done /\ current # 0 /\ groups # <<>> =>
                  ~ReadableIn(Append(sorted_commands, cmd),
                              groups[Len(groups)].first, current)
<1>1. sorted_commands \in Seq(Commands)
  BY Elements
<1> QED
  BY <1>1, FirstsAreListed, ReadableStays DEF Maximal

\* The first command begins a group that has none before it.
LEMMA FirstCommandMaximal ==
    ASSUME IInv, Maximal, NEW cmd \in Commands, FirstCommand(cmd)
    PROVE  Maximal'
<1>1. current = 0 /\ groups' = groups
  BY DEF FirstCommand
<1>2. DOMAIN sorted_commands = {}
  BY <1>1 DEF IInv, Shape
<1>3. DOMAIN groups = {} /\ groups = <<>>
  BY <1>2, FirstsAreListed
<1> QED
  BY <1>1, <1>3 DEF Maximal

\* A command that joins its group leaves the first commands where they are.
LEMMA JoinMaximal ==
    ASSUME IInv, Maximal, NEW cmd \in Commands, Join(cmd)
    PROVE  Maximal'
<1>1. /\ current # 0 /\ current' = current /\ groups' = groups
      /\ sorted_commands' = Append(sorted_commands, cmd) /\ ~done /\ ~done'
  BY DEF Join, Take
<1> QED
  BY <1>1, MaximalStays DEF Maximal

\* The current group, put behind the others, keeps them maximal.
LEMMA AppendMaximal ==
    ASSUME IInv, Maximal, ~done, current # 0, NEW cmds,
           \A k \in DOMAIN groups : k + 1 \in DOMAIN groups =>
               ~ReadableIn(cmds, groups[k].first, groups[k + 1].first),
           groups # <<>> => ~ReadableIn(cmds, groups[Len(groups)].first, current),
           NEW last, NEW more, more = Append(groups, [first |-> current, last |-> last])
    PROVE  \A k \in DOMAIN more : k + 1 \in DOMAIN more =>
               ~ReadableIn(cmds, more[k].first, more[k + 1].first)
<1> SUFFICES ASSUME NEW k \in DOMAIN more, k + 1 \in DOMAIN more
             PROVE  ~ReadableIn(cmds, more[k].first, more[k + 1].first)
  OBVIOUS
<1>1. /\ DOMAIN more = 1..(Len(groups) + 1) /\ DOMAIN groups = 1..Len(groups)
      /\ Len(groups) \in Nat
      /\ more[Len(groups) + 1] = [first |-> current, last |-> last]
      /\ \A x \in DOMAIN groups : more[x] = groups[x]
  BY GroupsBefore
<1>2. k \in DOMAIN groups /\ more[k] = groups[k]
  BY <1>1
<1>3. CASE k + 1 \in DOMAIN groups
  BY <1>1, <1>2, <1>3
<1>4. CASE k = Len(groups)
  <2>1. groups # <<>>
    BY <1>2
  <2>2. more[k + 1].first = current
    BY <1>1, <1>4
  <2> QED
    BY <1>2, <1>4, <2>1, <2>2
<1> QED
  BY <1>1, <1>2, <1>3, <1>4

\* The new group begins at a command the one before it could not take.
LEMMA StartGroupMaximal ==
    ASSUME IInv, Maximal, NEW cmd \in Commands, StartGroup(cmd)
    PROVE  Maximal'
<1> DEFINE n == Len(sorted_commands)
           longer == Append(sorted_commands, cmd)
<1>1. /\ current # 0 /\ current' = n + 1 /\ sorted_commands' = longer
      /\ groups' = Append(groups, [first |-> current, last |-> n])
      /\ ~done /\ ~Fits(cmd)
  BY DEF StartGroup, Take
<1>2. \A k \in DOMAIN groups' : k + 1 \in DOMAIN groups' =>
          ~ReadableIn(longer, groups'[k].first, groups'[k + 1].first)
  BY <1>1, MaximalStays, AppendMaximal
<1>3. groups'[Len(groups')].first = current
  BY <1>1, GroupsBefore
<1>4. ~ReadableIn(longer, current, n + 1)
  BY <1>1, NotReadableTogether
<1> QED
  BY <1>1, <1>2, <1>3, <1>4 DEF Maximal

\* At the end the current group becomes the last one.
LEMMA FinishMaximal ==
    ASSUME IInv, Maximal, Finish
    PROVE  Maximal'
<1> DEFINE n == Len(sorted_commands)
<1>1. /\ sorted_commands' = sorted_commands /\ ~done /\ done'
      /\ groups' = IF current = 0 THEN groups
                   ELSE Append(groups, [first |-> current, last |-> n])
  BY DEF Finish
<1>2. CASE current = 0
  BY <1>1, <1>2 DEF Maximal
<1>3. CASE current # 0
  <2>1. \A k \in DOMAIN groups' : k + 1 \in DOMAIN groups' =>
            ~ReadableIn(sorted_commands, groups'[k].first, groups'[k + 1].first)
    BY <1>1, <1>3, AppendMaximal DEF Maximal
  <2> QED
    BY <1>1, <2>1 DEF Maximal
<1> QED
  BY <1>2, <1>3

\* In every state the groups are maximal.
LEMMA MaximalInvariance == Spec => []Maximal
<1>1. Init => Maximal
  BY DEF Init, Maximal
<1>2. IInv /\ Maximal /\ [Next]_vars => Maximal'
  <2> SUFFICES ASSUME IInv, Maximal, [Next]_vars PROVE Maximal'
    OBVIOUS
  <2>1. ASSUME NEW cmd \in Commands, FirstCommand(cmd) PROVE Maximal'
    BY <2>1, FirstCommandMaximal
  <2>2. ASSUME NEW cmd \in Commands, Join(cmd) PROVE Maximal'
    BY <2>2, JoinMaximal
  <2>3. ASSUME NEW cmd \in Commands, StartGroup(cmd) PROVE Maximal'
    BY <2>3, StartGroupMaximal
  <2>4. CASE Finish
    BY <2>4, FinishMaximal
  <2>5. CASE UNCHANGED vars
    BY <2>5 DEF vars, Maximal
  <2> QED
    BY <2>1, <2>2, <2>3, <2>4, <2>5 DEF Next
<1> QED
  BY <1>1, <1>2, GroupsInvariance, PTL DEF Spec

-----------------------------------------------------------------------------
(* Counting the cuts.                                                      *)

\* Commands that cannot be read together have a cut between them.
LEMMA CutBetween ==
    ASSUME IInv, NEW cuts \in SUBSET (1..(Len(sorted_commands) - 1)), Readably(cuts),
           NEW a \in DOMAIN sorted_commands, NEW b \in DOMAIN sorted_commands,
           a < b, ~Readable(a, b)
    PROVE  \E c \in cuts : a <= c /\ c < b
<1> DEFINE n == Len(sorted_commands)
           starts == {i \in 1..a : IsStart(cuts, i)}
           ends == {j \in b..n : IsEnd(cuts, j)}
<1> SUFFICES ASSUME \A c \in cuts : ~(a <= c /\ c < b) PROVE FALSE
  OBVIOUS
<1>1. n \in Nat /\ DOMAIN sorted_commands = 1..n /\ a \in 1..n /\ b \in 1..n
  BY ListNumbers
<1>2. PICK i \in starts : \A x \in starts : x <= i
  <2>1. starts \in SUBSET (0..a) /\ a \in Nat
    BY <1>1
  <2>2. 1 \in starts
    BY <1>1 DEF IsStart
  <2> HIDE DEF starts
  <2> QED
    BY <2>1, <2>2, Greatest
<1>3. PICK j \in ends : \A x \in ends : j <= x
  <2>1. ends \in SUBSET Nat /\ n \in ends
    BY <1>1 DEF IsEnd
  <2> QED
    BY <2>1, Least
<1>4. /\ i \in 1..a /\ j \in b..n /\ i \in 1..n /\ j \in 1..n /\ i <= j
      /\ IsStart(cuts, i) /\ IsEnd(cuts, j)
  BY <1>1, <1>2, <1>3
<1>5. ASSUME NEW k \in i..(j - 1), k \in cuts
      PROVE  FALSE
  <2>1. k \in Nat
    BY <1>4
  <2>2. CASE k < a
    <3>1. k + 1 \in 1..a /\ IsStart(cuts, k + 1)
      BY <1>1, <1>4, <1>5, <2>1, <2>2 DEF IsStart
    <3> QED
      BY <1>2, <1>4, <3>1
  <2>3. CASE b <= k
    <3>1. k \in b..n /\ k < j
      BY <1>1, <1>4, <2>1, <2>3
    <3>2. IsEnd(cuts, k)
      BY <1>5 DEF IsEnd
    <3> QED
      BY <1>3, <1>4, <2>1, <3>1, <3>2
  <2> QED
    BY <1>1, <1>5, <2>1, <2>2, <2>3
<1>6. Readable(i, j)
  BY <1>1, <1>4, <1>5 DEF Readably
<1>7. a \in i..j /\ b \in a..j
  BY <1>1, <1>4
<1> QED
  BY <1>1, <1>4, <1>6, <1>7, ReadablePiece

\* Groups that follow each other begin behind each other.
LEMMA FirstsGrow ==
    ASSUME IInv, NEW k \in DOMAIN groups, NEW l \in DOMAIN groups, k < l
    PROVE  groups[k].first < groups[l].first
<1>1. /\ groups[k].first \in Nat /\ groups[k].last \in Nat /\ groups[l].first \in Nat
      /\ groups[k].first <= groups[k].last
  BY Elements
<1>2. groups[k].last < groups[l].first
  BY DEF IInv, Shape
<1> QED
  BY <1>1, <1>2

\* There are no more groups than cuts, and one more.
LEMMA CutsAreMany ==
    ASSUME IInv, Maximal, NEW cuts \in SUBSET (1..(Len(sorted_commands) - 1)),
           Readably(cuts)
    PROVE  Len(groups) <= Cardinality(cuts) + 1
<1> DEFINE m == Len(groups)
           first(k) == groups[k].first
           f == [k \in 1..(m - 1) |->
                   CHOOSE c \in cuts : first(k) <= c /\ c < first(k + 1)]
<1>1. /\ m \in Nat /\ DOMAIN groups = 1..m
      /\ Len(sorted_commands) \in Nat
  BY Elements
<1>2. ASSUME NEW k \in 1..(m - 1)
      PROVE  /\ f[k] \in cuts /\ first(k) <= f[k] /\ f[k] < first(k + 1)
  <2>1. k \in DOMAIN groups /\ k + 1 \in DOMAIN groups /\ k < k + 1
    BY <1>1
  <2>2. first(k) < first(k + 1)
    BY <2>1, FirstsGrow
  <2>3. first(k) \in DOMAIN sorted_commands /\ first(k + 1) \in DOMAIN sorted_commands
    BY <2>1, FirstsAreListed
  <2>4. ~Readable(first(k), first(k + 1))
    BY <2>1 DEF Maximal, Readable, ReadableIn
  <2>5. \E c \in cuts : first(k) <= c /\ c < first(k + 1)
    BY <2>2, <2>3, <2>4, CutBetween
  <2> QED
    BY <2>5
<1>3. f \in [1..(m - 1) -> cuts]
  BY <1>2
<1>4. ASSUME NEW k \in 1..(m - 1), NEW l \in 1..(m - 1), k < l
      PROVE  f[k] # f[l]
  <2>1. first(k + 1) <= first(l)
    <3>1. k + 1 \in DOMAIN groups /\ l \in DOMAIN groups
      BY <1>1
    <3>2. first(k + 1) \in Nat /\ first(l) \in Nat
      BY <3>1, Elements
    <3>3. CASE k + 1 = l
      BY <3>2, <3>3
    <3>4. CASE k + 1 < l
      <4>1. first(k + 1) < first(l)
        BY <3>1, <3>4, FirstsGrow
      <4> QED
        BY <3>2, <4>1
    <3> QED
      BY <1>1, <1>4, <3>3, <3>4
  <2>2. f[k] < first(k + 1) /\ first(l) <= f[l]
    BY <1>2
  <2>3. f[k] \in Int /\ f[l] \in Int
    <3>1. \A c \in cuts : c \in Int
      BY <1>1
    <3>2. f[k] \in cuts /\ f[l] \in cuts
      BY <1>2
    <3> QED
      BY <3>1, <3>2
  <2>4. first(k + 1) \in Int /\ first(l) \in Int
    <3>1. k + 1 \in DOMAIN groups /\ l \in DOMAIN groups
      BY <1>1
    <3>2. \A x \in DOMAIN groups : first(x) \in Int
      BY Elements
    <3> QED
      BY <3>1, <3>2
  <2> HIDE DEF f, first
  <2> QED
    BY <2>1, <2>2, <2>3, <2>4
<1>5. \A k, l \in 1..(m - 1) : f[k] = f[l] => k = l
  <2> SUFFICES ASSUME NEW k \in 1..(m - 1), NEW l \in 1..(m - 1), f[k] = f[l], k # l
               PROVE  FALSE
    OBVIOUS
  <2>1. k \in Int /\ l \in Int
    BY <1>1
  <2>2. k < l \/ l < k
    BY <2>1
  <2> HIDE DEF f
  <2> QED
    BY <1>4, <2>2
<1>6. f \in Injection(1..(m - 1), cuts)
  BY <1>3, <1>5 DEF Injection, IsInjective
<1>7. IsFiniteSet(cuts) /\ Cardinality(cuts) \in Nat
  <2>1. IsFiniteSet(1..(Len(sorted_commands) - 1))
    BY <1>1, FS_Interval
  <2> QED
    BY <2>1, FS_Subset, FS_CardinalityType
<1>8. Cardinality(1..(m - 1)) <= Cardinality(cuts)
  BY <1>6, <1>7, FS_Injection
<1>9. Cardinality(1..(m - 1)) = IF 1 > m - 1 THEN 0 ELSE (m - 1) - 1 + 1
  <2>1. 1 \in Int /\ m - 1 \in Int
    BY <1>1
  <2> HIDE DEF m
  <2> QED
    BY <2>1, FS_Interval
<1> QED
  BY <1>1, <1>7, <1>8, <1>9

\* No other way of cutting the sorted list needs fewer reads.
THEOREM ReadsAreFewest == Spec => []FewestReads
<1>1. IInv /\ Maximal => FewestReads
  BY CutsAreMany DEF FewestReads, Readably, IsStart, IsEnd
<1> QED
  BY <1>1, GroupsInvariance, MaximalInvariance, PTL
=============================================================================
