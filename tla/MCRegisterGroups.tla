-------------------------- MODULE MCRegisterGroups --------------------------
(***************************************************************************)
(* RegisterGroups on lists of up to three commands: neighbours, gaps,     *)
(* overlaps and a long text; commands of another slave, behind a trigger,  *)
(* behind a page selector, and triggers that the keys do not tell apart.   *)
(***************************************************************************)
EXTENDS RegisterGroups

Plain == [slave |-> 1, triggers |-> 0, trigger_slaves |-> <<>>, trigger_reads |-> 0,
          selector |-> 0, trigger_val |-> "none"]
Triggered ==
    [Plain EXCEPT !.triggers = 1, !.trigger_slaves = <<1>>, !.trigger_val = "a"]
Targets ==
    {Plain, [Plain EXCEPT !.selector = 7], [Plain EXCEPT !.slave = 41], Triggered}
\* One register and value, written to two slaves; values without a trigger.
EqualKeys ==
    {[Triggered EXCEPT !.trigger_slaves = <<s>>] : s \in {1, 41}} \cup
    {[Plain EXCEPT !.trigger_val = v] : v \in {"a", "b"}}
\* Neighbours, overlaps and gaps of zero to three registers.
FewRegisters == {0, 1, 2, 4}
\* One register; two registers or, as text, more than a group may hold.
BitLengths == {1, 32}
=============================================================================
