--------------------------- MODULE MCDebuggerPoll ---------------------------
(***************************************************************************)
(* DebuggerPoll on two groups: the inverter's, behind a category and read  *)
(* after another register, and a battery's, on pages of a category.        *)
(***************************************************************************)
EXTENDS DebuggerPoll

TwoGroups == <<
    [slave |-> 1, commands |-> 1, selector |-> "None",
     triggers |-> <<<<"category", 2>>>>, trigger_reads |-> 1],
    [slave |-> 41, commands |-> 2, selector |-> "page",
     triggers |-> <<<<"category", 1>>>>, trigger_reads |-> 0]>>
PageAndCategory == {"page", "category"}
OneOrTwo == {1, 2}
ZeroOrTwo == {0, 2}
BothModes == BOOLEAN
Reconnecting == {TRUE}
NoFaults == {}
=============================================================================
