\* Commands whose triggers have equal keys, but go to different slaves, and
\* commands that carry a trigger value but no list of triggers.
SPECIFICATION Spec
CONSTANTS
    Registers <- FewRegisters
    Lengths <- BitLengths
    Contexts <- EqualKeys
    MaxGap = 1
    MaxGroupSize = 5
    MaxCommands = 3
INVARIANT
    TriggersMatch
CHECK_DEADLOCK FALSE
