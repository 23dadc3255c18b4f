\* Up to three commands of several targets.
SPECIFICATION Spec
CONSTANTS
    Registers <- FewRegisters
    Lengths <- BitLengths
    Contexts <- Targets
    MaxGap = 1
    MaxGroupSize = 5
    MaxCommands = 3
INVARIANTS
    TypeOK
    EveryCommandIsRead
    ReadsAreBounded
    FewestReads
\* The function returns.
CHECK_DEADLOCK FALSE
