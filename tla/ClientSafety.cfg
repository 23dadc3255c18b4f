\* Every fault, three commands, a caller that may give up: safety.
SPECIFICATION Spec
CONSTANTS
    Commands <- AllCommands
    NoCommand = NoCommand
    Size <- MCSize
    FunctionCode <- MCFunctionCode
    MaxRetries = 2
    Impatient <- ImpatientPacks
    Faults <- AllFaults
INVARIANTS
    TypeOK
    NoLostCommand
    ServedIsOpen
    ResultHasExpectedSize
    RunStateExpected
PROPERTIES
    OwnAnswerUnlessTimedOut
    ServiceAdvances
    ImplementsChannel
    ImplementsLife
\* The system stops once every command is settled and no fault is left.
CHECK_DEADLOCK FALSE
