\* Every fault the client survives, two commands: progress.
SPECIFICATION FairSpec
CONSTANTS
    Commands <- ReadAndSwitch
    NoCommand = NoCommand
    Size <- MCSize
    FunctionCode <- MCFunctionCode
    MaxRetries = 2
    Impatient <- NoImpatience
    Faults <- SurvivedFaults
PROPERTIES
    CommandsSettle
    ReadyAgain
CHECK_DEADLOCK FALSE
