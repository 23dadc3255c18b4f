\* Two reads of equal size and a device that answers late: answers mix up.
SPECIFICATION Spec
CONSTANTS
    Commands <- TwoReads
    NoCommand = NoCommand
    Size <- MCSize
    FunctionCode <- MCFunctionCode
    MaxRetries = 2
    Impatient <- NoImpatience
    Faults <- NoFaults
INVARIANT
    OwnAnswer
CHECK_DEADLOCK FALSE
