\* An EP2000 without any fault.
SPECIFICATION Spec
CONSTANTS
    Prefixed <- OnlyEP2000
    Modes <- Normal
    MaxFaults = 0
    MaxSignals = 0
INVARIANT
    SumsOfComponents
