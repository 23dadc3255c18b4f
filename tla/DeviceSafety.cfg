\* Stations of every kind, one fault, one signal or command.
SPECIFICATION FairSpec
CONSTANTS
    Prefixed <- AllKinds
    Modes <- TwoModes
    MaxFaults = 1
    MaxSignals = 1
INVARIANTS
    TypeOK
    ClosedWhenStopped
    AttributesAreTrue
PROPERTIES
    ShutdownIsFinal
    ImplementsLife
    StopsAfterFailure
    PollsOrStops
    AnnouncedIsShown
\* The program may end.
CHECK_DEADLOCK FALSE
