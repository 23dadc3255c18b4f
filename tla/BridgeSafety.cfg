\* Every fault and MQTT commands, two devices, three broker connections.
SPECIFICATION FairSpec
CONSTANTS
    Devices <- TwoDevices
    Configs = 2
    Topics = 2
    Announce = TRUE
    MaxMessages = 3
    MaxCommands = 1
    MaxConnections = 3
    Faults <- AllFaults
INVARIANTS
    TypeOK
    NoLostResult
    SessionHasHandler
    CopiesPerConnection
    AnnouncedFirst
PROPERTIES
    NeverGoesBack
    CatchesUp
\* The bounds end the run: no result, command or connection is left.
CHECK_DEADLOCK FALSE
