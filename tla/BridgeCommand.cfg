\* One command from the broker, no fault.
SPECIFICATION Spec
CONSTANTS
    Devices <- TwoDevices
    Configs = 2
    Topics = 2
    Announce = TRUE
    MaxMessages = 3
    MaxCommands = 1
    MaxConnections = 3
    Faults <- NoFaults
\* The bounds end the run: no result, command or connection is left.
CHECK_DEADLOCK FALSE
INVARIANT
    CommandsDoNotEndTheBus
