\* A broker connection lost while a device is announced.
SPECIFICATION Spec
CONSTANTS
    Devices <- TwoDevices
    Configs = 2
    Topics = 2
    Announce = TRUE
    MaxMessages = 3
    MaxCommands = 0
    MaxConnections = 3
    Faults <- AllFaults
\* The bounds end the run: no result, command or connection is left.
CHECK_DEADLOCK FALSE
INVARIANT
    DeviceIsConfigured
