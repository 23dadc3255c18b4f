\* Reconnecting polls without any fault.
SPECIFICATION FairSpec
CONSTANTS
    Groups <- TwoGroups
    Selectors <- PageAndCategory
    Values <- OneOrTwo
    NoSelector = "None"
    Counts <- ZeroOrTwo
    ReconnectModes <- Reconnecting
    CryptoModes <- BothModes
    Faults <- NoFaults
    MaxClients = 3
PROPERTY
    ReconnectingPollsGoOn
\* A poll may wait for ever.
CHECK_DEADLOCK FALSE
