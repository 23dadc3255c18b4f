\* Both modes, all faults.
SPECIFICATION FairSpec
CONSTANTS
    Groups <- TwoGroups
    Selectors <- PageAndCategory
    Values <- OneOrTwo
    NoSelector = "None"
    Counts <- ZeroOrTwo
    ReconnectModes <- BothModes
    CryptoModes <- BothModes
    Faults <- AllFaults
    MaxClients = 3
INVARIANTS
    TypeOK
    EveryCommandIsReported
    ShowsWhatWasSelected
PROPERTIES
    PollsAdvance
    PollsGoOn
\* The program may end, and clients are bounded.
CHECK_DEADLOCK FALSE
