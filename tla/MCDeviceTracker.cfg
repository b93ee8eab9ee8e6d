SPECIFICATION FairSpec
CONSTANTS
    Addresses <- MCAddresses
    OfflineAfter = 1
    CheckPeriod = 2
    RingSize = 3
    BufEvents = 2
    Wants <- MCWants
    Recursive = TRUE
    MaxEvents = 4
INVARIANTS
    TrackerTypeOK
    LogMatchesTable
    ListsLatestEvents
PROPERTIES
    LogAlternates
    SilentGoesOffline
    OperationsEnd
