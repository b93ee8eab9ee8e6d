SPECIFICATION FairSpec
CONSTANTS
    Addresses <- MCAddresses
    OfflineAfter = 1
    CheckPeriod = 2
    RingSize = 3
    BufEvents = 2
    Wants <- MCWants
    Recursive = FALSE
    MaxEvents = 4
PROPERTIES
    GetStatusAnswered
