SPECIFICATION Spec
CONSTANTS
    Devices <- MCDevices
    MaxZones = 2
    LogSize = 2
    RespGap = 2
    OfflineTimeout = 2
    CheckPeriod = 1
    RespMax = 1
    GiveUp = 2
    MinRepeat = 2
    Queries <- MCAllQueries
    EventCodes <- MCEventCodes
    EventZones = {1}
    ZoneCounts <- MCZoneCounts
INVARIANTS
    MonitorTypeOK
    PresenceTracksAnswers
    LogListsLatestEvents
    IdentityAsAnswered
