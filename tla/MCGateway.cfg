SPECIFICATION Spec
CONSTANTS
    DetectTimeout = 3
    MillisPeriod = 6
    PollInterval = 0
    MaxAddress = 1
    Byte = 4
    Devices <- MCDevices
    MaxZones = 1
    LogSize = 1
    RespGap = 2
    OfflineTimeout = 1
    CheckPeriod = 0
    RespTimeout = 1
    Debounce = 1
    RxMax = 1
    SerialCommands <- AllSerial
    C2000M = TRUE
INVARIANTS
    MasterTypeOK
    TransmitsOnlyAsMaster
PROPERTIES
    EntersAfterSilence
    EntersAfterBusSilence
    PassiveAsksNobody
