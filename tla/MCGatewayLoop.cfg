SPECIFICATION FairSpec
CONSTANTS
    DetectTimeout = 1
    MillisPeriod = 3
    PollInterval = 0
    MaxAddress = 2
    Byte = 4
    Devices <- MCDevices
    MaxZones = 1
    LogSize = 1
    RespGap = 1
    OfflineTimeout = 1
    CheckPeriod = 0
    RespTimeout = 1
    Debounce = 1
    RxMax = 1
    SerialCommands <- ModeSerial
    C2000M = FALSE
PROPERTIES
    SwitchChangeObeyed
    EveryDevicePolled
