SPECIFICATION Spec
CONSTANTS
    MaxEvents = 2
    MaxIds = 3
    MaxFrames = 2
    Events <- MCEvents
    Keys <- MCKeys
    FactoryKey <- MCFactory
    Zones <- MCZones
    HostZones <- MCHostZones
PROPERTY
    ArmNeverDisarms
CHECK_DEADLOCK FALSE
