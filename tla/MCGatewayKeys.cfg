SPECIFICATION Spec
CONSTANTS
    Keys <- MCKeys
    DefaultKey = 0
    MaxBoots = 4
INVARIANTS
    TypeOK
    RunsWithConfirmedKey
    KeysAgreeUnlessSerial
PROPERTIES
    BootCountsIncrease
