SPECIFICATION Spec
CONSTANTS
    Frames <- MCFrames
    Noise <- MCNoise
    ByteSize = 8
    Offset = 4
    MaxPayload = 4
    MaxPacket = 8
    Address = 1
    Gap = 1
    MaxStall = 1
INVARIANTS
    FramingTypeOK
    MonitorHearsSeparated
    DeviceServesInTime
PROPERTY
    SnifferReportsAligned
