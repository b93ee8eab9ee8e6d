SPECIFICATION Spec
CONSTANTS
    c1 = c1
    c2 = c2
    c3 = c3
    Clients <- MCClients
    Slots = 2
    Descriptors = {1, 2, 3, 4}
    MaxQuits = 1
SYMMETRY Symmetry
INVARIANTS
    ProxyTypeOK
    CountTracksClients
    NoStaleSubscription
    NoSharedDescriptor
PROPERTIES
    SubscribersHearPackets
    NoPacketTwice
CHECK_DEADLOCK FALSE
