SPECIFICATION Spec
CONSTANTS
    s1 = s1
    s2 = s2
    local = local
    remote = remote
    Sensors = {s1, s2}
    Handlers = {local, remote}
    Local = {local}
    SensorOf <- MCSensorOf
    All = All
    OtherSensor = OtherSensor
    None = None
    Formats <- OneSize
    WireMax = 3
    Capacity = 2
    Keeps = FALSE
    MaxImages = 4
    MaxEnds = 1
    MaxInbox = 4
CHECK_DEADLOCK FALSE
INVARIANTS
    TypeOK
    RingCanBeFound
    HeldImagesStay
PROPERTIES
    
    RingsAreUsedAsRings
    
