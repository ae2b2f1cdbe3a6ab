SPECIFICATION Spec
CONSTANTS
    Readers = {r1, r2}
    Capacity = 2
    IndexMod = 4
    SeqMod = 8
    MaxHeld = 1
    Torn = Torn
    NoFrame = NoFrame
INVARIANTS
    TypeOK
    ProxyShowsItsFrame
    RingInOrder
PROPERTIES
    ImplementsFrameRing
    PutReturns
