SPECIFICATION Safe
CONSTANTS
    Readers = {r1}
    Capacity = 3
    IndexMod = 8
    SeqMod = 16
    MaxHeld = 1
    Torn = Torn
    NoFrame = NoFrame
INVARIANT ProxyShowsItsFrame
