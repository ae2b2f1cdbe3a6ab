SPECIFICATION Safe
CONSTANTS
    Devices = {d1, d2}
    NoDev = NoDev
PROPERTY EachSendNeedsItsOwnCTS
