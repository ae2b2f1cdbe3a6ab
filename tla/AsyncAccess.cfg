SPECIFICATION Spec
CONSTANTS
    Devices = {d1, d2}
    NoDev = NoDev
INVARIANTS
    TypeOK
    ExclusiveUse
    NobodyIsStuck
    RequestAssertions
PROPERTIES
    ImplementsBusGrant
    ReturnsAfterRelease
    MainReturns
