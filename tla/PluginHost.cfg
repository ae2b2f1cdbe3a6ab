SPECIFICATION HostSpec
CONSTANTS
    d1 = d1
    d2 = d2
    p1 = p1
    Devices = {d1, d2}
    NoDev = NoDev
    Plugins = {p1}
    NoPlugin = NoPlugin
    MadeBy <- MadeByOne
    OwnFirst <- FirstOnly
INVARIANTS
    MainOrDevice
    NoUseAfterDestroy
    WaitsAreAnswered
    DataOutliveCallbacks
    CodeOutlivesThreads
PROPERTIES
    RequestAnswered
    ShutdownCompletes
