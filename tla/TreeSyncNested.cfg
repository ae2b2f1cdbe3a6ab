SPECIFICATION Spec
CONSTANTS
    i1 = i1
    i2 = i2
    i3 = i3
    Ifaces = {i1, i2, i3}
    PathOf <- MCPathOf
    Devices <- MCDevices
    Descriptors <- MCDescriptors
    Aliases <- MCAliases
    Strings <- MCStrings
    Externals <- MCExternals
    Routes <- MCRoutes
    Factories <- MCFactories
    Text <- MCText
    Host = "host"
    Unset = Unset
    Undescribed = Undescribed
    None = None
    Nested = TRUE
    MaxChanges = 2
    MaxInbox = 1
INVARIANT HandlerOutlivesUpdate
