SPECIFICATION Spec
CONSTANTS
    s1 = s1
    s2 = s2
    s3 = s3
    s4 = s4
    d1 = d1
    d2 = d2
    d3 = d3
    u1 = u1
    Sockets = {s1, s2, s3, s4}
    Devices = {d1, d2, d3}
    Users = {u1}
    DeviceOf <- DeviceTokens
    OwnerOf <- Owners
    MaxSockets = 2
    MaxFrames = 2
    None = None
SYMMETRY Symmetry
INVARIANTS
    IInv
    NoPresenceGhost
    AnnouncedIsOnline
    FarewellOnce
    SubscribersAreConnected
    ServiceIndexIsExact
PROPERTIES
    ImplementsPresence
CHECK_DEADLOCK FALSE
