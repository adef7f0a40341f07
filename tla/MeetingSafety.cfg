SPECIFICATION Spec
CONSTANTS
    Users = {host, u1}
    Host = host
    MaxParticipants = 1
    Handlers = {h1, h2}
    MaxFaults = 0
    MaxHooks = 1
SYMMETRY Symmetry
INVARIANTS
    IInv
    SeatsFit
    RemovedIsWatched
PROPERTIES
    EndIsFinal
