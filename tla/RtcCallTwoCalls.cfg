SPECIFICATION Spec
CONSTANTS
    Calls = {c1, c2}
    Users = {u1, u2}
    Replicas = {r1}
    Handlers = {h1, h2}
    Friends <- AllFriends
    Joiners = {}
    MaxFaults = 1
    None = None
SYMMETRY Symmetry
CONSTRAINT BeforeMedia
INVARIANTS
    IInv
PROPERTIES
    ImplementsLifecycle
CHECK_DEADLOCK FALSE
