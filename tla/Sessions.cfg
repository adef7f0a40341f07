SPECIFICATION Spec
CONSTANTS
    k1 = k1
    k2 = k2
    s1 = s1
    s2 = s2
    r1 = r1
    r2 = r2
    Keys = {k1, k2}
    Sessions = {s1, s2}
    Requests = {r1, r2}
    TTL = 3
    None = None
    Stub = Stub
SYMMETRY Symmetry
INVARIANTS
    IInv
    SweepIsComplete
PROPERTIES
    ImplementsAuthority
