SPECIFICATION Spec
CONSTANTS
    s1 = s1
    s2 = s2
    c1 = c1
    c2 = c2
    k1 = k1
    k2 = k2
    r1 = r1
    r2 = r2
    r3 = r3
    w1 = w1
    Subs = {s1, s2}
    Customers = {c1, c2}
    Keys = {k1, k2}
    Requests = {r1, r2, r3}
    Hooks = {w1}
    MaxTier = 1
    MaxRenewals = 2
    None = None
CONSTRAINT AtMostFour
SYMMETRY Symmetry
INVARIANTS
    IInv
    NoChargeIsForgotten
    OneLiveSubscription
    PaidTierIsBacked

CHECK_DEADLOCK FALSE
