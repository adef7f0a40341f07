SPECIFICATION Spec
CONSTANTS
    Calls = {c1}
    Users = {u1, u2}
    Replicas = {r1, r2}
    Handlers = {h1, h2}
    Friends <- OneWay
    Joiners = {u1}
    MaxFaults = 1
    None = None
SYMMETRY Symmetry
INVARIANTS
    OneVerdict
    MissedNoticeOnce
    LiveCallKeepsRoom
    RingingIsWatched
    ConnectedIsReachable
CHECK_DEADLOCK FALSE
