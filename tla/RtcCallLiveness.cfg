SPECIFICATION FairSpec
CONSTANTS
    Calls = {c1}
    Users = {u1, u2}
    Replicas = {r1}
    Handlers = {h1, h2}
    Friends <- OneWay
    Joiners = {u1}
    MaxFaults = 0
    None = None
PROPERTIES
    SetupSettles
    OutcomeIsTold
CHECK_DEADLOCK FALSE
