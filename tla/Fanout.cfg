SPECIFICATION Spec
CONSTANTS
    a = a
    b = b
    a1 = a1
    b1 = b1
    b2 = b2
    e1 = e1
    Replicas = {a, b}
    Stays = {a1, b1, b2}
    Home <- HomeDef
    Emissions = {e1}
    None = None
SYMMETRY Symmetry
INVARIANTS
    IInv
    AtMostOnce
    NobodyIsMissed
