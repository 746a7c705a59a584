SPECIFICATION Spec
CONSTANTS
    c1 = c1
    c2 = c2
    c3 = c3
    NoHolder = NoHolder
    Clients = {c1, c2, c3}
    Blocking = {c3}
INVARIANTS TypeOK MutualExclusion

CHECK_DEADLOCK FALSE
