SPECIFICATION Spec
CONSTANTS
    a = a
    b = b
    c = c
    Proc = {a, b, c}
    HostOf <- OneHost
    Mortal = {a}
    Forcers = {b}
    MaxDepth = 2
    None = None
INVARIANTS
    ExclusiveUnlessSeized
    NoStrayLock
CHECK_DEADLOCK FALSE
