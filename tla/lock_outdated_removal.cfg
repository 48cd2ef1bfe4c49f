SPECIFICATION Spec
CONSTANTS
    a = a
    b = b
    c = c
    Proc = {a, b, c}
    HostOf <- OneHost
    Mortal = {}
    Forcers = {}
    MaxDepth = 2
    None = None
INVARIANTS
    MutualExclusion
CHECK_DEADLOCK FALSE
