SPECIFICATION Spec
CONSTANTS
    Change = {c1}
    Foreign = Foreign
    Nil = Nil
    Kept = 2
    Profiles = 0
PROPERTY AbandonedRunIsClosed
CHECK_DEADLOCK FALSE
