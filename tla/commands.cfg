SPECIFICATION CommandsSpec
CONSTANTS
    a = a
    b = b
    Proc = {a, b}
    HostOf <- OneHost
    Mortal = {a}
    Forcers = {}
    MaxDepth = 2
    None = None
    Advancers = {a, b}
    Detachers = {a}
    Child = b
    Steps = 2
INVARIANTS
    TypeOK
    CommandsTypeOK
    MutualExclusion
    HeldLockIsOnDisk
    OneAgentAtATime
PROPERTIES
    MutexSpec
    HolderGivesBack
    NoLostUpdate
    PublishedIsOwn
    FollowEnds
