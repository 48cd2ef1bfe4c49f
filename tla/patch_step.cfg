SPECIFICATION Spec
CONSTANTS
    Change = {c1, c2, c3}
    Foreign = Foreign
    Nil = Nil
    Kept = 2
    Profiles = 1
SYMMETRY Changes
CONSTRAINT Bounded
INVARIANTS
    TypeOK
    RepositoryAccounted
    RevisionsIntact
    ArtifactIsLastPatch
PROPERTY PatchNeedsGate
CHECK_DEADLOCK FALSE
