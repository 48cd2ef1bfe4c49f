SPECIFICATION FairSpec
CONSTANTS
    t1 = t1
    t2 = t2
    ok = ok
    changes = changes
    m1 = m1
    m2 = m2
    m3 = m3
    Nil = Nil
    Plans <- MCPlans
    Content = {t1, t2, ok, changes, m1, m2, m3}
    Writes <- MCWrites
    VerdictOf <- MCVerdictOf
    PhasesIn <- MCPhasesIn
    MaxAmendments = 2
    Editable <- MCEditable
    Mortal <- MCMortal
INVARIANTS
    TypeOK
    WorkInOrder
    SequenceIsOfApprovedManifest
    AmendedTextIsKept
    ApprovedHandoffIsCurrent
    AnnouncedInputsAreRecorded
PROPERTIES
    AmendedBeforeAnyReader
    AdvanceEnds
