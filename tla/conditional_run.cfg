SPECIFICATION RunSpec
CHECK_DEADLOCK FALSE
CONSTANTS
    yes = yes
    no = no
    low = low
    high = high
    Nil = Nil
    Unreadable = Unreadable
    Name = {"main", "part"}
    MayHold <- MCTexts
    Root = "main"
    Requests <- MCRequests
    TypeOf <- MCTypeOf
    MaxDepth = 3
INVARIANTS
    TypeOK
    FrozenPlanIsRunnable
    CycleReviewerIsNotAuthor
    EffectiveParametersConform
    SkippedIsFalseNow
PROPERTIES
    ConditionHeldAtStart
    StartEnds
