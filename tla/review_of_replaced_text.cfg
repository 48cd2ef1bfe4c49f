SPECIFICATION Spec
CONSTANTS
    t = t
    u = u
    ok = ok
    chg = chg
    blk = blk
    Plan <- ReviewCycle
    Artifact <- ReviewCycleArtifact
    Text = {t, u}
    Review = {ok, chg}
    VerdictOf <- Verdicts
    TemplateText = t
    Nil = Nil
    Editable = {}
    Crashes = FALSE
PROPERTIES
    ReusedReviewIsOfItsInput
