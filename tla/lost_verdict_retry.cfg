SPECIFICATION Spec
CONSTANTS
    t = t
    u = u
    ok = ok
    chg = chg
    blk = blk
    Plan <- QuickFix
    Artifact <- QuickFixArtifact
    Text = {t}
    Review = {ok, chg, blk}
    VerdictOf <- Verdicts
    TemplateText = t
    Nil = Nil
    Editable = {}
    Crashes = FALSE
INVARIANTS
    NegativeVerdictHoldsBackWork
