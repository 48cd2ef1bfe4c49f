--------------------------- MODULE MCWorkflowRun ---------------------------
EXTENDS WorkflowRun

CONSTANTS t, u, ok, chg, blk

VerdictTable ==
    [r \in Review |-> IF r = ok THEN "APPROVED"
                      ELSE IF r = chg THEN "CHANGES_REQUESTED" ELSE "BLOCKED"]

Agent(a) == [kind |-> "agent", artifact |-> a, inputs |-> {}, role |-> "none",
             cycle |-> 0, retryFrom |-> 0, budget |-> 0, internal |-> FALSE,
             template |-> FALSE, when |-> FALSE, explicit |-> TRUE,
             patch |-> FALSE]
Gate(a) == [Agent(a) EXCEPT !.kind = "gate"]
Host(a, in) == [Agent(a) EXCEPT !.kind = "host-handoff", !.inputs = in]
PolicyStep(a, from, n) ==
    [Agent(a) EXCEPT !.role = "policy", !.retryFrom = from, !.budget = n, !.explicit = FALSE]
Review_(a, c) == [Agent(a) EXCEPT !.role = "review", !.cycle = c, !.internal = TRUE]

(* builtins/quick-fix.yaml from its implement step on, which here writes a   *)
(* report and no patch, with a conditional step behind the gate.             *)
QuickFixSteps == <<[Agent("report") EXCEPT !.explicit = FALSE],
                   PolicyStep("verification", 1, 1),
                   Gate("verification"),
                   [Agent("release") EXCEPT !.when = TRUE]>>
QuickFixArtifact == {"report", "verification", "release"}

(* A review cycle of two iterations over a template document, its gate and a *)
(* host handoff that consumes the document.                                  *)
ReviewCycleSteps == <<[Agent("design") EXCEPT !.template = TRUE],
                      Review_("review1", 1),
                      [Agent("design") EXCEPT !.role = "consolidate", !.cycle = 1],
                      Review_("review2", 1),
                      Gate("design"),
                      Host("spec", {"design"})>>
ReviewCycleArtifact == {"design", "review1", "review2", "spec"}

(* What the future of a run, and the properties checked on it, depend on.    *)
(* Of an output only its presence is ever read, of the inputs only those of  *)
(* completed or running steps and only the artifacts that a gate approves,   *)
(* of an artifact nobody reviews or approves only whether it is there,       *)
(* currentStepId only while a step runs, slipped only of a consumer that     *)
(* starts, runs or is complete, and judged nowhere.                          *)
Gated == {Plan[g].artifact : g \in {i \in Step : IsGate(i)}}
LiveStep(i) ==
    [steps[i] EXCEPT
        !.output = steps[i].status = "complete" /\ @ # Nil,
        !.inputs = IF steps[i].status \in {"complete", "in_progress"}
                   THEN [a \in Gated |-> @[a]] ELSE NoInputs]
Read == Gated \cup {Plan[i].artifact : i \in {j \in Step : IsReview(j)}}
Running == call # "none" \/ \E i \in Step : steps[i].status = "in_progress"
LiveState ==
    <<[i \in Step |-> LiveStep(i)], IF Running THEN current ELSE 0,
      [a \in Read |-> files[a]], {a \in Artifact : files[a] = Nil}, call, back,
      {i \in slipped : /\ Plan[i].artifact \notin Gated
                       /\ call = "start" \/ steps[i].status \in {"complete", "in_progress"}}>>

(* TLC evaluates a constant definition once, but the one a constant is       *)
(* replaced by at every use: these only name the values above.               *)
Verdicts == VerdictTable
QuickFix == QuickFixSteps
ReviewCycle == ReviewCycleSteps
=============================================================================
