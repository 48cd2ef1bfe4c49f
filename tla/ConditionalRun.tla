--------------------------- MODULE ConditionalRun ----------------------------
(***************************************************************************)
(* The conditional steps of a frozen run: what agents answer as structured   *)
(* results, which steps next skips or starts for them, and what becomes of   *)
(* both when work is sent back.  src/workflows/condition-evaluator.service.ts,*)
(* structured-result.ts, workflow-runner.service.ts,                         *)
(* src/runs/step-invalidation.ts, completion.service.ts.                     *)
(*                                                                         *)
(* Artifacts, approvals and verdicts are those of WorkflowRun.tla; here any  *)
(* completed work may be sent back at any time, in each way the code has.    *)
(***************************************************************************)
EXTENDS PlanExpansion

VARIABLES
    steps,    \* state.json: status and result of each step of the plan
    reopened  \* the step that the next under way has reopened, 0 if none

runVars == <<startVars, steps, reopened>>

(* "halted": complete with a verdict that lets no next pass it.              *)
Status == {"pending", "in_progress", "complete", "skipped", "failed", "stale", "halted"}
None == << >>

(* Every variable keeps its type, and the state has a step for each of the   *)
(* plan, a result only where one is declared, with accepted values.          *)
TypeOK ==
    /\ \A f \in Path : files[f] \in MayHold[f]
    /\ call \in {"none", "reading", "frozen"}
    /\ bound \in {{}} \cup {r.roles : r \in Requests}
    /\ \A k \in DOMAIN agenda : Len(agenda[k].stack) <= MaxDepth /\ agenda[k].ns \notin DOMAIN nodes
    /\ DOMAIN steps = DOMAIN plan
    /\ reopened \in {0} \cup DOMAIN plan
    /\ \A i \in DOMAIN plan :
         /\ steps[i].status \in Status
         /\ steps[i].result # None
            => /\ DOMAIN steps[i].result = DOMAIN plan[i].result
               /\ \A f \in DOMAIN plan[i].result : steps[i].result[f] \in plan[i].result[f].values

Reset(r) == [r EXCEPT !.status = "pending", !.result = None]

RunInit == ExpansionInit /\ steps = << >> /\ reopened = 0

(* createRunState. *)
Creates ==
    /\ Freeze
    /\ steps' = [i \in DOMAIN plan' |-> [status |-> "pending", result |-> None]]

-----------------------------------------------------------------------------
(* Conditions *)

(* What an operand stands for; Nil when nobody answered it. *)
Operand(i, o) ==
    IF o.kind = "value" THEN o.name
    ELSE IF o.kind = "parameter"
    THEN IF o.name \in DOMAIN plan[i].params THEN plan[i].params[o.name] ELSE Nil
    ELSE LET answers == {steps[j].result[o.name] :
                           j \in {j \in DOMAIN plan : /\ plan[j].kind = "agent" /\ plan[j].id = o.step
                                                      /\ o.name \in DOMAIN steps[j].result}}
         IN  IF answers = {} THEN Nil ELSE CHOOSE v \in answers : TRUE

Evaluation_NotIsTrue(i, c) ==
    LET of[k \in DOMAIN c] ==
          IF IsComparison(c[k])
          THEN LET l == Operand(i, c[k].left)  r == Operand(i, c[k].right)
               IN  [unresolved |-> Nil \in {l, r},
                    value |-> Nil \notin {l, r} /\ (l = r) = (c[k].op = "equals")]
          ELSE LET parts == {of[j] : j \in c[k].of}
                   unresolved == \E e \in parts : e.unresolved
               IN  [unresolved |-> unresolved,
                    value |-> CASE c[k].op = "all" -> ~unresolved /\ \A e \in parts : e.value
                                [] c[k].op = "any" -> ~unresolved /\ \E e \in parts : e.value
                                [] c[k].op = "not" -> \A e \in parts : ~e.value]
    IN  of[Len(c)]

(* evaluateCondition: an operand nobody answered leaves every condition      *)
(* around it without value, and what has no value is false.                  *)
Evaluation(i, c) ==
    LET of[k \in DOMAIN c] ==
          IF IsComparison(c[k])
          THEN LET l == Operand(i, c[k].left)  r == Operand(i, c[k].right)
               IN  [unresolved |-> Nil \in {l, r},
                    value |-> Nil \notin {l, r} /\ (l = r) = (c[k].op = "equals")]
          ELSE LET parts == {of[j] : j \in c[k].of}
                   unresolved == \E e \in parts : e.unresolved
               IN  [unresolved |-> unresolved,
                    value |-> /\ ~unresolved
                              /\ CASE c[k].op = "all" -> \A e \in parts : e.value
                                   [] c[k].op = "any" -> \E e \in parts : e.value
                                   [] c[k].op = "not" -> \A e \in parts : ~e.value]
    IN  of[Len(c)]

Allows(i) == plan[i].when # Nil => Evaluation(i, plan[i].when).value

-----------------------------------------------------------------------------
(* The run *)

Done(i) == steps[i].status \in {"complete", "skipped"}
FirstOpen(i) == i \in DOMAIN plan /\ ~Done(i) /\ \A j \in 1 .. i - 1 : Done(j)
Sets(i, r) == steps' = [steps EXCEPT ![i] = r] /\ UNCHANGED startVars

(* One turn of the loop of next; only a pending step is asked.               *)
NextSkips(i) ==
    /\ FirstOpen(i)
    /\ plan[i].kind = "agent"
    /\ steps[i].status = "pending"
    /\ ~Allows(i)
    /\ Sets(i, [steps[i] EXCEPT !.status = "skipped"])

(* reopenStaleWorkIfReady: saved as pending, for the same next to start.     *)
NextReopens(i) ==
    /\ reopened = 0
    /\ FirstOpen(i)
    /\ HasOutput(plan[i])
    /\ steps[i].status = "stale"
    /\ Sets(i, Reset(steps[i]))
    /\ reopened' = i

(* The condition of a step that this next has reopened is not asked.         *)
NextStarts(i) ==
    /\ FirstOpen(i)
    /\ HasOutput(plan[i])
    /\ steps[i].status = "pending"
    /\ reopened = i \/ (reopened = 0 /\ (plan[i].kind = "agent" => Allows(i)))
    /\ Sets(i, [Reset(steps[i]) EXCEPT !.status = "in_progress"])
    /\ reopened' = 0

(* It throws or dies between the two saves; the next one asks the condition. *)
NextStops ==
    /\ reopened # 0
    /\ reopened' = 0
    /\ UNCHANGED <<startVars, steps>>

Answers_FieldMissing(i) ==
    LET declared == plan[i].result
    IN  [DOMAIN declared -> {Nil} \cup UNION {declared[f].values : f \in DOMAIN declared}]

(* parseStructuredResult: all declared fields, no other, accepted values.    *)
Answers(i) ==
    LET declared == plan[i].result
        values == UNION {declared[f].values : f \in DOMAIN declared}
    IN  {a \in [DOMAIN declared -> values] : \A f \in DOMAIN declared : a[f] \in declared[f].values}

(* A policy with a retry, or a review of a cycle. *)
GivesVerdict(i) == plan[i].retryFrom # Nil \/ plan[i].part = "review"

Completes(i) ==
    /\ HasOutput(plan[i])
    /\ steps[i].status = "in_progress"
    /\ \E a \in Answers(i) :
         \/ Sets(i, [status |-> "complete", result |-> a])
         \/ GivesVerdict(i) /\ Sets(i, [status |-> "halted", result |-> a])

Fails(i) ==
    /\ steps[i].status = "in_progress"
    /\ Sets(i, [steps[i] EXCEPT !.status = "failed"])

(* acknowledge. *)
Acknowledged(i) ==
    /\ steps[i].status = "halted"
    /\ Sets(i, [steps[i] EXCEPT !.status = "complete"])

(* A gate is approved, also behind a halted step, a placeholder materialized. *)
Passes(i) ==
    /\ ~HasOutput(plan[i]) /\ ~Done(i)
    /\ \A j \in 1 .. i - 1 : Done(j) \/ (plan[i].kind = "gate" /\ steps[j].status = "halted")
    /\ Sets(i, [steps[i] EXCEPT !.status = "complete"])

(* A review that approves leaves out the rest of its cycle. *)
CycleEnds(i) ==
    /\ plan[i].part = "review"
    /\ steps[i].status = "in_progress"
    /\ steps' = [j \in DOMAIN plan |->
         IF j = i THEN [status |-> "complete", result |-> None]
         ELSE IF j > i /\ plan[j].cycle = plan[i].cycle /\ steps[j].status = "pending"
         THEN [steps[j] EXCEPT !.status = "skipped"] ELSE steps[j]]
    /\ UNCHANGED startVars

Invalidated_KeepsSkipped(i) ==
    [j \in DOMAIN plan |->
        IF j < i THEN steps[j]
        ELSE IF steps[j].status \in {"complete", "halted", "in_progress"}
        THEN [status |-> "stale", result |-> None]
        ELSE steps[j]]

(* invalidateFrom over the linear table of successors. *)
Invalidated(i) ==
    [j \in DOMAIN plan |->
        IF j < i THEN steps[j]
        ELSE IF steps[j].status \in {"complete", "halted", "in_progress"}
        THEN [status |-> "stale", result |-> None]
        ELSE IF steps[j].status = "skipped" /\ plan[j].kind = "agent" THEN Reset(steps[j])
        ELSE steps[j]]

(* An integrity check or a refused approval leaves i stale; request-changes  *)
(* reopens it; a verdict retry from a later step reopens the agents behind   *)
(* it as well.                                                               *)
SentBack(i) ==
    /\ HasOutput(plan[i])
    /\ steps[i].status \in {"complete", "halted"}
    /\ \/ steps' = Invalidated(i)
       \/ steps' = [Invalidated(i) EXCEPT ![i] = Reset(@)]
       \/ \E p \in DOMAIN plan :
            /\ plan[p].retryFrom = plan[i].id /\ steps[p].status = "complete"
            /\ steps' = [j \in DOMAIN plan |->
                 IF j = i \/ (plan[j].kind = "agent" /\ Invalidated(i)[j].status = "stale"
                              /\ steps[j].status # "stale")
                 THEN Reset(Invalidated(i)[j]) ELSE Invalidated(i)[j]]
    /\ UNCHANGED startVars

(* A stale, failed or halted step, the steps behind it as they are.  A host  *)
(* handoff cannot be retried: its schema refuses what retry writes.          *)
Retry(i) ==
    /\ plan[i].kind = "agent"
    /\ steps[i].status \in {"stale", "failed", "halted"}
    /\ Sets(i, Reset(steps[i]))

-----------------------------------------------------------------------------
StartStep == \/ StartBegins /\ UNCHANGED <<steps, reopened>>
             \/ Read /\ UNCHANGED <<steps, reopened>>
             \/ Creates /\ UNCHANGED reopened

(* The lock of the run keeps every other command out of a next under way.    *)
RunStep ==
    \E i \in DOMAIN plan :
        \/ NextReopens(i) \/ NextStarts(i)
        \/ /\ reopened = 0 /\ reopened' = 0
           /\ \/ NextSkips(i) \/ Completes(i) \/ Fails(i) \/ Acknowledged(i) \/ Passes(i)
              \/ CycleEnds(i) \/ SentBack(i) \/ Retry(i)

EditStep == \E f \in Path : Edit(f) /\ UNCHANGED <<steps, reopened>>

RunNext == StartStep \/ RunStep \/ NextStops \/ EditStep

RunSpec == RunInit /\ [][RunNext]_runVars /\ WF_runVars(call = "reading" /\ StartStep)
-----------------------------------------------------------------------------
(* A step with a condition is started, but by the next that has reopened it, *)
(* only when every operand of its condition was answered and the condition   *)
(* is true of these answers, wherever a negation stands in it                *)
(* (ConditionEvaluatorService.evaluate).                                     *)
Holds(i, c) ==
    LET at[k \in DOMAIN c] ==
          /\ c[k].op = "equals" => Operand(i, c[k].left) = Operand(i, c[k].right)
          /\ c[k].op = "notEquals" => Operand(i, c[k].left) # Operand(i, c[k].right)
          /\ c[k].op = "all" => \A j \in c[k].of : at[j]
          /\ c[k].op = "any" => \E j \in c[k].of : at[j]
          /\ c[k].op = "not" => \A j \in c[k].of : ~at[j]
    IN  at[Len(c)]

Answered(i) ==
    \A c \in Comparisons(plan[i].when) : Operand(i, c.left) # Nil /\ Operand(i, c.right) # Nil

ConditionHeldAtStart ==
    [][\A i \in DOMAIN plan :
         /\ steps[i].status = "pending" /\ steps'[i].status = "in_progress" /\ reopened # i
         /\ plan[i].kind = "agent" /\ plan[i].when # Nil
         => Answered(i) /\ Holds(i, plan[i].when)]_runVars

(* What was left out is left out for the answers the run holds now: when one *)
(* of them is withdrawn or given anew, the steps its old value had skipped   *)
(* are asked again (step-invalidation.ts).                                   *)
SkippedIsFalseNow ==
    \A i \in DOMAIN plan :
        steps[i].status = "skipped" /\ plan[i].when # Nil
        => ~(Answered(i) /\ Holds(i, plan[i].when))
=============================================================================
