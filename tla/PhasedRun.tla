----------------------------- MODULE PhasedRun -----------------------------
(***************************************************************************)
(* A run whose sequence of steps grows and whose host work is amended:       *)
(* the materialization of an approved phase manifest, the preparation and    *)
(* amendment of host handoffs, and everything that sends work back around    *)
(* them.  src/workflows/implementation-phase-materializer.service.ts,        *)
(* implementation-phase-manifest.ts, workflow-runner.service.ts,             *)
(* stale-invalidation.service.ts, src/agents/host-handoff.service.ts,        *)
(* src/runs/host-handoff-amendment.service.ts, event-log.service.ts.         *)
(*                                                                         *)
(* Unlike WorkflowRun.tla the plan and its table of successors are state.    *)
(* An id is the sequence of its parts, split at each "--" from the right; a  *)
(* content stands for its SHA-256.  A command is one step but for the        *)
(* moments call names.                                                       *)
(***************************************************************************)
EXTENDS Naturals, Sequences, SequencesExt

CONSTANTS
    Plans,          \* the plans a run may be frozen with
    Content,        \* contents of an artifact
    Writes,         \* the contents that may be written as each artifact
    VerdictOf,      \* the verdict of those that end in a VERDICT line
    PhasesIn,       \* the phases of those that are a phase manifest
    MaxAmendments,  \* how often a handoff may be amended (20)
    Editable,       \* artifacts somebody may edit or delete behind the run
    Mortal,         \* plans under which a process may die inside a command
    Nil

Manifest == DOMAIN PhasesIn

-----------------------------------------------------------------------------
(* The steps a manifest becomes, in the place of placeholder d: for every    *)
(* phase an implementation, its review when the workflow names a reviewer,   *)
(* and its gate when the manifest asks for one.                              *)
Work(id) == [id |-> id, kind |-> "agent", artifact |-> id, inputs |-> {},
             internal |-> TRUE, policy |-> FALSE, retryFrom |-> Nil, budget |-> 0,
             reviewer |-> FALSE, patch |-> FALSE]

PhaseSteps(d, p) ==
    LET impl == d.id \o p.id
        review == Append(impl, "review")
    IN  <<[Work(impl) EXCEPT !.patch = TRUE]>>
        \o (IF d.reviewer
            THEN <<[Work(review) EXCEPT !.policy = TRUE, !.retryFrom = impl, !.budget = p.budget]>>
            ELSE << >>)
        \o (IF p.gate
            THEN <<[Work(Append(impl, "approve")) EXCEPT
                      !.kind = "gate", !.artifact = IF d.reviewer THEN review ELSE impl]>>
            ELSE << >>)

Planned == UNION {ToSet(p) : p \in Plans}
Placeholders == {d \in Planned : d.kind = "phases"}

Generated == [d \in Placeholders |-> [m \in Manifest |->
                FlattenSeq([k \in DOMAIN PhasesIn[m] |-> PhaseSteps(d, PhasesIn[m][k])])]]

StepDef == Planned \cup
           UNION {ToSet(Generated[d][m]) : d \in Placeholders, m \in Manifest}
Id == {d.id : d \in StepDef}
Artifact == {d.artifact : d \in StepDef}
Handoff == {d.id : d \in {d \in Planned : d.kind = "host-handoff"}}

(* What workflow.schema.ts, the expansion and createRunState guarantee of the *)
(* steps of a run: ids are unique; a gate stands behind the work it approves; *)
(* the output of a handoff is its own; a verdict policy belongs to an agent,  *)
(* and sends back to earlier work.                                            *)
Works(d) == d.kind \in {"agent", "host-handoff"}

Conforms(p) ==
    /\ \A i, j \in DOMAIN p : p[i].id = p[j].id => i = j
    /\ \A g, i \in DOMAIN p :
         p[g].kind = "gate" /\ Works(p[i]) /\ p[i].artifact = p[g].artifact => i < g
    /\ \A i, j \in DOMAIN p :
         p[i].kind = "host-handoff" /\ Works(p[j]) /\ p[j].artifact = p[i].artifact => i = j
    /\ \A i \in DOMAIN p : p[i].policy =>
         /\ p[i].kind = "agent"
         /\ p[i].budget > 0 => \E j \in 1 .. i - 1 : p[j].id = p[i].retryFrom /\ Works(p[j])

(* id continues the id of a placeholder, as only generated ids do: an id of a *)
(* workflow has no "--", and a mount has its id to itself.                    *)
(* A phase id may contain "--", so that two generated ids may be equal, and   *)
(* nothing looks for that: the manifests of which it is so are left out.      *)
Continues(id, d) == Len(id) > Len(d.id) /\ \A k \in DOMAIN d.id : id[k] = d.id[k]

ASSUME PhasesAssumption ==
    /\ Writes \in [Artifact -> SUBSET Content]
    /\ VerdictOf \in [DOMAIN VerdictOf -> {"APPROVED", "CHANGES_REQUESTED", "BLOCKED"}]
    /\ Nil \notin Content \cup {"APPROVED", "CHANGES_REQUESTED", "BLOCKED"}
    /\ MaxAmendments \in Nat
    /\ Manifest \subseteq Content
    /\ \A m \in Manifest :
         /\ PhasesIn[m] \in Seq([id : Seq(STRING) \ {<< >>}, budget : Nat, gate : BOOLEAN])
         /\ PhasesIn[m] # << >>
         /\ \A d \in Placeholders : \A k, l \in DOMAIN Generated[d][m] :
              Generated[d][m][k].id = Generated[d][m][l].id => k = l
    /\ \A d \in Planned :
         /\ d.kind \in {"agent", "host-handoff", "gate", "phases"}
         /\ d.id \in Seq(STRING)
         /\ d.inputs \subseteq Artifact
         /\ d.budget \in Nat
         /\ d.patch \in BOOLEAN /\ (d.patch => d.kind = "agent")
    /\ \A p \in Plans :
         /\ p \in Seq(Planned)
         /\ Conforms(p)
         /\ \A d, e \in ToSet(p) :
              d.kind = "phases" => ~Continues(e.id, d) /\ ~Continues(e.artifact, d)
         /\ \A i \in DOMAIN p : p[i].kind = "phases" =>
              \E g \in 1 .. i - 1 : p[g].kind = "gate" /\ p[g].artifact = p[i].artifact

VARIABLES
    plan,       \* state.json: what is frozen of each step
    steps,      \* state.json: what changes of each step
    successors, \* state.json: workflow.successors, a set of ids for each id
    current,    \* state.json: currentStepId
    files,      \* the file of each artifact
    archive,    \* host-handoff-revisions/<step>/<revision>.md
    log,        \* how events.jsonl ends
    started,    \* the ids of its readable agent.execution.started events
    call        \* where the command that holds the run lock stands

vars == <<plan, steps, successors, current, files, archive, log, started, call>>

Step == DOMAIN plan

StepState == [status : {"pending", "in_progress", "complete", "failed", "stale"},
              output : Content \cup {Nil}, seen : SUBSET (Artifact \X Content),
              verdict : {"APPROVED", "CHANGES_REQUESTED", "BLOCKED", Nil},
              exhausted : BOOLEAN, acked : BOOLEAN, retries : Nat,
              approval : Content \cup {Nil},     \* of a gate
              manifest : Content \cup {Nil},     \* manifestSha256 of a placeholder
              prepared : BOOLEAN,                \* handoffPreparedAt
              external : BOOLEAN,                \* externalRecovery
              amendments : Seq(Content),
              announced : SUBSET (Artifact \X Content), \* history: hashes shown to the host
              taken : BOOLEAN,                   \* history: put under way by hand
              ran : BOOLEAN]                     \* history: its agent was started

Call == {"none", "next", "materialize", "prepare", "dispatch", "spawn", "agent", "retry"}

(* Every variable keeps its type; the table of successors has an entry for   *)
(* every step of the run, and names steps of it only.                        *)
TypeOK ==
    /\ plan \in Seq(StepDef)
    /\ steps \in [Step -> StepState]
    /\ DOMAIN successors = {plan[i].id : i \in Step}
    /\ \A id \in DOMAIN successors : successors[id] \subseteq DOMAIN successors
    /\ current \in Id \cup {Nil}
    /\ files \in [Artifact -> Content \cup {Nil}]
    /\ archive \in [Handoff -> [1 .. MaxAmendments -> Content \cup {Nil}]]
    /\ log \in {"whole", "torn", "broken"}
    /\ started \subseteq Id
    /\ call \in Call

NewStep == [status |-> "pending", output |-> Nil, seen |-> {}, verdict |-> Nil,
            exhausted |-> FALSE, acked |-> FALSE, retries |-> 0, approval |-> Nil,
            manifest |-> Nil, prepared |-> FALSE, external |-> FALSE,
            amendments |-> << >>, announced |-> {}, taken |-> FALSE, ran |-> FALSE]

Init ==
    /\ plan \in Plans
    /\ steps = [i \in Step |-> NewStep]
    /\ successors = [id \in {plan[i].id : i \in Step} |->
                       {plan[i + 1].id : i \in {i \in 1 .. Len(plan) - 1 : plan[i].id = id}}]
    /\ current = Nil
    /\ files = [a \in Artifact |-> Nil]
    /\ archive = [h \in Handoff |-> [n \in 1 .. MaxAmendments |-> Nil]]
    /\ log = "whole"
    /\ started = {}
    /\ call = "none"

-----------------------------------------------------------------------------
(* Helpers *)

IsGate(i) == plan[i].kind = "gate"
IsAgent(i) == plan[i].kind = "agent"
IsHandoff(i) == plan[i].kind = "host-handoff"
IsWork(i) == IsAgent(i) \/ IsHandoff(i)
IsPhases(i) == plan[i].kind = "phases"

IndexOf(id) == CHOOSE i \in Step : plan[i].id = id
Cur == IndexOf(current)

DoneBefore(i) == \A j \in 1 .. i - 1 : steps[j].status = "complete"

(* The step that next arrived at, which its command goes on with.            *)
Served == CHOOSE i \in Step : steps[i].status # "complete" /\ DoneBefore(i)

isVerdictHalted(i) ==
    /\ steps[i].status = "complete" /\ ~steps[i].acked
    /\ steps[i].verdict = "BLOCKED" \/ steps[i].exhausted

Producers(a) ==
    {i \in Step : /\ IsWork(i) /\ plan[i].artifact = a
                  /\ steps[i].status = "complete" /\ steps[i].output # Nil}
LastOf(S) == CHOOSE i \in S : \A j \in S : j <= i
FirstOf(S) == CHOOSE i \in S : \A j \in S : i <= j
producerForArtifact(a) == LastOf(Producers(a))

(* The steps the table leads to from step i. *)
Successors(i) == {j \in Step : plan[j].id \in successors[plan[i].id]}
Behind(i) ==
    LET within[n \in 0 .. Len(plan)] ==
          IF n = 0 THEN Successors(i)
          ELSE UNION {{j} \cup Successors(j) : j \in within[n - 1]}
    IN  within[Len(plan)]

Reset(r) == [r EXCEPT !.status = "pending", !.output = Nil, !.seen = {},
                      !.verdict = Nil, !.exhausted = FALSE, !.prepared = FALSE, !.taken = FALSE]
Outdate(r) == [r EXCEPT !.status = "stale", !.verdict = Nil, !.exhausted = FALSE,
                        !.approval = Nil, !.prepared = FALSE, !.taken = FALSE]

Invalidated_ForgetsGates(i, keep) ==
    LET reached == ({i} \cup Behind(i)) \ {keep}
    IN  [j \in Step |->
           IF j \in reached /\ ~IsGate(j) /\ steps[j].status \in {"complete", "in_progress"}
           THEN Outdate(steps[j]) ELSE steps[j]]

(* invalidateFrom. *)
Invalidated(i, keep) ==
    LET reached == ({i} \cup Behind(i)) \ {keep}
    IN  [j \in Step |->
           IF j \in reached /\ steps[j].status \in {"complete", "in_progress"}
           THEN Outdate(steps[j]) ELSE steps[j]]

Invalidatable_Always(i) == TRUE

(* invalidateFrom puts handoffPreparedAt on a placeholder, whose strict      *)
(* schema refuses the key: nothing at or before a materialized one can be    *)
(* invalidated, the save throws.                                             *)
Invalidatable(i) ==
    ~\E j \in {i} \cup Behind(i) : IsPhases(j) /\ steps[j].status = "complete"

Discarded(a, internal) == IF internal THEN [files EXCEPT ![a] = Nil] ELSE files

Frozen == UNCHANGED <<plan, successors>>
Quiet == UNCHANGED <<archive, log, started>>

-----------------------------------------------------------------------------
(* next, with the check of the approved artifacts it begins with *)

Broken(g) ==
    /\ IsGate(g)
    /\ steps[g].status = "complete"
    /\ steps[g].approval # Nil
    /\ \/ Producers(plan[g].artifact) = {}
       \/ files[plan[g].artifact] # steps[g].approval

PreflightPasses == \A g \in Step : ~Broken(g)

PreflightRefuses ==
    /\ call \in {"none", "next"}
    /\ \E g \in Step :
         LET P == Producers(plan[g].artifact)
         IN  /\ Broken(g)
             /\ \A h \in 1 .. g - 1 : ~Broken(h)
             /\ steps' = IF P # {} /\ Invalidatable(LastOf(P))
                         THEN [Invalidated(LastOf(P), 0) EXCEPT ![g] = Outdate(@)]
                         ELSE steps
    /\ call' = "none"
    /\ Frozen /\ Quiet /\ UNCHANGED <<current, files>>

AdvanceStarts ==
    /\ call = "none"
    /\ call' = "next"
    /\ Frozen /\ Quiet /\ UNCHANGED <<steps, current, files>>

Reached(i) ==
    /\ call = "next"
    /\ PreflightPasses
    /\ ~\E h \in Step : isVerdictHalted(h)
    /\ DoneBefore(i)
    /\ i \in Step => steps[i].status # "complete"

(* A halt, a failed step or the end. *)
NextStops ==
    /\ call = "next"
    /\ PreflightPasses
    /\ \/ \E h \in Step : isVerdictHalted(h)
       \/ Reached(Len(plan) + 1)
       \/ \E i \in Step : Reached(i) /\ steps[i].status = "failed"
    /\ call' = "none"
    /\ Frozen /\ Quiet /\ UNCHANGED <<steps, current, files>>

NextGate(i) ==
    /\ Reached(i)
    /\ IsGate(i)
    /\ steps' = [steps EXCEPT ![i] = [@ EXCEPT !.status = "pending", !.approval = Nil]]
    /\ call' = "none"
    /\ Frozen /\ Quiet /\ UNCHANGED <<current, files>>

NextPhases(i) ==
    /\ Reached(i)
    /\ IsPhases(i)
    /\ call' = "materialize"
    /\ Frozen /\ Quiet /\ UNCHANGED <<steps, current, files>>

(* advance goes on with the step; next and --only-pre-authorized stop.       *)
HandsOver(i) == call' \in {"none", IF IsAgent(i) THEN "dispatch" ELSE "prepare"}

NextInProgress(i) ==
    /\ Reached(i)
    /\ steps[i].status = "in_progress"
    /\ IF steps[i].external THEN call' = "none" ELSE HandsOver(i)
    /\ Frozen /\ Quiet /\ UNCHANGED <<steps, current, files>>

InputArtifacts(i) ==
    {a \in Artifact : /\ IsAgent(i) \/ a \in plan[i].inputs
                      /\ \E p \in Producers(a) : p < i}

(* Stale work is reopened in a save of its own; hashing a missing input      *)
(* throws after it.                                                          *)
NextStarts(i) ==
    /\ Reached(i)
    /\ IsWork(i)
    /\ steps[i].status \in {"pending", "stale"}
    /\ LET r == IF steps[i].status = "stale" THEN [Reset(steps[i]) EXCEPT !.acked = FALSE]
                                             ELSE steps[i]
       IN  IF \A a \in InputArtifacts(i) : files[a] # Nil
           THEN /\ steps' = [steps EXCEPT ![i] = [r EXCEPT
                     !.status = "in_progress",
                     !.seen = {<<a, files[a]>> : a \in InputArtifacts(i)}]]
                /\ current' = plan[i].id
                /\ HandsOver(i)
           ELSE /\ steps' = [steps EXCEPT ![i] = r]
                /\ current' = IF steps[i].status = "stale" /\ current = plan[i].id THEN Nil ELSE current
                /\ call' = "none"
    /\ Frozen /\ Quiet /\ UNCHANGED files

-----------------------------------------------------------------------------
(* The materialization of an approved manifest *)

(* The gate that approved what the file holds now. *)
ApprovedAsRead_AnyText(i) ==
    \E g \in 1 .. i - 1 : /\ IsGate(g) /\ plan[g].artifact = plan[i].artifact
                          /\ steps[g].status = "complete" /\ steps[g].approval # Nil

ApprovedAsRead(i) ==
    LET a == plan[i].artifact
        gates == {g \in 1 .. i - 1 : /\ IsGate(g) /\ plan[g].artifact = a
                                     /\ steps[g].status = "complete" /\ steps[g].approval # Nil}
        sources == {p \in Producers(a) : p < i}
    IN  /\ gates # {} /\ steps[FirstOf(gates)].approval = files[a]
        /\ sources # {} /\ steps[FirstOf(sources)].output = files[a]

(* The table: the placeholder leads to the first generated step, each of     *)
(* them to the next, and the last one to where the placeholder led.          *)
Spliced_Unlinked(i, new) ==
    [id \in DOMAIN successors \cup {s.id : s \in ToSet(new)} |->
        IF id = plan[i].id THEN {new[1].id}
        ELSE IF id \in DOMAIN successors THEN successors[id]
        ELSE {new[k + 1].id : k \in {k \in 1 .. Len(new) - 1 : new[k].id = id}}]

Spliced_OldTable(i, new) == [successors EXCEPT ![plan[i].id] = {new[1].id}]

Spliced(i, new) ==
    [id \in DOMAIN successors \cup {s.id : s \in ToSet(new)} |->
        IF id = plan[i].id THEN {new[1].id}
        ELSE IF id \in DOMAIN successors THEN successors[id]
        ELSE IF id = Last(new).id THEN successors[plan[i].id]
        ELSE {new[k + 1].id : k \in {k \in 1 .. Len(new) : new[k].id = id}}]

Before(s, i) == SubSeq(s, 1, i - 1)
After(s, i) == SubSeq(s, i + 1, Len(s))

(* advance goes on, a plain next stops here. *)
Materialize(i) ==
    LET m == files[plan[i].artifact]
        new == Generated[plan[i]][m]
    IN  /\ call = "materialize"
        /\ IsPhases(i)
        /\ DoneBefore(i)
        /\ steps[i].status = "pending"
        /\ IF ApprovedAsRead(i) /\ m \in Manifest
           THEN /\ plan' = Before(plan, i) \o <<plan[i]>> \o new \o After(plan, i)
                /\ steps' = Before(steps, i)
                            \o <<[steps[i] EXCEPT !.status = "complete", !.manifest = m]>>
                            \o [k \in DOMAIN new |-> NewStep] \o After(steps, i)
                /\ successors' = Spliced(i, new)
                /\ call' \in {"next", "none"}
           ELSE call' = "none" /\ Frozen /\ UNCHANGED steps
        /\ Quiet /\ UNCHANGED <<current, files>>

-----------------------------------------------------------------------------
(* advance executes an agent step *)

Policied(i) == plan[i].policy
RetryDue(i, v) == v = "CHANGES_REQUESTED" /\ steps[i].retries < plan[i].budget

(* CompletionService.complete, of the current step; the command goes on at b. *)
Completes(i, f, b) ==
    LET c == f[plan[i].artifact]
        v == IF Policied(i) THEN VerdictOf[c] ELSE Nil
    IN  /\ c # Nil
        /\ Policied(i) => c \in DOMAIN VerdictOf
        /\ current = plan[i].id
        /\ steps' = [steps EXCEPT ![i] = [@ EXCEPT
                       !.status = "complete", !.output = c, !.verdict = v, !.external = FALSE,
                       !.exhausted = v = "CHANGES_REQUESTED" /\ ~RetryDue(i, v)]]
        /\ files' = f
        /\ call' = IF Policied(i) /\ RetryDue(i, v) THEN "retry" ELSE b
        /\ Frozen /\ Quiet /\ UNCHANGED current

Fails(i, f) ==
    /\ steps' = [steps EXCEPT ![i] = [@ EXCEPT !.status = "failed", !.taken = FALSE]]
    /\ files' = f
    /\ call' = "none"
    /\ Frozen /\ Quiet /\ UNCHANGED current

(* The second save of a completion: the implementation and the steps behind  *)
(* it that it outdates are reopened.  Their internal outputs are discarded   *)
(* before it, also when the save is refused or fails.                        *)
Retried(t, counted) ==
    LET inv == Invalidated(t, 0)
    IN  [j \in Step |->
           LET r == IF j = t \/ (IsAgent(j) /\ inv[j].status = "stale" /\ steps[j].status # "stale")
                    THEN Reset(inv[j]) ELSE inv[j]
           IN  IF j = counted THEN [r EXCEPT !.retries = @ + 1] ELSE r]

RetriesVerdict(counted) ==
    LET t == IndexOf(plan[Cur].retryFrom)
    IN  /\ call = "retry"
        /\ files' = [a \in Artifact |->
             IF \E j \in {t} \cup Behind(t) : IsAgent(j) /\ plan[j].internal /\ plan[j].artifact = a
             THEN Nil ELSE files[a]]
        /\ \/ /\ Invalidatable(t)
              /\ steps' = Retried(t, counted)
              /\ current' = Nil
              /\ call' \in {"none", "next"}
           \/ call' = "none" /\ UNCHANGED <<steps, current>>
        /\ Frozen /\ Quiet

ApplyVerdictRetry_Uncounted == RetriesVerdict(0)
ApplyVerdictRetry == RetriesVerdict(Cur)

(* An event that cannot be logged before it leaves the verdict as it stands. *)
RetryLost ==
    /\ call = "retry"
    /\ call' = "none"
    /\ Frozen /\ Quiet /\ UNCHANGED <<steps, current, files>>

Reusable(i) == plan[i].internal /\ files[plan[i].artifact] # Nil

AdvanceReuses ==
    /\ call = "dispatch"
    /\ Reusable(Served)
    /\ Completes(Served, files, "next") \/ Fails(Served, files)

(* agent.execution.started is logged before the agent is spawned.  After a   *)
(* torn line the event continues that line, and neither can be read.         *)
AdvanceLogs ==
    /\ call = "dispatch"
    /\ ~Reusable(Served)
    /\ started' = IF log = "whole" THEN started \cup {plan[Served].id} ELSE started
    /\ log' = IF log = "whole" THEN "whole" ELSE "broken"
    /\ call' = "spawn"
    /\ Frozen /\ UNCHANGED <<steps, current, files, archive>>

AdvanceSpawns ==
    /\ call = "spawn"
    /\ steps' = [steps EXCEPT ![Served].ran = TRUE]
    /\ call' = "agent"
    /\ Frozen /\ Quiet /\ UNCHANGED <<current, files>>

Publish(i, c) == [files EXCEPT ![plan[i].artifact] = c]

AgentReturns ==
    /\ call = "agent"
    /\ \E c \in Writes[plan[Served].artifact] :
         \/ \E b \in {"none", "next"} : Completes(Served, Publish(Served, c), b)
         \/ Fails(Served, Publish(Served, c))

AgentFails ==
    /\ call \in {"dispatch", "spawn", "agent"}
    /\ Fails(Served, files)

-----------------------------------------------------------------------------
(* Host handoffs, and the recovery of a failed patch step by hand *)

InputsAsRecorded_Unchecked(i) == TRUE

(* Every declared input still has the content recorded when the step began.  *)
InputsAsRecorded(i) ==
    \A a \in plan[i].inputs : Producers(a) # {} /\ <<a, files[a]>> \in steps[i].seen

(* HostHandoffService.prepare, for advance and next alike: the handoff, with *)
(* the path and the hash of each input, is printed each time, recorded once. *)
PrepareHandoff ==
    /\ call = "prepare"
    /\ steps' = IF InputsAsRecorded(Served)
                THEN [steps EXCEPT ![Served] = [@ EXCEPT !.prepared = TRUE,
                        !.announced = {<<a, files[a]>> : a \in plan[Served].inputs}]]
                ELSE steps
    /\ call' = "none"
    /\ Frozen /\ Quiet /\ UNCHANGED <<current, files>>

(* Published, then completed; an output that cannot be completed is          *)
(* discarded, unless the process dies first.                                 *)
Submits(i) ==
    /\ call = "none"
    /\ current = plan[i].id
    /\ steps[i].status = "in_progress"
    /\ \/ \E c \in Writes[plan[i].artifact] :
            \/ Completes(i, Publish(i, c), "none")
            \/ /\ plan \in Mortal
               /\ files' = Publish(i, c)
               /\ Frozen /\ Quiet /\ UNCHANGED <<steps, current, call>>
       \/ Fails(i, Publish(i, Nil))

SubmitHostOutput(i) == IsHandoff(i) /\ Submits(i)

(* prepare-external-agent-output takes a failed patch step, wherever in the  *)
(* run it stands; what it was recovered with is submitted.                   *)
PrepareExternal(i) ==
    /\ call = "none"
    /\ plan[i].patch
    /\ steps[i].status = "failed"
    /\ steps' = [steps EXCEPT ![i] = [@ EXCEPT
                   !.status = "in_progress", !.external = TRUE, !.taken = TRUE]]
    /\ current' = plan[i].id
    /\ Frozen /\ Quiet /\ UNCHANGED <<files, call>>

SubmitAgentOutput(i) == steps[i].external /\ Submits(i)

NotExecuted_Unlogged(i) ==
    \A j \in Behind(i) :
        /\ IsWork(j) => steps[j].output = Nil
        /\ steps[j].status # "complete"
        /\ IsAgent(j) => plan[j].id \notin started

(* assertDependenciesNotExecuted; a log with an unreadable line in its       *)
(* middle is refused.                                                        *)
NotExecuted(i) ==
    /\ log # "broken"
    /\ \A j \in Behind(i) :
         /\ IsWork(j) => steps[j].output = Nil
         /\ steps[j].status # "complete"
         /\ IsAgent(j) => plan[j].id \notin started

Amendable(i) ==
    /\ call = "none"
    /\ IsHandoff(i)
    /\ steps[i].status = "complete"
    /\ Len(steps[i].amendments) < MaxAmendments
    /\ NotExecuted(i)
    /\ files[plan[i].artifact] = steps[i].output

Revision_Last(i) == IF steps[i].amendments = << >> THEN 1 ELSE Len(steps[i].amendments)
Revision(i) == Len(steps[i].amendments) + 1

Archived(i) == archive' = [archive EXCEPT ![plan[i].id][Revision(i)] = steps[i].output]

(* The text is archived, its file removed, the handoff and all behind it     *)
(* reopened.                                                                 *)
Amend(i) ==
    LET dependents == Behind(i)
    IN  /\ Amendable(i)
        /\ ~\E j \in dependents : IsPhases(j)
        /\ Archived(i)
        /\ files' = [files EXCEPT ![plan[i].artifact] = Nil]
        /\ steps' = [j \in Step |->
             IF j = i THEN [Reset(steps[i]) EXCEPT !.amendments = Append(@, steps[i].output)]
             ELSE IF j \notin dependents THEN steps[j]
             ELSE [Reset(steps[j]) EXCEPT !.approval = Nil, !.external = FALSE]]
        /\ current' = Nil
        /\ Frozen /\ UNCHANGED <<log, started, call>>

(* The process dies before the state is saved, or, with a placeholder behind *)
(* the handoff, the save refuses a key that its schema does not know.        *)
AmendCutOff(i) ==
    /\ Amendable(i)
    /\ plan \in Mortal \/ \E j \in Behind(i) : IsPhases(j)
    /\ Archived(i)
    /\ \/ files' = [files EXCEPT ![plan[i].artifact] = Nil]
       \/ plan \in Mortal /\ UNCHANGED files
    /\ Frozen /\ UNCHANGED <<steps, current, log, started, call>>

-----------------------------------------------------------------------------
(* The decisions of the human *)

consumersWithOutdatedInput(a) ==
    {i \in Step :
        /\ IsWork(i)
        /\ steps[i].status = "complete"
        /\ \E in \in steps[i].seen : in[1] = a /\ in[2] # files[a]
        /\ plan[i].artifact # a
        /\ \A p \in Producers(a) : p <= i}

Approvable(g) ==
    /\ call = "none"
    /\ PreflightPasses
    /\ IsGate(g)
    /\ steps[g].status = "pending"
    /\ DoneBefore(g)
    /\ Producers(plan[g].artifact) # {}
    /\ files[plan[g].artifact] # Nil

Approve(g) ==
    LET a == plan[g].artifact
    IN  /\ Approvable(g)
        /\ consumersWithOutdatedInput(a) = {}
        /\ steps' = [steps EXCEPT
                       ![producerForArtifact(a)].output = files[a],
                       ![g].status = "complete", ![g].approval = files[a]]
        /\ Frozen /\ Quiet /\ UNCHANGED <<current, files, call>>

ApproveRefused(g) ==
    LET outdated == consumersWithOutdatedInput(plan[g].artifact)
    IN  /\ Approvable(g)
        /\ outdated # {}
        /\ Invalidatable(FirstOf(outdated))
        /\ steps' = Invalidated(FirstOf(outdated), 0)
        /\ Frozen /\ Quiet /\ UNCHANGED <<current, files, call>>

(* An internal output is discarded before the save that may be refused. *)
RequestChanges(g) ==
    LET a == plan[g].artifact
        p == producerForArtifact(a)
    IN  /\ call = "none"
        /\ IsGate(g)
        /\ steps[g].status # "stale"
        /\ Producers(a) # {}
        /\ files' = Discarded(a, plan[p].internal)
        /\ IF Invalidatable(p)
           THEN /\ steps' = [Invalidated(p, p) EXCEPT
                     ![p] = Reset(@), ![g] = [@ EXCEPT !.status = "pending", !.approval = Nil]]
                /\ current' = IF current = plan[p].id THEN Nil ELSE current
           ELSE UNCHANGED <<steps, current>>
        /\ Frozen /\ Quiet /\ UNCHANGED call

(* The schema of a host handoff refuses what retry writes. *)
Retry(i) ==
    /\ call = "none"
    /\ IsWork(i)
    /\ steps[i].status \in {"stale", "failed"} \/ isVerdictHalted(i)
    /\ files' = Discarded(plan[i].artifact, plan[i].internal)
    /\ IF IsAgent(i)
       THEN /\ steps' = [steps EXCEPT ![i] = [Reset(@) EXCEPT !.acked = FALSE]]
            /\ current' = IF current = plan[i].id THEN Nil ELSE current
       ELSE UNCHANGED <<steps, current>>
    /\ Frozen /\ Quiet /\ UNCHANGED call

Acknowledge(i) ==
    /\ call = "none"
    /\ isVerdictHalted(i)
    /\ steps' = [steps EXCEPT ![i].acked = TRUE]
    /\ Frozen /\ Quiet /\ UNCHANGED <<current, files, call>>

Edit(a) ==
    /\ a \in Editable /\ \E i \in Step : plan[i].artifact = a
    /\ \E c \in Writes[a] \cup {Nil} : c # files[a] /\ files' = [files EXCEPT ![a] = c]
    /\ Frozen /\ Quiet /\ UNCHANGED <<steps, current, call>>

(* The process dies; it may be in the middle of a line of the log. *)
Crash ==
    /\ plan \in Mortal
    /\ call # "none"
    /\ call' = "none"
    /\ log' \in {log, IF log = "whole" THEN "torn" ELSE log}
    /\ Frozen /\ UNCHANGED <<steps, current, files, archive, started>>

(* Any other event, after a line that a crash cut off. *)
LogGrows ==
    /\ log = "torn"
    /\ log' = "broken"
    /\ Frozen /\ UNCHANGED <<steps, current, files, archive, started, call>>

-----------------------------------------------------------------------------
Machine ==
    \/ PreflightRefuses \/ NextStops
    \/ \E i \in Step : \/ NextGate(i) \/ NextPhases(i) \/ NextInProgress(i) \/ NextStarts(i)
                       \/ Materialize(i)
    \/ AdvanceReuses \/ AdvanceLogs \/ AdvanceSpawns \/ AgentReturns \/ AgentFails
    \/ ApplyVerdictRetry \/ RetryLost \/ PrepareHandoff

Human ==
    \/ \E i \in Step : \/ SubmitHostOutput(i) \/ PrepareExternal(i) \/ SubmitAgentOutput(i)
                       \/ Amend(i) \/ AmendCutOff(i)
                       \/ Approve(i) \/ ApproveRefused(i) \/ RequestChanges(i)
                       \/ Retry(i) \/ Acknowledge(i)
    \/ \E a \in Artifact : Edit(a)

Next == Machine \/ Human \/ AdvanceStarts \/ Crash \/ LogGrows

Spec == Init /\ [][Next]_vars

(* A command that runs goes on by itself; the timeout ends an agent. *)
FairSpec == Spec /\ WF_vars(call # "none" /\ Machine)
-----------------------------------------------------------------------------
(* Work is complete or under way only behind finished steps, also across a   *)
(* sequence that was inserted meanwhile: what is sent back takes back every  *)
(* later phase and the steps behind the placeholder.  Only a failed patch    *)
(* step that was recovered by hand may be ahead of its turn, and it takes no *)
(* other work along (implementation-phase-materializer.service.ts,           *)
(* step-invalidation.ts, external-agent-recovery.service.ts).                *)
WorkInOrder ==
    \A i \in Step : IsWork(i) /\ ~steps[i].taken /\ steps[i].status \in {"complete", "in_progress"}
                   => DoneBefore(i)

(* The steps behind a materialized placeholder are those of the manifest a   *)
(* human approved, and that approval still stands                            *)
(* (ImplementationPhaseMaterializerService.materialize).                     *)
SequenceIsOfApprovedManifest ==
    \A i \in Step :
        LET m == steps[i].manifest
        IN  IsPhases(i) /\ steps[i].status = "complete"
            => /\ \E g \in 1 .. i - 1 : /\ IsGate(g) /\ plan[g].artifact = plan[i].artifact
                                        /\ steps[g].status = "complete" /\ steps[g].approval = m
               /\ IsPrefix(Generated[plan[i]][m], After(plan, i))

(* A handoff is amended only before any agent behind it was ever started and *)
(* before anything behind it published or was approved, whatever was reset,  *)
(* failed or killed since and however the log was torn                       *)
(* (host-handoff-amendment.service.ts assertDependenciesNotExecuted).        *)
AmendedBeforeAnyReader ==
    [][\A i \in Step : Len(steps'[i].amendments) > Len(steps[i].amendments)
         => \A j \in Step : j > i => /\ ~steps[j].ran
                                     /\ steps[j].status # "complete"
                                     /\ steps[j].output = Nil]_vars

(* A text that was completed and amended is kept: every recorded amendment   *)
(* has its archived revision, and a handoff whose file an amendment removed  *)
(* without reopening it has its text in the archive                          *)
(* (FileStateStore.preserveHostHandoffRevision).                             *)
AmendedTextIsKept ==
    \A i \in Step :
        LET r == steps[i]
        IN  IsHandoff(i)
            => /\ \A n \in DOMAIN r.amendments : archive[plan[i].id][n] = r.amendments[n]
               /\ r.status = "complete" /\ files[plan[i].artifact] # r.output
                    /\ plan[i].artifact \notin Editable /\ ~plan[i].internal
                  => archive[plan[i].id][Revision(i)] = r.output

(* The approval of a handoff's text stands only while that text is the       *)
(* completed one: amending, sending back or rewriting it withdraws it        *)
(* (host-handoff-amendment.service.ts, stale-invalidation.service.ts).       *)
ApprovedHandoffIsCurrent ==
    \A g, i \in Step :
        /\ IsGate(g) /\ steps[g].status = "complete"
        /\ IsHandoff(i) /\ plan[i].artifact = plan[g].artifact
        => steps[i].status = "complete" /\ steps[i].output = steps[g].approval

(* The hashes a handoff announces to the host are those the step recorded    *)
(* and later invalidations compare: across edits, reopenings and repeated    *)
(* preparations no waiting or completed handoff announced others.  What the  *)
(* host then reads at the announced paths is not part of it                  *)
(* (HostHandoffService.prepare).                                             *)
AnnouncedInputsAreRecorded ==
    \A i \in Step :
        IsHandoff(i) /\ steps[i].prepared /\ steps[i].status \in {"in_progress", "complete"}
        => steps[i].announced = steps[i].seen

(* advance ends, through materializations and verdict retries alike          *)
(* (advance.command.ts, the for loop).                                       *)
AdvanceEnds == call # "none" ~> call = "none"
=============================================================================
