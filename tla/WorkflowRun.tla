---------------------------- MODULE WorkflowRun ----------------------------
(***************************************************************************)
(* One run of a frozen workflow: the state file the commands read and save, *)
(* the artifacts they publish and verify, and the humans, agents and        *)
(* crashes around them.  src/workflows/workflow-runner.service.ts,          *)
(* stale-invalidation.service.ts, verdict-completion.policy.ts,             *)
(* gate.service.ts, src/runs/completion.service.ts, step-invalidation.ts,   *)
(* file-state.store.ts, src/commands/advance.command.ts.                    *)
(*                                                                         *)
(* The run lock (RunLock.tla) admits one command at a time, so a command is *)
(* one step, except where the code leaves a moment between two saves, reads *)
(* files twice or waits for an agent: those moments are the values of call. *)
(* A content stands for its SHA-256; the file of an artifact is indexed by  *)
(* the artifact, because the steps of a review cycle rewrite the same path. *)
(*                                                                         *)
(* No step of these plans produces a patch: a failed patch step may be      *)
(* taken over outside the order of the work, which PhasedRun.tla models,    *)
(* and PatchStep.tla what its completion does to the repository.            *)
(***************************************************************************)
EXTENDS Naturals, Sequences

CONSTANTS
    Plan,           \* the frozen steps of the run, in order
    Artifact,       \* the declared output ids
    Text,           \* contents of an ordinary artifact
    Review,         \* contents that end in a VERDICT line
    VerdictOf,      \* the verdict each of those states
    TemplateText,   \* what a documentation template initializes a file with
    Nil,            \* an absent file, hash, output or verdict
    Editable,       \* artifacts somebody may edit or delete behind the run
    Crashes         \* whether a process may die in the middle of a command

Verdict == {"APPROVED", "CHANGES_REQUESTED", "BLOCKED"}
Content == Text \cup Review
Step == 1 .. Len(Plan)

(* artifact is the declared output of work and the approved artifact of a    *)
(* gate; cycle identifies a review cycle; budget 0 means that the policy has *)
(* no changesRequested clause.                                               *)
StepDef == [kind : {"agent", "host-handoff", "gate"},
            artifact : Artifact, inputs : SUBSET Artifact,
            role : {"none", "policy", "review", "consolidate"},
            cycle : Nat, retryFrom : Nat, budget : Nat,
            internal : BOOLEAN, template : BOOLEAN, when : BOOLEAN,
            explicit : BOOLEAN, patch : BOOLEAN]

IsGate(i) == Plan[i].kind = "gate"
IsAgent(i) == Plan[i].kind = "agent"
IsWork(i) == ~IsGate(i)
IsPolicy(i) == IsAgent(i) /\ Plan[i].role = "policy"
IsReview(i) == IsAgent(i) /\ Plan[i].role = "review"

(* What the workflow schema and the expansion of a review cycle guarantee:   *)
(* among others that its steps have no condition, and that only they share   *)
(* an output; and that no step produces a patch, which they do not.          *)
ASSUME PlanAssumption ==
    /\ Plan \in Seq(StepDef)
    /\ VerdictOf \in [Review -> Verdict]
    /\ TemplateText \in Text
    /\ Nil \notin Content \cup Verdict
    /\ Editable \subseteq Artifact
    /\ Crashes \in BOOLEAN
    /\ \A i \in Step : ~Plan[i].patch
    /\ \A g, i \in Step : IsGate(g) /\ IsWork(i) /\ Plan[i].artifact = Plan[g].artifact
                          => i < g
    /\ \A i \in Step : IsPolicy(i) /\ Plan[i].budget > 0
                       => Plan[i].retryFrom \in 1 .. i - 1 /\ IsWork(Plan[i].retryFrom)
    /\ \A i \in Step : IsReview(i) => i > 1 /\ IsWork(i - 1)
    /\ \A i \in Step : Plan[i].cycle > 0 => ~Plan[i].when
    /\ \A i, j \in Step : IsPolicy(i) /\ IsWork(j) /\ Plan[j].artifact = Plan[i].artifact
                          => i = j

VARIABLES
    steps,      \* state.json: what is persisted of each step
    current,    \* state.json: currentStepId, 0 when undefined
    files,      \* the file of each artifact
    call,       \* where the command that holds the run lock stands
    back,       \* where it goes on after a start or a second save
    judged,     \* history: the text a review was written about
    slipped     \* history: the steps during whose start somebody edited a file

vars == <<steps, current, files, call, back, judged, slipped>>

Status == {"pending", "in_progress", "complete", "skipped", "failed", "stale"}

StepState == [status : Status, output : Content \cup {Nil},
              inputs : [Artifact -> Content \cup {Nil}],
              verdict : Verdict \cup {Nil}, exhausted : BOOLEAN,
              acked : BOOLEAN, retries : Nat, approval : Content \cup {Nil}]

(* "none": nobody; "next": an advance about to ask for the next step;        *)
(* "start": next has checked the approvals and not yet read the inputs;      *)
(* "dispatch": advance was given agent work; "agent": the agent runs;        *)
(* "retry": a completion is saved, the retry its verdict asked for is not.   *)
Call == {"none", "next", "start", "dispatch", "agent", "retry"}

(* Every variable keeps the type the run-state schema gives it.              *)
TypeOK ==
    /\ steps \in [Step -> StepState]
    /\ current \in Step \cup {0}
    /\ files \in [Artifact -> Content \cup {Nil}]
    /\ call \in Call
    /\ back \in {"none", "next"}
    /\ judged \in [Step -> Content \cup {Nil}]
    /\ slipped \subseteq Step

NoInputs == [a \in Artifact |-> Nil]

NewStep == [status |-> "pending", output |-> Nil, inputs |-> NoInputs,
            verdict |-> Nil, exhausted |-> FALSE, acked |-> FALSE,
            retries |-> 0, approval |-> Nil]

Init ==
    /\ steps = [i \in Step |-> NewStep]
    /\ current = 0
    /\ files = [a \in Artifact |-> Nil]
    /\ call = "none"
    /\ back = "none"
    /\ judged = [i \in Step |-> Nil]
    /\ slipped = {}

-----------------------------------------------------------------------------
(* Helpers on a table s of steps *)

Done(s, i) == s[i].status \in {"complete", "skipped"}
DoneBefore(s, i) == \A j \in Step : j < i => Done(s, j)

isVerdictHalted_OnlyBlocked(s, i) ==
    IsPolicy(i) /\ s[i].status = "complete" /\ ~s[i].acked /\ s[i].verdict = "BLOCKED"

isVerdictHalted(s, i) ==
    /\ IsPolicy(i)
    /\ s[i].status = "complete"
    /\ ~s[i].acked
    /\ s[i].verdict = "BLOCKED" \/ s[i].exhausted

(* The completed steps that wrote artifact a, and the last of them. *)
Producers(s, a) ==
    {i \in Step : /\ IsWork(i) /\ Plan[i].artifact = a
                  /\ s[i].status = "complete" /\ s[i].output # Nil}
LastOf(S) == CHOOSE i \in S : \A j \in S : j <= i
FirstOf(S) == CHOOSE i \in S : \A j \in S : i <= j
producerForArtifact(s, a) == LastOf(Producers(s, a))

(* The fields every path back to pending clears. *)
Reset(r) == [r EXCEPT !.status = "pending", !.output = Nil, !.inputs = NoInputs,
                      !.verdict = Nil, !.exhausted = FALSE]
Outdate(r) == [r EXCEPT !.status = "stale", !.verdict = Nil, !.exhausted = FALSE,
                        !.approval = Nil]

(* The successors of a step are the steps after it. *)
invalidateFrom_KeepsSkipped(s, source, keep) ==
    [i \in Step |->
        IF i >= source /\ i # keep /\ s[i].status \in {"complete", "in_progress"}
        THEN Outdate(s[i]) ELSE s[i]]

invalidateFrom_KeepsRunning(s, source, keep) ==
    [i \in Step |->
        IF i < source \/ i = keep THEN s[i]
        ELSE IF s[i].status = "complete" THEN Outdate(s[i])
        ELSE IF s[i].status = "skipped" THEN Reset(s[i])
        ELSE s[i]]

invalidateFrom_DirectOnly(s, source, keep) ==
    [i \in Step |->
        IF i \notin {source, source + 1} \/ i = keep THEN s[i]
        ELSE IF s[i].status \in {"complete", "in_progress"} THEN Outdate(s[i])
        ELSE IF s[i].status = "skipped" THEN Reset(s[i])
        ELSE s[i]]

invalidateFrom(s, source, keep) ==
    [i \in Step |->
        IF i < source \/ i = keep THEN s[i]
        ELSE IF s[i].status \in {"complete", "in_progress"} THEN Outdate(s[i])
        ELSE IF s[i].status = "skipped" THEN Reset(s[i])
        ELSE s[i]]

discardIf(f, a, internal) == IF internal THEN [f EXCEPT ![a] = Nil] ELSE f

-----------------------------------------------------------------------------
(* preflightApprovedArtifacts, which next and approve run before anything    *)
(* else.                                                                     *)
Broken(g) ==
    /\ IsGate(g)
    /\ steps[g].status = "complete"
    /\ steps[g].approval # Nil
    /\ \/ Producers(steps, Plan[g].artifact) = {}
       \/ files[Plan[g].artifact] # steps[g].approval

PreflightPasses == \A g \in Step : ~Broken(g)

(* The first divergent approval is withdrawn with everything it rests on and *)
(* the command stops; without a producer it stops before any change.         *)
PreflightRefuses ==
    /\ call \in {"none", "next"}
    /\ \E g \in Step :
         /\ Broken(g)
         /\ \A h \in Step : h < g => ~Broken(h)
         /\ steps' = IF Producers(steps, Plan[g].artifact) = {} THEN steps
                     ELSE [invalidateFrom(steps, producerForArtifact(steps, Plan[g].artifact), 0)
                             EXCEPT ![g] = Outdate(@)]
    /\ call' = "none"
    /\ UNCHANGED <<current, files, back, judged, slipped>>

-----------------------------------------------------------------------------
(* next: the first step that is not terminal once the pending conditional    *)
(* steps whose condition is false are passed over.  The value of a condition *)
(* is data of the run, so both outcomes are considered.                      *)
Skippable(i) == IsAgent(i) /\ Plan[i].when /\ steps[i].status = "pending"

Reached(i) ==
    /\ call \in {"none", "next"}
    /\ PreflightPasses
    /\ ~\E h \in Step : isVerdictHalted(steps, h)
    /\ i \in Step => ~Done(steps, i)
    /\ \A j \in Step : j < i => Done(steps, j) \/ Skippable(j)

Passed(i) ==
    [j \in Step |-> IF j < i /\ ~Done(steps, j)
                    THEN [steps[j] EXCEPT !.status = "skipped"] ELSE steps[j]]

NextBlocked ==
    /\ call = "next"
    /\ PreflightPasses
    /\ \E h \in Step : isVerdictHalted(steps, h)
    /\ call' = "none"
    /\ UNCHANGED <<steps, current, files, back, judged, slipped>>

NextComplete ==
    /\ Reached(Len(Plan) + 1)
    /\ steps' = Passed(Len(Plan) + 1)
    /\ call' = "none"
    /\ UNCHANGED <<current, files, back, judged, slipped>>

(* A gate is a boundary for the human; a stale one is reopened first. *)
NextGate(i) ==
    /\ Reached(i)
    /\ IsGate(i)
    /\ steps' = [Passed(i) EXCEPT ![i] = [@ EXCEPT !.status = "pending", !.approval = Nil]]
    /\ call' = "none"
    /\ UNCHANGED <<current, files, back, judged, slipped>>

NextFailed(i) ==
    /\ Reached(i)
    /\ steps[i].status = "failed"
    /\ steps' = Passed(i)
    /\ call' = "none"
    /\ UNCHANGED <<current, files, back, judged, slipped>>

(* advance executes agents itself and stops at a host handoff. *)
HandsOver(i, from) == call' = IF from = "next" /\ IsAgent(i) THEN "dispatch" ELSE "none"

NextInProgress(i) ==
    /\ Reached(i)
    /\ steps[i].status = "in_progress"
    /\ steps' = Passed(i)
    /\ HandsOver(i, call)
    /\ UNCHANGED <<current, files, back, judged, slipped>>

(* reopenStaleWorkIfReady; pending work is left as it is. *)
Reopened(r) == IF r.status = "stale" THEN [Reset(r) EXCEPT !.acked = FALSE] ELSE r

initializeIfAbsent(i) ==
    LET a == Plan[i].artifact
    IN  IF Plan[i].template /\ ~Plan[i].internal /\ files[a] = Nil
        THEN [files EXCEPT ![a] = TemplateText] ELSE files

(* The artifacts a step is handed: for an agent every one completed before   *)
(* it, for a host handoff those it declares.                                 *)
InputArtifacts(i) ==
    {a \in Artifact : /\ IsAgent(i) \/ a \in Plan[i].inputs
                      /\ \E p \in Producers(steps, a) : p < i}

inputArtifactHashes(i, f) ==
    [a \in Artifact |-> IF a \in InputArtifacts(i) THEN f[a] ELSE Nil]

(* The first half of a start: the approvals are checked, conditional steps   *)
(* passed over, and a stale step is saved as pending again.                  *)
NextOpens(i) ==
    /\ Reached(i)
    /\ IsWork(i)
    /\ steps[i].status \in {"pending", "stale"}
    /\ steps' = [Passed(i) EXCEPT ![i] = Reopened(steps[i])]
    /\ current' = IF steps[i].status = "stale" /\ current = i THEN 0 ELSE current
    /\ call' = "start"
    /\ back' = call
    /\ slipped' = slipped \ {i}
    /\ UNCHANGED <<files, judged>>

Opened(i) == call = "start" /\ steps[i].status = "pending" /\ DoneBefore(steps, i)

(* The second half: the template is written, the inputs are hashed and the   *)
(* attempt is saved.  Hashing a missing input throws.                        *)
NextStarts(i) ==
    LET f == initializeIfAbsent(i)
    IN  /\ Opened(i)
        /\ files' = f
        /\ \/ /\ \A a \in InputArtifacts(i) : f[a] # Nil
              /\ steps' = [steps EXCEPT ![i] =
                   [@ EXCEPT !.status = "in_progress", !.inputs = inputArtifactHashes(i, f)]]
              /\ current' = i
              /\ HandsOver(i, back)
           \/ /\ \E a \in InputArtifacts(i) : f[a] = Nil
              /\ call' = "none"
              /\ UNCHANGED <<steps, current>>
        /\ back' = "none"
        /\ UNCHANGED <<judged, slipped>>

-----------------------------------------------------------------------------
(* CompletionService.complete on the artifacts f, inside a command that goes *)
(* on at b.  A completion whose verification, result, patch, policy, archive *)
(* or save throws marks the step failed.                                     *)
Fails(i, f) ==
    /\ steps' = [steps EXCEPT ![i].status = "failed"]
    /\ files' = f
    /\ call' = "none"
    /\ UNCHANGED <<current, back, slipped>>

LaterCycleSteps(i) ==
    {j \in Step : /\ j > i /\ IsAgent(j) /\ Plan[j].role \in {"review", "consolidate"}
                  /\ Plan[j].cycle = Plan[i].cycle /\ steps[j].status = "pending"}

readVerdict(i, c) == IF IsPolicy(i) \/ IsReview(i) THEN VerdictOf[c] ELSE Nil

Exhausted_OffByOne(i, v) ==
    /\ v = "CHANGES_REQUESTED"
    /\ \/ IsPolicy(i) /\ steps[i].retries > Plan[i].budget
       \/ IsReview(i) /\ ~\E j \in LaterCycleSteps(i) : Plan[j].role = "consolidate"

Exhausted(i, v) ==
    /\ v = "CHANGES_REQUESTED"
    /\ \/ IsPolicy(i) /\ steps[i].retries >= Plan[i].budget
       \/ IsReview(i) /\ ~\E j \in LaterCycleSteps(i) : Plan[j].role = "consolidate"

(* A review that asks for no changes ends its cycle. *)
SkippedBy(i, v) ==
    IF IsReview(i) /\ v # "CHANGES_REQUESTED" THEN LaterCycleSteps(i) ELSE {}

RetryDue(i, v) == IsPolicy(i) /\ v = "CHANGES_REQUESTED" /\ ~Exhausted(i, v)

(* The first save, recordCompletion.  The events appended after it may throw  *)
(* and end the command, which b = "none" stands for.                         *)
Completes(i, f, b) ==
    LET c == f[Plan[i].artifact]
        v == readVerdict(i, c)
    IN  /\ c # Nil
        /\ IsPolicy(i) \/ IsReview(i) => c \in Review
        /\ steps' = [j \in Step |->
             IF j = i THEN [steps[i] EXCEPT !.status = "complete", !.output = c,
                              !.verdict = v, !.exhausted = Exhausted(i, v)]
             ELSE IF j \in SkippedBy(i, v) THEN [steps[j] EXCEPT !.status = "skipped"]
             ELSE steps[j]]
        /\ files' = f
        /\ call' = IF RetryDue(i, v) THEN "retry" ELSE b
        /\ back' = IF RetryDue(i, v) THEN b ELSE "none"
        /\ UNCHANGED <<current, slipped>>

(* applyVerdictRetry reopens the target and the agent steps it has just      *)
(* outdated.                                                                 *)
ReopenedFrom(t) ==
    LET inv == invalidateFrom(steps, t, 0)
        fresh == {i \in Step : /\ IsAgent(i)
                               /\ inv[i].status = "stale" /\ steps[i].status # "stale"}
    IN  [i \in Step |-> IF i \in fresh \cup {t} THEN Reset(inv[i]) ELSE inv[i]]

(* The internal outputs it discards: of the steps that had one before this   *)
(* completion.                                                               *)
InternalFrom(t) ==
    {Plan[i].artifact : i \in {j \in Step : /\ j >= t /\ j # current /\ IsAgent(j)
                                          /\ Plan[j].internal /\ steps[j].output # Nil}}

Without(D) == [a \in Artifact |-> IF a \in D THEN Nil ELSE files[a]]

(* The second save of the completion of a policy step; the event after it    *)
(* may throw.                                                                *)
Applies(table) ==
    /\ call = "retry"
    /\ steps' = table
    /\ files' = Without(InternalFrom(Plan[current].retryFrom))
    /\ current' = 0
    /\ call' \in {back, "none"}
    /\ back' = "none"
    /\ UNCHANGED <<judged, slipped>>

ApplyVerdictRetry_Uncounted == Applies(ReopenedFrom(Plan[current].retryFrom))

ApplyVerdictRetry_CountsDown ==
    Applies([ReopenedFrom(Plan[current].retryFrom) EXCEPT ![current].retries = @ - 1])

ApplyVerdictRetry ==
    Applies([ReopenedFrom(Plan[current].retryFrom) EXCEPT ![current].retries = @ + 1])

(* An event, a discard or the save itself throws between the two saves: the  *)
(* step stays complete, with its verdict, and nothing is retried.            *)
RetryLost ==
    /\ call = "retry"
    /\ \E D \in SUBSET InternalFrom(Plan[current].retryFrom) : files' = Without(D)
    /\ call' = "none"
    /\ back' = "none"
    /\ UNCHANGED <<steps, current, judged, slipped>>

-----------------------------------------------------------------------------
(* advance *)
AdvanceStarts ==
    /\ call = "none"
    /\ call' = "next"
    /\ UNCHANGED <<steps, current, files, back, judged, slipped>>

Written(i) == IF IsPolicy(i) \/ IsReview(i) THEN Review ELSE Text
Publish(i, c) == [files EXCEPT ![Plan[i].artifact] = c]

(* The author of step i writes about the inputs the step was handed. *)
Judges(i) ==
    judged' = IF IsReview(i)
              THEN [judged EXCEPT ![i] = steps[i].inputs[Plan[i - 1].artifact]]
              ELSE judged

Reusable(i) == Plan[i].internal /\ files[Plan[i].artifact] # Nil

(* --only-pre-authorized stops before an explicit step. *)
AdvanceStops ==
    /\ call = "dispatch"
    /\ Plan[current].explicit
    /\ call' = "none"
    /\ UNCHANGED <<steps, current, files, back, judged, slipped>>

(* An internal artifact that is already there is completed without running   *)
(* the agent.                                                                *)
AdvanceReuses ==
    /\ call = "dispatch"
    /\ Reusable(current)
    /\ \/ \E b \in {"next", "none"} : Completes(current, files, b)
       \/ Fails(current, files)
    /\ UNCHANGED judged

AdvanceExecutes ==
    /\ call = "dispatch"
    /\ ~Reusable(current)
    /\ call' = "agent"
    /\ UNCHANGED <<steps, current, files, back, judged, slipped>>

(* The agent's answer is published and completed; an explicit step ends the  *)
(* session unless --until-gate.                                              *)
AgentReturns ==
    /\ call = "agent"
    /\ \E c \in Written(current) :
         \/ \E b \in {"next", "none"} : Completes(current, Publish(current, c), b)
         \/ Fails(current, Publish(current, c))
    /\ Judges(current)

(* No usable answer: a timeout, a crash, an exit code, an empty artifact; or *)
(* no executable invocation at all.                                          *)
AgentFails ==
    /\ call \in {"dispatch", "agent"}
    /\ Fails(current, files)
    /\ UNCHANGED judged

-----------------------------------------------------------------------------
(* Work done outside advance: the author writes the expected output, and     *)
(* complete or submit-host-output records it.                                *)
Awaited(i) == call = "none" /\ current = i /\ steps[i].status = "in_progress"

AuthorWrites(i) ==
    /\ Awaited(i)
    /\ IsAgent(i)
    /\ \E c \in Written(i) : files' = Publish(i, c)
    /\ Judges(i)
    /\ UNCHANGED <<steps, current, call, back, slipped>>

CompleteCommand(i) ==
    /\ Awaited(i)
    /\ Completes(i, files, "none") \/ Fails(i, files)
    /\ UNCHANGED judged

SubmitHostOutput(i) ==
    /\ Awaited(i)
    /\ Plan[i].kind = "host-handoff"
    /\ \/ \E c \in Written(i) : Completes(i, Publish(i, c), "none")
       \/ Fails(i, Publish(i, Nil))
    /\ UNCHANGED judged

-----------------------------------------------------------------------------
(* The decisions of the human, through GateService *)

(* Completed consumers that recorded another content of artifact a and that  *)
(* no later producer of a supersedes.                                        *)
consumersWithOutdatedInput_None(a) == {}

consumersWithOutdatedInput(a) ==
    {i \in Step :
        /\ IsWork(i)
        /\ steps[i].status = "complete"
        /\ steps[i].inputs[a] \notin {Nil, files[a]}
        /\ Plan[i].artifact # a
        /\ \A p \in Producers(steps, a) : p <= i}

Approvable(g) ==
    /\ call = "none"
    /\ PreflightPasses
    /\ IsGate(g)
    /\ steps[g].status = "pending"
    /\ DoneBefore(steps, g)
    /\ Producers(steps, Plan[g].artifact) # {}
    /\ files[Plan[g].artifact] # Nil

Approve(g) ==
    LET a == Plan[g].artifact
    IN  /\ Approvable(g)
        /\ consumersWithOutdatedInput(a) = {}
        /\ steps' = [steps EXCEPT
                       ![producerForArtifact(steps, a)].output = files[a],
                       ![g].status = "complete", ![g].approval = files[a]]
        /\ UNCHANGED <<current, files, call, back, judged, slipped>>

ApproveRefused(g) ==
    LET outdated == consumersWithOutdatedInput(Plan[g].artifact)
    IN  /\ Approvable(g)
        /\ outdated # {}
        /\ steps' = invalidateFrom(steps, FirstOf(outdated), 0)
        /\ UNCHANGED <<current, files, call, back, judged, slipped>>

RequestChanges(g) ==
    LET a == Plan[g].artifact
        p == producerForArtifact(steps, a)
    IN  /\ call = "none"
        /\ IsGate(g)
        /\ steps[g].status # "stale"
        /\ Producers(steps, a) # {}
        /\ files' = discardIf(files, a, Plan[p].internal)
        /\ steps' = [invalidateFrom(steps, p, p) EXCEPT
                       ![p] = Reset(@),
                       ![g] = [@ EXCEPT !.status = "pending", !.approval = Nil]]
        /\ current' = IF current = p THEN 0 ELSE current
        /\ UNCHANGED <<call, back, judged, slipped>>

(* The state retry builds for a host handoff carries a key its schema does   *)
(* not know: the save throws and only the discarded output is gone.          *)
Retry(i) ==
    /\ call = "none"
    /\ IsWork(i)
    /\ steps[i].status \in {"stale", "failed"} \/ isVerdictHalted(steps, i)
    /\ files' = discardIf(files, Plan[i].artifact, Plan[i].internal)
    /\ IF IsAgent(i)
       THEN /\ steps' = [steps EXCEPT ![i] = [Reset(@) EXCEPT !.acked = FALSE]]
            /\ current' = IF current = i THEN 0 ELSE current
       ELSE UNCHANGED <<steps, current>>
    /\ UNCHANGED <<call, back, judged, slipped>>

Acknowledge(i) ==
    /\ call = "none"
    /\ isVerdictHalted(steps, i)
    /\ steps' = [steps EXCEPT ![i].acked = TRUE]
    /\ UNCHANGED <<current, files, call, back, judged, slipped>>

(* Somebody edits or deletes a published artifact, at any moment. *)
Edit(a) ==
    /\ a \in Editable
    /\ \E c \in Text \cup {Nil} : c # files[a] /\ files' = [files EXCEPT ![a] = c]
    /\ slipped' = slipped \cup {i \in Step : Opened(i)}
    /\ UNCHANGED <<steps, current, call, back, judged>>

(* The process that holds the lock dies; what it saved stays. *)
Crash ==
    /\ Crashes
    /\ call # "none"
    /\ call' = "none"
    /\ back' = "none"
    /\ UNCHANGED <<steps, current, files, judged, slipped>>

-----------------------------------------------------------------------------
NextStep == NextBlocked \/ NextComplete \/ \E i \in Step :
    NextGate(i) \/ NextFailed(i) \/ NextInProgress(i) \/ NextOpens(i) \/ NextStarts(i)

(* What the process inside a command does next by itself. *)
Machine ==
    \/ PreflightRefuses \/ NextStep \/ ApplyVerdictRetry \/ RetryLost
    \/ AdvanceReuses \/ AdvanceExecutes \/ AgentReturns \/ AgentFails

Human ==
    \/ \E i \in Step : \/ AuthorWrites(i) \/ CompleteCommand(i) \/ SubmitHostOutput(i)
                       \/ Approve(i) \/ ApproveRefused(i) \/ RequestChanges(i)
                       \/ Retry(i) \/ Acknowledge(i)
    \/ \E a \in Artifact : Edit(a)

Next == Machine \/ Human \/ AdvanceStarts \/ AdvanceStops \/ Crash

Spec == Init /\ [][Next]_vars

(* A command that runs goes on: the code never waits inside it but for the   *)
(* agent, which the timeout ends.                                            *)
FairSpec == Spec /\ WF_vars(call # "none" /\ Machine)
-----------------------------------------------------------------------------
(* Work is complete or under way only behind terminal steps: whatever was     *)
(* reopened, edited, retried or sent back, no step ran on a predecessor that *)
(* is unfinished (WorkflowRunnerService.next, step-invalidation.ts).         *)
WorkInOrder ==
    \A i \in Step : IsWork(i) /\ steps[i].status \in {"complete", "in_progress"}
                    => DoneBefore(steps, i)

(* At most one step is under way and currentStepId names it: an output can   *)
(* only be recorded for the step that was handed over last                   *)
(* (CompletionService.complete relies on it).                                *)
CurrentIsUnderWay ==
    \A i \in Step : steps[i].status = "in_progress" => current = i

(* While a policy step is complete with a verdict that leaves the machine    *)
(* nothing to do - blocked, or changes requested with no retry left - and    *)
(* nobody acknowledged it, nothing after it is complete or under way,        *)
(* whatever was thrown, edited, retried or sent back since                   *)
(* (verdict-completion.policy.ts, workflow-runner.service.ts next).          *)
HaltedVerdictHoldsBackWork ==
    \A i, j \in Step :
        /\ IsPolicy(i) /\ steps[i].status = "complete" /\ ~steps[i].acked
        /\ steps[i].verdict = "BLOCKED" \/ steps[i].exhausted
        /\ i < j /\ IsWork(j)
        => steps[j].status \notin {"complete", "in_progress"}

(* The same of every negative verdict: the run is halted, or the retry the   *)
(* verdict asked for is being saved                                          *)
(* (verdict-completion.policy.ts, file-state.store.ts applyVerdictRetry).    *)
NegativeVerdictHoldsBackWork ==
    \A i, j \in Step :
        /\ IsPolicy(i) /\ steps[i].status = "complete" /\ ~steps[i].acked
        /\ steps[i].verdict # "APPROVED"
        /\ i < j /\ IsWork(j)
        => steps[j].status \notin {"complete", "in_progress"}

(* A verdict that halts a run halts it when it is recorded, also when an     *)
(* earlier verdict of the same step was acknowledged                         *)
(* (verdict-completion.policy.ts isVerdictHalted).                           *)
NewVerdictHalts ==
    [][\A i \in Step :
         (/\ IsPolicy(i) /\ steps[i].status # "complete" /\ steps'[i].status = "complete"
          /\ steps'[i].verdict = "BLOCKED" \/ steps'[i].exhausted)
         => isVerdictHalted(steps', i)]_vars

(* Behind an approved gate, every step that consumed the approved artifact   *)
(* and is not superseded by a later producer recorded the approved content   *)
(* as its input, unless somebody edited a file in the moment between next's  *)
(* check of the approvals and its reading of that step's inputs              *)
(* (stale-invalidation.service.ts, workflow-runner.service.ts next).         *)
ApprovalCoversConsumers ==
    \A g, i \in Step :
        LET a == Plan[g].artifact
        IN  /\ IsGate(g) /\ steps[g].status = "complete"
            /\ IsWork(i) /\ steps[i].status \in {"complete", "in_progress"}
            /\ i \notin slipped
            /\ Plan[i].artifact # a
            /\ \A p \in Producers(steps, a) : p <= i
            => steps[i].inputs[a] \in {Nil, steps[g].approval}

(* A review that advance completes without asking the reviewer again is a    *)
(* review of the text the step was handed (advance.command.ts, the reuse of  *)
(* an internal artifact).                                                    *)
ReusedReviewIsOfItsInput ==
    [][\A i \in Step :
         (/\ IsReview(i) /\ call = "dispatch"
          /\ steps[i].status # "complete" /\ steps'[i].status = "complete")
         => judged[i] = steps[i].inputs[Plan[i - 1].artifact]]_vars

(* A step of a review cycle is skipped only while an earlier review of the   *)
(* cycle stands completed with no changes requested                          *)
(* (verdict-completion.policy.ts evaluateCycleReview, step-invalidation.ts). *)
SkippedBehindReview ==
    \A i \in Step :
        IsAgent(i) /\ Plan[i].cycle > 0 /\ steps[i].status = "skipped"
        => \E r \in Step : /\ r < i /\ IsReview(r) /\ Plan[r].cycle = Plan[i].cycle
                           /\ steps[r].status = "complete"
                           /\ steps[r].verdict # "CHANGES_REQUESTED"

(* The machine-owned loop of a policy step stays within its budget, and a    *)
(* pending retry is one the budget still allows.                             *)
RetriesWithinBudget ==
    /\ \A i \in Step : steps[i].retries <= Plan[i].budget
    /\ call = "retry" => steps[current].retries < Plan[current].budget

(* A command ends: advance reaches a gate, a halt, a failure, a host handoff *)
(* or the end of the workflow, whatever the verdicts                         *)
(* (advance.command.ts, the for loop).                                       *)
CommandEnds == call # "none" ~> call = "none"
=============================================================================
