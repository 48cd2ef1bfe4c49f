# Verification of impresairio's run engine

impresairio drives a *run*: a frozen list of steps (agent work, host handoffs, human gates) whose
state is a JSON file, whose artifacts are Markdown files, and whose commands are short-lived
processes that take a per-run lock, read the state, act, and save it. This directory holds TLA+
models of that engine, the TLC configurations that check them on small instances, and TLAPS proofs
of the properties that matter most.

Paths below are relative to the repository (`src/runs/...` is the TypeScript source tree).
Run a model with `tlc -config <run>.cfg MC<module>.tla`, check proofs with `tlapm <module>Proofs.tla`.

## 1. The system: components, state, operations

| Component | State it keeps | Operations that change it | What makes it correct |
|---|---|---|---|
| Run lock (`runs/run-lock.service.ts`) | directory `.lock`, `metadata.json`, the in-process map `locallyHeld` | acquire, acquireReentrant, release, stale recovery, `unlock` | one holder; a holder's lock is on disk; it is given back |
| Workflow runner (`workflows/workflow-runner.service.ts`) | step statuses, `currentStepId`, input hashes | `next` | work starts only behind terminal steps; one step under way |
| Gates and invalidation (`workflows/gate.service.ts`, `stale-invalidation.service.ts`, `runs/step-invalidation.ts`) | approvals, statuses, acknowledgments | `approve`, `request-changes`, `retry`, `acknowledge`, the integrity check of approved artifacts | what was built on changed text does not stand |
| Verdict policy (`workflows/verdict-completion.policy.ts`) | verdict, `exhausted`, retry count | evaluation of a completion | a negative verdict halts or retries within its budget |
| Completion (`runs/completion.service.ts`) | through the store | `complete` | all or nothing: patch, archive, record, events, retry |
| State store (`runs/file-state.store.ts`, `run-state.schema.ts`) | `state.json`, revisions, feedback, failed output | save, recordCompletion, markFailed, applyVerdictRetry, archive and discard | each save is atomic; what it names is on disk |
| Advance (`commands/advance.command.ts`) | none of its own | the loop: next, dispatch, agent, publish, complete | it ends; it leaves no step half recorded |
| Artifacts (`documentation/*`) | Markdown files | initialize from template, publish, discard, verify and hash | content is what was hashed |
| Host handoff (`agents/host-handoff.service.ts`, `runs/host-handoff-*.ts`) | `handoffPreparedAt`, amendments, their archive | prepare, submit, `amend-host-handoff` | the host is told the recorded inputs; a submission is complete or undone; an amended text is kept and no agent read it |
| Recovery (`agents/agent-fallback.service.ts`, `runs/external-agent-recovery.service.ts`, `agent-recovery-submission.service.ts`, `run-abandon.service.ts`) | fallback history, `externalRecovery`, `abandonment` | `fallback`, `prepare-external-agent-output`, `submit-agent-output`, `abandon` | recovery respects gates and closed runs |
| Repository patch (`runs/repository-patch.service.ts`, `repository-baseline.service.ts`) | the Git worktree, `repositoryPatch` | apply | the run adopts its own changes only |
| Phases (`workflows/implementation-phase-*.ts`) | generated steps, the table of successors | materialize, inside `next` | generated once, from the approved manifest; linked with what is around them |
| Workflow definition and expansion (`workflows/workflow-*.ts`), run creation (`runs/run.service.ts`) | the plan, frozen in `state.json` | `start` | what is frozen is what the engine relies on |
| Conditions and results (`workflows/condition-evaluator.service.ts`, `structured-result.ts`) | results, skipped steps | the skips of `next`, `complete` | a conditional step runs on answers that stand |
| Event log (`runs/event-log.service.ts`) | `events.jsonl` | append | a decision read off it survives a crash |
| Agent process (end of `advance.command.ts`, `agents/*`) | a child process, its staging file | spawn, heartbeat, SIGTERM at the timeout or output limit | one at a time; its answer is its own |
| follow (`commands/follow.command.ts`) | none | reads state, log and PIDs without the lock | it ends |
| Profiles, configuration, reports, paths, wiring | none | none | not stateful |

How they interact: every mutating command takes the run lock. Inside `advance`, the services it
calls (`next`, dispatch, `complete`) take it again through the reentrant count. All communication
between commands is through `state.json`, the artifact files, `events.jsonl` and the Git worktree;
humans edit the last three at any time, without a lock. `start` reads workflow files that somebody may be replacing.

What is hard: file-system calls of two processes interleave in lock recovery; a completion is several
saves with a crash possible between any two; artifacts are edited behind the run; invalidation must
reach exactly the right steps in whatever status they are; a verdict loop must be bounded over saves in
two services; retries meet leftovers of earlier attempts (acknowledgments, approvals, internal files,
patches, archived revisions, staging files, agents that outlive their advance); the plan itself grows while the
run is under way; a condition depends on answers that may be withdrawn.

The complete list of components is in `PROJECT.json` under `components`, and every place where the
code is exposed to such a hazard, with the property aimed at it, is under `hazards`.

## 2. The modules

### RunMutex, RunLock: the lock

`RunMutex` is the promise: an owner is granted the run only when nobody owns it. `RunLock` is
the code, one action per call of the operating system (`Mkdir`, `Read`, `Judge`, `Unlink`, `Rmdir`, `Remake`, `Write`,
`Log`, `CheckToken`, `UnlockReads`, `UnlockChecks`), because the interesting interleavings are between those calls. `Read` takes the owner off the disk,
`Judge` asks later whether that process lives. `rmSync(recursive)` is two
steps that restart when the directory was filled meanwhile; `why` says what a removal is for, hence where it returns to. `Write` may fail, and so may
`Log`, the event of a recovery: the command then fails ("failed") with its lock on disk and no entry in `locallyHeld`, which is `depth` and `reentrant`.
A process ends in the ordinary way after its commands (`Exit`), may die anywhere (`Die`, for members of `Mortal`), and an operator may force a
lock away (`UnlockForces`, for members of `Forcers`). A process stands for its PID and its token.

Two history variables name the one way in which the protocol loses exclusion. `overtaken` holds the processes whose reading of the owner is older than the last
removal of `.lock` by somebody else; `seized` is true once something was removed on such a reading, or by force. `ExclusiveUnlessSeized` says that until then the lock
excludes and stays on disk for its holder. `MutexSpec` states that `RunLock` implements `RunMutex`, `owner <- Owner` being the refinement mapping.

Abstractions: metadata that does not parse is `None`, like metadata that is absent; the throw when `.lock` vanishes
between EEXIST and the read is the busy error; `EPERM` of `kill(pid, 0)` and reuse of PIDs are not modelled: a process that has ended does not come back, nor does its number.

### WorkflowRun: a run

The state is `steps` (the persisted part of each step), `current` (`currentStepId`), `files`
(the artifact contents; a content stands for its SHA-256), and `call`: where the command that holds the
lock stands. The lock admits one command at a time, so a command is one step, except where the code
leaves a moment in which it can die, throws or waits for somebody: before `next` ("next"), between the check of the approvals and the reading of the inputs of the step that
`next` starts ("start"), after dispatch
("dispatch"), while the agent runs ("agent"), and between the two saves of a completion that retries
("retry"). In those moments the process may crash and humans may edit files.

| Code | Action |
|---|---|
| `preflightApprovedArtifacts` | `PreflightPasses`, `PreflightRefuses`, called by every `next` |
| `next` | `NextBlocked`, `NextComplete`, `NextGate`, `NextFailed`, `NextInProgress`, `NextOpens` and `NextStarts`, with the conditional skips of the while loop as `Reached`/`Passed` and the reopening of stale gates and work inside |
| `advance` | `AdvanceStarts`, `AdvanceStops`, `AdvanceReuses`, `AdvanceExecutes`, `AgentReturns`, `AgentFails` |
| `complete`, `submit-host-output` | `CompleteCommand`, `SubmitHostOutput`, both through `Completes` or `Fails` |
| the second save; or an event, a discard or that save throws | `ApplyVerdictRetry`; `RetryLost` |
| `approve`, `request-changes`, `retry`, `acknowledge` | `Approve`, `ApproveRefused`, `RequestChanges`, `Retry`, `Acknowledge` |
| authors, editors, death | `AuthorWrites`, `Edit`, `Crash` |

`Plan` is the frozen workflow, and `PlanAssumption` what the schema and the expansion guarantee about it.
It leaves out plans with a patch-producing step: only such a step can be put back in progress by hand in front of unfinished work (`prepare-external-agent-output`), which PatchStep
and PhasedRun model. `judged` is a history variable: the text a review was written about. So is `slipped`: the steps during whose "start" somebody edited a file.

Abstractions: timestamps, attempts, feedback, the contents of events and `conditionDecision` are left out (a
condition may go either way); `reachedAt` and the prepared-dispatch flags decide nothing the properties see. The reads inside `approve`, and each half of `next`, are
atomic with respect to edits. When nothing throws, the discarding of internal outputs and the save of `applyVerdictRetry` are one
step; `RetryLost` has every part of the discarding without the save. An event of a completion or of a retry that cannot be appended ends the command (`call'` becomes "none"); what else throws after `next` has saved leaves what a `Crash` at "dispatch" leaves. `retry` of a host handoff is refused by the strict schema of that step, as in the code, after its file was discarded. The
phase-manifest branch of `next`, and the preparation and amendment of handoffs, are in PhasedRun.

### PatchStep: one patch-producing step, its completion taken apart

`WorkflowRun` takes a completion as one step; `PatchStep` opens it for the kind of step for which it matters
most: an answer that is a patch of the user's repository. The moments are "verify" (published), "compare" (HEAD is the baseline), "apply" (the tracked changes were compared
with those recorded last), "hash" (`git apply` is through), "archive"
(the result was hashed), "record" (revision archived), "log" (state saved, events not written). A completion
may fail (`CompletionFails`, `LogFails`) or be cut off (`Crash`) at each. In front of the step is one
gate, standing for everything before it. Around it are all ways on after a failure: `Retry`,
`SelectFallback`, `PrepareRecovery` and `SubmitRecovery`, `Abandon`. `RepositoryChanges` is the user: editing, reverting
or committing at any time. `internal` is the storage of the artifact, which decides whether advance reuses a file
that is there (`Advances`).

The worktree is the set of patches and foreign edits it differs by from the baseline; two trees hash alike
exactly when these sets are equal, and a patch that is already in it does not apply. `completed`, `touched` (the user changed the repository since it was
compared) and `meddled` (that happened to a completion that was recorded) are history variables. Nothing in the code compares the tree again before it hashes it, so what the user does in that moment
is adopted: `RepositoryAccounted` speaks of runs without it. `git apply --check` and `git apply` are one call: the second looks at the same context again. The
fenced block's parser and staged changes would only add further refusals, which `CompletionFails` covers.
The step stays the current one while the work before it is redone, which lets the model complete it at moments at which
the code refuses; the safety properties hold all the same.

### Commands: the processes on one run

`Commands` EXTENDS `RunLock` and puts the commands on top of it. Every process runs one command at a time; `job` is
where it stands. The commands are `advance` with its agent, `advance --detach` and the child it leaves, `follow`, and
"any other command", which reads the state, decides, and saves. Of the run it keeps what several processes can get wrong: the
number of finished steps, the status of the step in turn, and the staging file.

| Code | Action |
|---|---|
| acquire around a command, nested acquire of a service, `finally` | `AsksForLock`, `LockCall`, `NestedCall`, `Leaves`, `UnlockCommand` |
| `next` and the save that starts a step | `ReadsNext`, `StartsStep` |
| `executeAgentProcess` | `SpawnsAgent` (removes the staging file), `Timeout` (one SIGTERM), `TakesResult` (on close) |
| publication and completion | `Publishes`, `Completes`, or `Throws` and `Fails` (markFailed) |
| other commands | `ReadsState`, `SavesState` |
| `--detach` | `SpawnsChild`, `Announces` |
| the agents | `AgentStages`, `AgentCloses`; they survive the death of their advance (`Killed`) |
| `follow` | `FollowStarts`, `FollowReadsState`, `FollowReadsEvents` |

`fresh` is a history variable: whether the state a process read is still the one on disk. Every save makes the
state of all others stale, so `NoLostUpdate` asks that a save finds it true. The heartbeat, output capture and health reports
change nothing another process decides on and are left out.

### PhasedRun: a plan that grows, and host work that is amended

Here `plan` and `successors` are state. A placeholder step becomes, for an approved manifest, an implementation step for each
phase, its review if the workflow names a reviewer, and its gate if the manifest asks for one (`Generated`). An id is the sequence of its parts
between `--`.

| Code | Action |
|---|---|
| the phase-manifest branch of `next`, `materialize` | `NextPhases`, `Materialize` with `ApprovedAsRead` and `Spliced` |
| `prepareHostHandoff` | `PrepareHandoff` with `InputsAsRecorded`: paths and hashes are printed, `announced` |
| `submit-host-output` | `SubmitHostOutput` |
| `prepare-external-agent-output`, `submit-agent-output` | `PrepareExternal` of any failed patch step, wherever it stands; `SubmitAgentOutput` |
| the events, discards and second save of a retry throw | `RetryLost` |
| `amend-host-handoff` | `Amend` with `Amendable`, `NotExecuted`, `Revision`; `AmendCutOff` when the process dies between the removal of the output and the save |
| `events.jsonl` | `log`: whole, torn by a crash, or broken by an append to a torn line (`LogGrows`); `started` holds its readable `agent.execution.started` events |
| invalidation and its refusal by the schema of a materialized placeholder | `Invalidated`, `Invalidatable` |
| the rest of `next`, `advance`, gates, retry | as in WorkflowRun |

`announced` (the input hashes the host was told), `ran` (an agent was started on the step) and `taken` (the step was put in progress by hand) are history variables. A plain `next` stops after it has materialized, `advance` goes on. Conditions and skips are left out
here; verdicts, retries and acknowledgments are in, since generated reviews have budgets.

`PhasesAssumption` says what the schema, the expansion and `createRunState` guarantee of a frozen plan. `Conforms`: ids are unique; a gate stands
behind the work it approves; nobody else writes the output of a handoff; a verdict policy belongs to an agent and sends back to earlier work. It is also
what the proofs show of every grown plan. `Continues`: no id of a workflow continues the id of a placeholder, because an id of a workflow
contains no `--` and a mount's name is its own. A phase id is one part: the pattern of `implementation-phase-manifest.ts:5` admits `--` inside it, so that the phases `x` and `x--review`
of one manifest would collide; the assumption leaves such manifests out, and materialization does not look for them (`createRunState` does, `run-state.schema.ts:479`).
That is a hole of the code, listed under `hazards`: nothing here speaks of a run with two steps of one id.

### PlanExpansion, ConditionalRun: from workflow files to a conditional run

`PlanExpansion` is `start`. `Read` reads one workflow file through the registry (`Selected`: repository before global before
package, whatever is in the file; `Valid`: what the schema checks between steps) and puts the workflows it mounts on the
`agenda`; `Edit` may replace any file between two reads. `Freeze` expands what was read (`Flattened` maps roles and namespaces, `CycleUnrolled`
turns a review cycle into author, reviews, consolidations and gate) and either refuses or freezes it (`Acceptable`).

`ConditionalRun` EXTENDS it and runs what was frozen. `Evaluation` is the evaluator with unresolved operands; `NextSkips`,
`NextReopens`, `NextStarts`, `NextStops`, `Completes` (with `Answers`, the structured results that are accepted), `Acknowledged`, `CycleEnds`, `SentBack` (every way completed work is sent back) and `Retry` are what
changes steps and answers. `next` saves a stale step as pending before it starts it in the same call: `reopened` is that step, whose condition this call does not ask; when
it throws or dies in between (`NextStops`), the next call does. A step complete with a verdict that lets no `next` pass is "halted" until somebody acknowledges or retries it. `Holds` is the definition the evaluator is checked against.

A condition is the sequence of its nodes, each behind its parts (`WellFormed`), so that evaluating it is a function over that sequence. The tree of mounted
workflows is the function `nodes` from namespaces to what was read there, and its expansion a function of the depth (`ExpandedOver`): a workflow is expanded over the expansions of those
it mounts. No operator is recursive, so all of it can be proved about. `ExpansionAssumption` is what the grammar of a workflow file gives each step alone: a kind,
an id, at least one round of a review cycle, a retry and a condition only in an agent step, a condition that is a tree.

Abstractions: single values, names and texts of a workflow are not parsed; prompt files, skills and path bindings, which `start` also resolves, may only refuse. Artifacts, gates
and verdicts around a conditional step are those of WorkflowRun and not repeated.

### How they compose

- **RunLock and the runs.** `Commands` composes RunLock with an abstract run, so the properties of the lock are checked again
  while commands use it. `NoLostUpdate` (with `MutualExclusion`) is why WorkflowRun, PhasedRun and PatchStep may take commands one at a
  time, with steps of their own only where a process can die or waits.
- **Expansion and the runs.** `FrozenPlanIsRunnable` states of every plan `start` can freeze most of what `PlanAssumption` of WorkflowRun and
  `PhasesAssumption` of PhasedRun assume of theirs: distinct ids, references backwards, no condition on what others refer to nor in a review cycle, one writer behind a step that retries.
  It does not state that a gate stands behind every step that writes its artifact, that a review follows a work step at once, nor the shape of ids around `--`; these are read off the schema and the
  expansion (`CycleUnrolled`) by hand. That no step produces a patch is a restriction of WorkflowRun, not a guarantee.
- **PatchStep** is the close view of the completion that WorkflowRun takes whole, for a step without a verdict
  policy. The two are not formally related.

## 3. The runs

| Run | Question | Result |
|---|---|---|
| `commands` | Two processes of one machine, one of which may die anywhere, and every command on a run: does the lock still exclude, implement `RunMutex` and come back; is an update lost; do two agents work at once; is a stranger's answer published; does `follow` end? | holds: `TypeOK`, `CommandsTypeOK`, `MutualExclusion`, `HeldLockIsOnDisk`, `MutexSpec`, `HolderGivesBack`, `NoLostUpdate`, `OneAgentAtATime`, `PublishedIsOwn`, `FollowEnds` |
| `lock_forced` | Three processes of one machine with racing recoveries, failing writes and forced unlocks: what costs exclusion, and does a live process ever leave its name on the lock? | holds: `ExclusiveUnlessSeized`, `NoStrayLock` |
| `run_policy_loop` | The quick-fix workflow under every verdict, failure, human decision and edit of the verified artifact | holds: `TypeOK`, `CurrentIsUnderWay`, `HaltedVerdictHoldsBackWork`, `RetriesWithinBudget`, `CommandEnds` |
| `run_review_cycle` | A two-iteration review cycle over a template document, its gate and a consumer, with crashes and edits, also in the middle of `next` | holds: `WorkInOrder`, `ApprovalCoversConsumers`, `SkippedBehindReview` |
| `phased_run` | Five plans around host work: amended briefs with crashes and a torn log, notes prepared from edited texts, a phase whose gate may send it back and a note behind it, manifests that become phases with gates, reviews and budgets, whose failed patch steps may be recovered by hand | holds: `TypeOK`, `WorkInOrder`, `SequenceIsOfApprovedManifest`, `AmendedTextIsKept`, `AmendedBeforeAnyReader`, `ApprovedHandoffIsCurrent`, `AnnouncedInputsAreRecorded`, `AdvanceEnds` |
| `conditional_run` | `start` while workflow files are replaced, and the frozen plan under every answer, halting verdict, failure and way back | holds: `TypeOK`, `FrozenPlanIsRunnable`, `CycleReviewerIsNotAuthor`, `EffectiveParametersConform`, `StartEnds`, `ConditionHeldAtStart`, `SkippedIsFalseNow` |
| `patch_step` | A patch step with failures, crashes and edits by the user at every point of its completion, and every recovery | holds: `TypeOK`, `RepositoryAccounted`, `RevisionsIntact`, `ArtifactIsLastPatch`, `PatchNeedsGate` |
| `lock_outdated_removal` | A lock is removed on the reading of an owner that has given it back since; nobody dies or forces anything | **violated**: `MutualExclusion` |
| `lost_verdict_retry` | Something throws between `recordCompletion` and `applyVerdictRetry` | **violated**: `NegativeVerdictHoldsBackWork` |
| `acknowledgment_outlives_verdict` | acknowledge, request-changes, a second negative verdict | **violated**: `NewVerdictHalts` |
| `review_of_replaced_text` | a reopened review whose old internal file is there | **violated**: `ReusedReviewIsOfItsInput` |
| `abandoned_run_patched` | external recovery of an abandoned run | **violated**: `AbandonedRunIsClosed` |

### The disagreements

The five violated runs are counterexamples the code really has; `findings` in `PROJECT.json` quotes the
comment, test or document each contradicts.

1. *Outdated removal.* `acquireInternal` reads the owner, asks whether it lives and removes the directory in separate
   calls. An owner that released its lock and ended in between is found dead, and the lock that is removed is the one another process has taken since. Two processes that
   recover one dead owner meet in the same way. `ExclusiveUnlessSeized` shows that exclusion is lost in no other way but by `--force`.
2. *Lost retry.* After `recordCompletion` alone, a policy step is complete with CHANGES_REQUESTED and not
   exhausted. `isVerdictHalted` does not count it, and later work starts. It takes an event that cannot be appended, a discard or a save that fails, or a crash.
3. *Acknowledgment.* Invalidation clears a verdict and keeps its acknowledgment, which then silences the next one.
4. *Replaced text.* A reopened review is completed from the internal file of its previous attempt.
5. *Abandoned run.* The projection `complete` reads carries no `abandonment`, and the recovery services never ask.

Seen while modelling, with no run of their own (all but the last are in `hazards`):

- `retry` of a step whose artifact an approved gate stands for withdraws no approval; every later `next` throws before anything is rerun.
- A conditional step that went stale is reopened and started without its condition being asked again, where the evaluator's comment says a
  step never runs because a result is missing. `ConditionHeldAtStart` therefore leaves out the start of a step that the same `next` has reopened.
- Invalidation across a materialized placeholder writes a key its strict schema refuses, so the command throws, and every later `next` with it, where `stale-invalidation.service.ts:29` wants a changed
  approved file to make its producer and what follows stale. The model has it (`Invalidatable`); no property takes it for a guarantee.
- A text edited while `next` stands between its check of the approvals and its reading of the inputs, and put back later, was read under an approval that never covered it (`slipped`).
- A change of the repository between `git diff` and the hash after `git apply` is adopted as the run's own (`meddled`).
- A host reads the announced inputs whenever it likes; nothing compares them with the announced hashes afterwards.
- `prepare-external-agent-output` puts a failed patch step in progress in front of work that was sent back (`taken`).
- A manifest with the phases `x` and `x--review` becomes two steps of one id.
- A retry of a failed host handoff is refused by the schema after its file was removed.
- Role mapping may make one actor the author and reviewer of implementation phases; for review cycles it is refused.
- `follow` reads state and log one after the other and may report a run that has just ended as still in progress: a false alarm of a command that only reads.
- A step recovered by hand and invalidated later can be prepared again, but its second submission is refused by the event of the first; `complete` still takes it.
- The number of a revision stops growing at the twenty-second completion and its file is overwritten.
- A fallback of a step with an internal artifact reuses the file of the attempt that failed.
- The README's `retry design` after `request-changes` (README.md:151) is refused, since the producer is already pending.

## 4. Bounds and fairness

**RunLock.** `lock_outdated_removal` needs three processes, the one that releases, the one that takes the lock and the one that removes it, and no death inside a command (`Mortal = {}`); in `lock_forced` one of three may die anywhere and one may force. `CHECK_DEADLOCK FALSE` since all processes may have ended.
`FairSpec`: a process inside the service goes on to its next call (`WF(Call)`: the service never waits); the command
above it returns (`WF(Release)`, and `SF(depth = 1 /\ Release)`, because a command that leaves and enters nested scopes again and
again does reach its own finally block). Nothing obliges anybody to start a command.

**Commands.** Two processes on one machine, of which `a` may die and `b` is also the detached child: nobody is left who could overtake a reading, so nothing is ever seized and the run states exclusion outright. More processes, and processes on other machines, are covered by
the theorems of section 5, until something is seized. `MaxDepth = 2` nests one acquisition, as `advance` does. Two steps, so that a session can end after a step or go on.
`CommandsFairness`: a process works on inside its command, leaves it, and its timer fires (`WF(Timeout)`); an agent that was told to stop
closes. The last is an assumption about agents: the code sends one SIGTERM and then waits, so an agent that ignores it holds the
lock for ever (see `hazards`). `FollowEnds` asks only for runs that are left alone at some time. The child, once spawned, need not ever run.

**WorkflowRun.** Plans of four and six steps: `QuickFix` is the built-in workflow from its implement step on plus a
conditional step; `ReviewCycle` is the smallest expansion with a review that may skip, a consolidation that rewrites
the path of its producer, a gate and a consumer. Retry budget 1 makes the first retry allowed and the second exhausted. One
text is enough where only verdicts differ, two where a text can be replaced. No action is bounded by a guard: retries stay
in the budget and everything else is finite. `VIEW LiveState` in `run_review_cycle` forgets data no later step
reads (the definition says which); all properties of that run are invariants over what it keeps.
`FairSpec`: weak fairness of the process inside a command. It includes the end of the agent, which the code
bounds by a timeout; an agent that ignores SIGTERM is outside the assumption (see `hazards`).

**PhasedRun.** Five plans, one for each question: `Amending` (a brief, its gate, an agent step behind them; processes may die here, which tears the log),
`Handing` (a note prepared from an editable source), `Phasing` (manifest `m1`: two phases with a gate between them, or `m2`), `Reviewing` (manifest
`m2`: one phase with a review and retry budget 1, and an audit with a verdict policy behind the phases), `Shipping` (manifest `m3`: one phase whose gate may send it back, and a note by the host behind them). Two phases and a step behind are what the splicing of the table of successors can
get wrong. Generated steps are patch steps, so each of them that failed may be taken over by hand. `MaxAmendments = 2` (20 in the code) reaches the limit. `FairSpec` is that of WorkflowRun: the machine goes on inside a command.

**ConditionalRun.** Files `main` and `part` in three registry sources, some of which may be absent, unreadable, circular, or replaced by another
workflow; `MaxDepth = 3` (32 in the code), deep enough to mount and to notice a cycle. The frozen plans have up to eight steps, with a condition on a result, one on a
parameter, one below a negation, and a review cycle of two rounds; one text has a condition on an answer nobody declared, which `start` must refuse. Fairness is only that of `start`, which does not wait for anybody.
`CHECK_DEADLOCK FALSE` because a finished run stops, and because a failed host handoff cannot be retried.

**PatchStep.** Three patches, so that a step completes once more than `Kept = 2` revisions are kept (20 in the code);
one fallback profile; one foreign edit, made, reverted or committed at any moment. Patches are interchangeable (symmetry; no liveness is checked). The number of completions is bounded
by the patches, since none applies twice. `CHECK_DEADLOCK FALSE`, here as in `abandoned_run_patched`, costs nothing: the user can always act.

**Constants.** Plans and tables are given by definition (`Plan <- QuickFix`) since a configuration cannot write records.

## 5. What is proved

All theorems hold for every value of the constants that satisfies the named assumptions of the modules
(`ProcAssumption`, `PlanAssumption`, `PhasesAssumption`, `ExpansionAssumption` and those of PatchStep and Commands), which the runs evaluate. Every safety property and
action property that a passing run checks is stated by a theorem; what is left to TLC alone is liveness.

| Module | Extends | Contents |
|---|---|---|
| `RunLockProofs` | RunLock | the lock and its refinement of RunMutex |
| `CommandsProofs` | Commands, RunLockProofs | the commands on top of it |
| `PatchStepProofs` | PatchStep | one patch step |
| `WorkflowRunProofs` | WorkflowRun | types, order, verdicts and budgets of a run; what rests on approvals and reviews |
| `SequenceLemmas` | community modules | induction over the naturals, concatenations of sequences and where their parts end up |
| `PhasedPlanProofs` | PhasedRun, SequenceLemmas | lemmas about plans: generated steps, insertion, what stands behind a step |
| `PhasedRunProofs` | PhasedPlanProofs | the inductive invariant of a growing run; its approvals, amendments and manifests |
| `ConditionalRunProofs` | ConditionalRun, SequenceLemmas | what start reads, expands and freezes; the conditions and answers of a run |

**RunLockProofs**
- `TypeInvariant`, `LockTypeCorrect`: types, and a process counts acquisitions exactly while it holds (`Counted`).
- `NoLockLeftBehind`: `NoStrayLock`, unconditionally: also with racing recoveries and forced unlocks.
- `AtMostOneHolder`, `ExclusiveUntilSeized`, `LockImplementsMutex`: `MutualExclusion`, `ExclusiveUnlessSeized` and `MutexSpec`, for any processes on any machines, whoever dies, recovers
  or forces, up to the first removal on an overtaken reading or by force. There is no assumption on the constants beyond their types: what the code cannot guarantee is a condition on the behaviour
  (`seized`), and `lock_outdated_removal` shows that behaviours which meet it exist and lose exclusion.

  Exclusion is not inductive: nothing in it says who may be about to write metadata. `LockInv` adds that
  whoever made the directory, until it has removed it again, is alone (`Owns`), and what the metadata says where it stands
  (`Standing`: nobody's or its own). Whoever acts on a reading (`Acts`) that nobody has overtaken acts on the directory it read about, whose owner is the only one there can be, and when it removes it (`Removes`) that owner is dead. The
  refinement maps the write of the metadata to `Grant`, the outermost release or death of the holder to `Leave`, and all else to a stutter.

**CommandsProofs**
- `CommandsUseTheLock`: every behaviour of Commands is a behaviour of RunLock. So all theorems above hold for the composition.
- `CommandsTypeCorrect`, `NoUpdateIsLost`, `AgentsTakeTurns`, `AnswersAreOwn`: `CommandsTypeOK`, `NoLostUpdate`, `OneAgentAtATime` and
  `PublishedIsOwn`, for any processes, machines and numbers of steps, likewise until something is seized; `CommandsExclude` puts the same condition on the lock under these commands.

  `WorkInv` says that only the holder of the lock is in a command; that what it read is fresh when it is about to save; that a step in turn is left to
  complete; that a live agent is one its advance waits for, unless that advance is dead; and that the staging file is empty, the current agent's, or a dead
  advance's. It is inductive relative to `MutualExclusion`, which comes from the lock: while one process holds it, every other one is in no command (`Alone`).

**PatchStepProofs**
- `PatchTypeCorrect`, `RepositoryStaysAccounted`, `RevisionsStayIntact`, `ArtifactStaysLastPatch`, `PatchesNeedTheGate`: all five properties of `patch_step`, for
  any patches, any number of kept revisions and any fallback profiles.

  `UnderWay` strengthens them while a completion is in progress: its step is in progress and its answer is there; after the patch was applied,
  what was hashed is what the run knew plus that answer unless somebody touched the tree since it was compared, which is why recording it keeps the account; the archived revision is that answer; and a step in progress outside
  external recovery has an approved gate. `Untouched` says that, as long as the user leaves the repository alone during a completion, the tracked changes are what the run knew, and that plus the answer once it is applied. `Numbered` says that the next revision has the number of none the state names, so that archiving and discarding it harm no other one.

**WorkflowRunProofs**
- `TypeCorrect`, `WorkStaysInOrder`, `OneStepUnderWay`, `RetriesStayWithinBudget`: `TypeOK`, `WorkInOrder`,
  `CurrentIsUnderWay`, `RetriesWithinBudget`, for every plan without a patch-producing step, with crashes, edits and whatever throws.
- `HaltedVerdictsHold`: `HaltedVerdictHoldsBackWork`, likewise. The stronger `NegativeVerdictHoldsBackWork` is false (`lost_verdict_retry`).

  The invariant is `RunInv`. `Good` is what every saved table satisfies: active work has only terminal steps before it
  (`Ordered`), gates are never in progress, nothing is active behind a halted verdict (`HaltHolds`), counts are in budget. The halting part is needed for order: retry and acknowledge
  ask for a halted step, and reopening one must not leave active work behind it. Around it stand the command
  in progress (`HandedOver`: a dispatched step is current and in progress; `RetryPending`: a pending retry belongs to a completed
  policy step with budget left; `Starting`: `next` has opened a ready step in a run that nothing halts) and `CurrentIsUnderWay`. The proof has lemmas about tables (cutting a table from a step on,
  skipping a step, setting one step keeps `Good`) and one lemma per action that applies them.

- `ApprovalsCover`, `SkipsStandBehindReviews`: `ApprovalCoversConsumers` and `SkippedBehindReview`, for every such plan, with crashes and edits. The first excepts the steps in `slipped`, over whose start a file was edited.

  `DecisionInv` adds to them that an approved gate has a content (`ApprovalGiven`) and that an input was recorded from a step that stands earlier
  (`InputsHaveSources`), which is why a consumer that is not superseded stands behind the producer. Every action either leaves what the decisions rest on (`Same`), makes an entry that
  was not complete inactive (`Rests`), or starts or completes work whose inputs agree with the decisions (`Fits`). The proof made two conjuncts of
  `PlanAssumption` necessary, which the schema and the expansion guarantee: the steps of a review cycle are unconditional, and nobody
  else writes the output of a policy step.

**PhasedPlanProofs**, **PhasedRunProofs**
- `PhasedTypeCorrect`, `WorkStaysInOrder`, `AnnouncedInputsRecorded`: `TypeOK`, `WorkInOrder`, `AnnouncedInputsAreRecorded`, for all plans, contents and bounds, and all manifests whose generated
  steps have distinct ids. A step in `taken` may be ahead of its turn; the proof shows that it takes no other one along.

  The lemmas about plans say what the operators compute for every input: `BehindLinked`, that the steps reached through a linked table are exactly the later ones; `GeneratedGroup`, that the steps of
  a manifest have distinct ids that continue the placeholder's, gates behind their work, retries to earlier work; `GrownConforms`, `GrownChained`, `GrownRooted`, gathered in `Materialized`, that
  a plan with such a group inserted behind its placeholder is again a plan as `PhasesAssumption` wants it, with a linked table. The recursive functions are unfolded by
  induction on the naturals, stated for a set of numbers closed under successor (`NatSteps`), since the provers cannot instantiate the library's induction theorems.

  `RunInv` is the invariant. Besides the types and `PlanOk` (the facts just named) it has `Ordered`, that nothing is active behind an unfinished or halted entry, where a
  materialized placeholder counts as active; `AllSound`, what each entry satisfies alone (a complete work step has an output, a waiting handoff announced what its step recorded, only agents ran);
  `Serves`, that the command in progress serves a step under way at which `next` arrived, with nothing unfinished in front of it; `Logged` and `SpawnLogged`, that whoever ran has its event unless the log is
  broken; `Untouched`, that nothing behind a waiting placeholder was amended. Every action does one of five things to the entries, and the proof has
  one lemma for each of these and one for each action: nothing (`Kept`), one entry that is not past changes (`Changed`), a step and all behind it are sent back
  (`Cut`), a gate is approved (`Approves`), a manifest is materialized (`Grows`).

- `HandoffApprovalsStayCurrent` (`ApprovedHandoffIsCurrent`): what is approved and what is complete change together.
- `AmendmentsComeFirst` (`AmendedBeforeAnyReader`): what `NotExecuted` reads off state and log covers every step behind, by `Logged` and `BehindLinked`.
- `SequencesOfApprovedManifests` (`SequenceIsOfApprovedManifest`): by the invariant `SequencesStand`; its gate stays approved because nothing in front of a materialized placeholder
  can be sent back (`FrontStays`: the save of such an invalidation throws), and the generated steps stay in place when another placeholder grows in front of or behind them.
- `AmendedTextsAreKept` (`AmendedTextIsKept`): by the invariant `TextsKept`; an unguarded file changes only through its own step (`FilesStay`), and archiving a revision touches no
  recorded one.

**ConditionalRunProofs**
- `ParametersConform` (`EffectiveParametersConform`), from the invariant `ReadInv` of reading. It says of the agenda that no mount on it stands at, above or below another one, nor at or above
  what was read (`AgendaSound`, with `Prefix` on namespaces), so that `Read` never overwrites what it has read; and of each workflow read that its text is valid and what it mounts was read or will be
  (`NodeSound`). Without the second a finished agenda would not mean a complete tree. The files may change between any two reads.
- `FrozenPlansAreRunnable` (`FrozenPlanIsRunnable`) and `ReviewersAreNotAuthors` (`CycleReviewerIsNotAuthor`), from `PlanInv`: what an accepted expansion is. `ExpansionLevel` shows, for each
  depth, that a workflow expanded over sound expansions is sound: a step refers only to steps in front of it (`RefersBack`), where a mount contributes nothing a sibling may refer to. `PlanAsksWhatIsKnown` adds that its conditions read what earlier agents must answer. `UnrolledPlan` carries that through the
  unrolling of review cycles; every generated step is traced to its cycle (`PartOf`, `StepOfExpansion`), whose author and reviewer differ after the mapping of roles. The positions of steps in a flattened
  sequence are the lemmas `FlattenPlaces` and `FlattenBefore`. The induction holds at every depth, so the argument does not rest on `MaxDepth` being deep enough.
- `ConditionsHold` (`ConditionHeldAtStart`): `EvaluationMeans` shows of every well-formed condition that the evaluator answers true exactly when all operands were answered and the condition holds. Upwards through the nodes,
  a node with a value has the value of its truth (`NodeMeans`); downwards from the last one, a node with a value has only parts with values, so every comparison was answered.
- `ConditionalTypeCorrect` (`TypeOK`), from `ReadInv` and `RunTyped`.
- `SkippedForTheseAnswers` (`SkippedIsFalseNow`): the invariant `SkipInv` adds that everything in front of a step skipped for its condition is finished. `Left` says what an action at one step leaves of each other: nothing in
  front of it moves, and sending back a finished step asks every skipped one behind it again. A condition reads only answers from in front of its step, each from one step (`OperandKept`, by the checks of the expanded plan), so it keeps its truth while these stand
  (`ConditionKept`).

**Only model-checked.** Liveness (`HolderGivesBack`, `FollowEnds`, `CommandEnds`, `AdvanceEnds`, `StartEnds`) is beyond TLAPS. The violated runs are counterexamples and need no proof.

## 6. Plan

What is left.

1. A refinement from PatchStep to the completion of WorkflowRun, with the moments "verify" to "log" as stutters before and after the recorded step.
2. From `FrozenPlanIsRunnable` to `PlanAssumption` and `PhasesAssumption`: a theorem that every frozen plan, with the fields the other modules keep, satisfies them.

## 7. Not modelled, and why

Report, status, list, workflows and doctor read and print. Path rendering, templates, prompts and the
resolution of capabilities are text and configuration without later state. Single values of a workflow file, and the limits on a phase manifest, are validated as text.
Containment and symbolic-link checks of the documentation target are refusals, which the failing completions stand
for. Retry feedback and failed agent output are written before the state that names them, like revisions; no property
reads them. The flags of a prepared dispatch decide nothing. The creation of the run directory happens once, behind a fresh identifier, before any other command can name the run. The wiring of the application has no behaviour of its own.
