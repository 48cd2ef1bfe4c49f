----------------------------- MODULE PatchStep -----------------------------
(***************************************************************************)
(* An agent step whose answer is a patch of the user's repository, behind a *)
(* gate: the answer is applied to the Git worktree, archived and recorded   *)
(* by separate calls that may fail or be cut off one by one, and a failed   *)
(* step is retried, given to another profile, taken over by a human         *)
(* (external recovery) or abandoned with its run.                           *)
(* src/runs/completion.service.ts, repository-patch.service.ts,             *)
(* repository-baseline.service.ts, file-state.store.ts,                     *)
(* external-agent-recovery.service.ts, agent-recovery-submission.service.ts,*)
(* run-abandon.service.ts, src/agents/agent-fallback.service.ts.            *)
(*                                                                         *)
(* WorkflowRun.tla has the steps around this one and takes its completion   *)
(* as one step; here the completion is taken apart and what comes before    *)
(* the step is a single gate.                                               *)
(***************************************************************************)
EXTENDS Naturals, Sequences

CONSTANTS
    Change,     \* the patches an answer may carry
    Foreign,    \* an edit of the worktree that is not the run's
    Nil,        \* an absent file or record
    Kept,       \* revisions the state keeps of a step, 20 in the code
    Profiles    \* fallback profiles configured for the actor

ASSUME PatchAssumption ==
    /\ Foreign \notin Change /\ Nil \notin Change
    /\ \A T \in SUBSET (Change \cup {Foreign}) : T # Nil
    /\ Kept \in Nat \ {0} /\ Profiles \in Nat

VARIABLES
    internal,   \* state.json: declaredOutput.storage of the artifact is internal
    gate,       \* the gate in front of the step: open or approved
    status,     \* state.json: the step
    recovery,   \* state.json: externalRecovery is set
    revisions,  \* state.json: artifactRevisions
    recorded,   \* state.json: repositoryPatch, the tracked changes it hashes
    abandoned,  \* state.json: abandonment is set
    fallbacks,  \* state.json: fallback profiles used
    submitted,  \* events.jsonl: agent.external_recovery.submitted
    file,       \* the published artifact
    archive,    \* artifact-revisions/<step>/<number>.md
    worktree,   \* the tracked changes of the repository
    moved,      \* HEAD is not the frozen baseline any more
    call,       \* where the command that holds the run lock stands
    submission, \* that command is submit-agent-output
    applied,    \* patchApplication of that command: the tracked changes after it
    completed,  \* history: the patches of all recorded completions
    touched,    \* history: the user changed the repository since it was compared
    meddled     \* history: a recorded completion was touched

state == <<internal, gate, status, recovery, revisions, recorded, abandoned, fallbacks>>
disk == <<submitted, file, archive, worktree, moved>>
history == <<completed, touched, meddled>>
vars == <<state, disk, call, submission, applied, history>>

Status == {"pending", "in_progress", "complete", "failed", "stale"}

(* "agent": the agent runs; "verify": its answer is published; "compare":    *)
(* HEAD was looked at; "apply": the tracked changes were; "hash": the patch  *)
(* is applied; "archive": the changes after it are hashed; "record": the     *)
(* revision is archived; "log": the completion is saved, not its events.     *)
Call == {"none", "agent", "verify", "compare", "apply", "hash", "archive", "record", "log"}

(* Every variable keeps its type; the state keeps at most Kept revisions. *)
TypeOK ==
    /\ internal \in BOOLEAN /\ gate \in {"open", "approved"}
    /\ status \in Status
    /\ revisions \in Seq([number : 1 .. Kept + 1, text : Change]) /\ Len(revisions) <= Kept
    /\ recorded \in {Nil} \cup SUBSET (Change \cup {Foreign})
    /\ recovery \in BOOLEAN /\ abandoned \in BOOLEAN /\ submitted \in BOOLEAN
    /\ fallbacks \in 0 .. Profiles
    /\ file \in Change \cup {Nil}
    /\ archive \in [1 .. Kept + 1 -> Change \cup {Nil}]
    /\ worktree \in SUBSET (Change \cup {Foreign}) /\ moved \in BOOLEAN
    /\ call \in Call /\ submission \in BOOLEAN
    /\ applied \in {Nil} \cup SUBSET (Change \cup {Foreign})
    /\ completed \in Seq(Change) /\ touched \in BOOLEAN /\ meddled \in BOOLEAN

Init ==
    /\ internal \in BOOLEAN
    /\ gate = "open" /\ status = "pending" /\ recovery = FALSE
    /\ revisions = <<>> /\ recorded = Nil /\ abandoned = FALSE /\ fallbacks = 0
    /\ submitted = FALSE /\ file = Nil /\ archive = [n \in 1 .. Kept + 1 |-> Nil]
    /\ worktree = {} /\ moved = FALSE
    /\ call = "none" /\ submission = FALSE /\ applied = Nil
    /\ completed = <<>> /\ touched = FALSE /\ meddled = FALSE

-----------------------------------------------------------------------------
(* What is in front of the step.  An abandoned run refuses gate decisions,   *)
(* next, retry and fallback.                                                 *)
Active == call = "none" /\ ~abandoned

Approve ==
    /\ Active /\ gate = "open"
    /\ gate' = "approved"
    /\ UNCHANGED <<internal, status, recovery, revisions, recorded, abandoned, fallbacks,
                   disk, call, submission, applied, history>>

(* approve finds that the step consumed another text than the one that would *)
(* be approved: it makes the step stale and throws.                          *)
ApprovalRefused ==
    /\ Active /\ gate = "open" /\ status = "complete"
    /\ status' = "stale"
    /\ UNCHANGED <<internal, gate, recovery, revisions, recorded, abandoned, fallbacks,
                   disk, call, submission, applied, history>>

RequestChanges_KeepsRunning ==
    /\ Active
    /\ gate' = "open"
    /\ status' = IF status = "complete" THEN "stale" ELSE status
    /\ UNCHANGED <<internal, recovery, revisions, recorded, abandoned, fallbacks,
                   disk, call, submission, applied, history>>

(* request-changes, or next finds the approved text edited.  invalidateFrom  *)
(* reaches complete and running work, not a failed step.                     *)
RequestChanges ==
    /\ Active
    /\ gate' = "open"
    /\ status' = IF status \in {"complete", "in_progress"} THEN "stale" ELSE status
    /\ UNCHANGED <<internal, recovery, revisions, recorded, abandoned, fallbacks,
                   disk, call, submission, applied, history>>

(* advance completes the step from an internal artifact that is there and    *)
(* runs the agent otherwise.                                                 *)
Advances == IF internal /\ file # Nil THEN "verify" ELSE "agent"

(* next stops when the step is handed over; advance goes on, unless the step *)
(* waits for an external answer.                                             *)
NextStarts ==
    /\ Active /\ gate = "approved"
    /\ status \in {"pending", "stale"}
    /\ status' = "in_progress"
    /\ call' \in {"none", Advances}
    /\ UNCHANGED <<internal, gate, recovery, revisions, recorded, abandoned, fallbacks,
                   disk, submission, applied, history>>

NextContinues ==
    /\ Active /\ gate = "approved"
    /\ status = "in_progress" /\ ~recovery
    /\ call' = Advances
    /\ UNCHANGED <<state, disk, submission, applied, history>>

Publish(c) == file' = c /\ call' = "verify"

AgentAnswers ==
    /\ call = "agent"
    /\ \E c \in Change : Publish(c)
    /\ UNCHANGED <<state, submitted, archive, worktree, moved, submission, applied, history>>

(* impresairio complete, after somebody wrote the expected output by hand. *)
CompleteByHand ==
    /\ call = "none" /\ status = "in_progress"
    /\ \E c \in Change : Publish(c)
    /\ UNCHANGED <<state, submitted, archive, worktree, moved, submission, applied, history>>

(* The projection complete reads carries no abandonment, and neither of the  *)
(* two recovery services asks for it.                                        *)
PrepareRecovery ==
    /\ call = "none" /\ status = "failed"
    /\ status' = "in_progress" /\ recovery' = TRUE
    /\ UNCHANGED <<internal, gate, revisions, recorded, abandoned, fallbacks,
                   disk, call, submission, applied, history>>

SubmitRecovery ==
    /\ call = "none" /\ status = "in_progress" /\ recovery /\ ~submitted
    /\ \E c \in Change : Publish(c)
    /\ submission' = TRUE
    /\ UNCHANGED <<state, submitted, archive, worktree, moved, applied, history>>

-----------------------------------------------------------------------------
(* CompletionService.complete *)
Known == IF recorded = Nil THEN {} ELSE recorded

(* The baseline is compared with HEAD, then the tracked changes with those    *)
(* the run recorded last (none before its first patch): two calls of git,    *)
(* and whatever the user does after the second is not seen any more.         *)
BaselineCurrent ==
    /\ call = "verify" /\ ~moved
    /\ call' = "compare"
    /\ UNCHANGED <<state, disk, submission, applied, history>>

AsRecorded_Unchecked == TRUE
AsRecorded == worktree = Known

TreeCompared ==
    /\ call = "compare" /\ AsRecorded
    /\ call' = "apply"
    /\ UNCHANGED <<state, disk, submission, applied, history>>

(* git apply: a change that is already there has lost its context. *)
PatchApplies ==
    /\ call = "apply" /\ file \notin worktree
    /\ worktree' = worktree \cup {file}
    /\ call' = "hash"
    /\ UNCHANGED <<state, submitted, file, archive, moved, submission, applied, history>>

ChangesHashed ==
    /\ call = "hash"
    /\ applied' = worktree
    /\ call' = "archive"
    /\ UNCHANGED <<state, disk, submission, history>>

Number_Reused == IF revisions = <<>> THEN 1 ELSE Len(revisions)
Number == Len(revisions) + 1

Archives ==
    /\ call = "archive"
    /\ archive' = [archive EXCEPT ![Number] = file]
    /\ call' = "record"
    /\ UNCHANGED <<state, submitted, file, worktree, moved, submission, applied, history>>

LastKept_All(s) == s
LastKept(s) == IF Len(s) <= Kept THEN s ELSE SubSeq(s, Len(s) - Kept + 1, Len(s))

Records ==
    /\ call = "record"
    /\ status' = "complete" /\ recovery' = FALSE
    /\ revisions' = LastKept(Append(revisions, [number |-> Number, text |-> file]))
    /\ recorded' = applied /\ applied' = Nil
    /\ completed' = Append(completed, file)
    /\ meddled' = (meddled \/ touched) /\ touched' = FALSE
    /\ call' = "log"
    /\ UNCHANGED <<internal, gate, abandoned, fallbacks, disk, submission>>

(* A refused patch, a validation or policy error, a file or save that        *)
(* throws: the archived revision is discarded, the step is marked failed,    *)
(* and submit-agent-output removes what it published.  The worktree stays.   *)
CompletionFails ==
    /\ call \in {"verify", "compare", "apply", "hash", "archive", "record"}
    /\ status' = "failed"
    /\ archive' = IF call = "record" THEN [archive EXCEPT ![Number] = Nil] ELSE archive
    /\ file' = IF submission THEN Nil ELSE file
    /\ call' = "none" /\ submission' = FALSE /\ applied' = Nil /\ touched' = FALSE
    /\ UNCHANGED <<internal, gate, recovery, revisions, recorded, abandoned, fallbacks,
                   submitted, worktree, moved, completed, meddled>>

Logs ==
    /\ call = "log"
    /\ submitted' = (submitted \/ submission)
    /\ call' = "none" /\ submission' = FALSE
    /\ UNCHANGED <<state, file, archive, worktree, moved, applied, history>>

LogFails_Discards ==
    /\ call = "log"
    /\ file' = IF submission THEN Nil ELSE file
    /\ call' = "none" /\ submission' = FALSE
    /\ UNCHANGED <<state, submitted, archive, worktree, moved, applied, history>>

(* Writing the events of a saved completion throws: discardIncompleteOutput  *)
(* reads the state again and keeps the artifact of a complete step.          *)
LogFails ==
    /\ call = "log"
    /\ file' = IF submission /\ status # "complete" THEN Nil ELSE file
    /\ call' = "none" /\ submission' = FALSE
    /\ UNCHANGED <<state, submitted, archive, worktree, moved, applied, history>>

AgentFails ==
    /\ call = "agent"
    /\ status' = "failed" /\ call' = "none"
    /\ UNCHANGED <<internal, gate, recovery, revisions, recorded, abandoned, fallbacks,
                   disk, submission, applied, history>>

(* The process dies; what it wrote and applied stays. *)
Crash ==
    /\ call # "none"
    /\ call' = "none" /\ submission' = FALSE /\ applied' = Nil /\ touched' = FALSE
    /\ UNCHANGED <<state, disk, completed, meddled>>

-----------------------------------------------------------------------------
(* After a failure.  A retry discards an internal artifact, a fallback does *)
(* not, and neither ends an external recovery.                               *)
Retry ==
    /\ Active /\ status \in {"failed", "stale"}
    /\ status' = "pending"
    /\ file' = IF internal THEN Nil ELSE file
    /\ UNCHANGED <<internal, gate, recovery, revisions, recorded, abandoned, fallbacks,
                   submitted, archive, worktree, moved, call, submission, applied, history>>

SelectFallback ==
    /\ Active /\ status = "failed" /\ fallbacks < Profiles
    /\ status' = "pending" /\ fallbacks' = fallbacks + 1
    /\ UNCHANGED <<internal, gate, recovery, revisions, recorded, abandoned,
                   disk, call, submission, applied, history>>

Abandon ==
    /\ Active /\ status # "in_progress"
    /\ ~(gate = "approved" /\ status = "complete")
    /\ abandoned' = TRUE
    /\ UNCHANGED <<internal, gate, status, recovery, revisions, recorded, fallbacks,
                   disk, call, submission, applied, history>>

(* The user's repository, at any time: a tracked file is edited, changes are *)
(* reverted, or all are committed.                                           *)
RepositoryChanges ==
    /\ \/ worktree' \in {worktree \cup {Foreign}} \cup SUBSET worktree /\ UNCHANGED moved
       \/ worktree # {} /\ worktree' = {} /\ moved' = TRUE
    /\ touched' = (touched \/ call \in {"apply", "hash"})
    /\ UNCHANGED <<state, submitted, file, archive, call, submission, applied, completed, meddled>>

-----------------------------------------------------------------------------
Complete ==
    \/ BaselineCurrent \/ TreeCompared \/ PatchApplies \/ ChangesHashed
    \/ Archives \/ Records \/ CompletionFails \/ Logs \/ LogFails

Recover == PrepareRecovery \/ SubmitRecovery \/ Retry \/ SelectFallback \/ Abandon

Next ==
    \/ Approve \/ ApprovalRefused \/ RequestChanges \/ NextStarts \/ NextContinues
    \/ AgentAnswers \/ AgentFails \/ CompleteByHand
    \/ Complete \/ Recover \/ Crash \/ RepositoryChanges

Spec == Init /\ [][Next]_vars
-----------------------------------------------------------------------------
(* What the run records of the repository is exactly what its own recorded   *)
(* completions made of it: an edit by the user and the change of a           *)
(* completion that failed or was cut off after its patch was applied are     *)
(* adopted only when the user changed the repository in the moment between   *)
(* the comparison of the worktree and its hash in a completion that was      *)
(* recorded (repository-patch.service.ts apply, completion.service.ts        *)
(* complete).                                                                *)
RepositoryAccounted ==
    /\ recorded = Nil <=> completed = <<>>
    /\ recorded # Nil /\ ~meddled => recorded = {completed[i] : i \in DOMAIN completed}

(* As long as a step has not completed more often than the state keeps       *)
(* revisions, each revision the state names is still on disk as it was       *)
(* recorded, whatever failed or was cut off since                            *)
(* (file-state.store.ts archiveArtifactRevision, discardArtifactRevision).   *)
RevisionsIntact ==
    Len(completed) <= Kept =>
        /\ Len(revisions) = Len(completed)
        /\ \A i \in DOMAIN revisions :
             archive[revisions[i].number] = revisions[i].text /\ revisions[i].text = completed[i]

(* While the step is complete its published artifact is the patch recorded   *)
(* last (agent-recovery-submission.service.ts discardIncompleteOutput).      *)
ArtifactIsLastPatch ==
    status = "complete" => completed # <<>> /\ file = completed[Len(completed)]

(* Unless the step is under external recovery, its patch reaches the         *)
(* repository only while the gate in front of it is approved, also when the  *)
(* gate was reopened while the step was under way (step-invalidation.ts).    *)
PatchNeedsGate ==
    [][call = "apply" /\ call' = "hash" /\ ~recovery => gate = "approved"]_vars

(* An abandoned run is closed: no further patch or revision is recorded for  *)
(* it (run-state.schema.ts assertRunActive, external-agent-recovery.service  *)
(* prepare and completion.service.ts complete).                              *)
AbandonedRunIsClosed ==
    [][abandoned => UNCHANGED <<revisions, recorded>>]_vars
=============================================================================
