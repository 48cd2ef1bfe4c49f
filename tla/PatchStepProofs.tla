-------------------------- MODULE PatchStepProofs --------------------------
(***************************************************************************)
(* What a patch step guarantees for any patches, any number of kept         *)
(* revisions and of fallback profiles, with failures and crashes at every   *)
(* moment of a completion and a user who changes the repository all along.  *)
(***************************************************************************)
EXTENDS PatchStep, SequenceTheorems, TLAPS

Tree == SUBSET (Change \cup {Foreign})
Revision == [number : 1 .. Kept + 1, text : Change]

(* The calls at which an answer is published and not yet recorded. *)
Completing == {"verify", "compare", "apply", "hash", "archive", "record"}

-----------------------------------------------------------------------------
(* A completion in progress: the step is in progress, its answer is there,   *)
(* the archived revision is the answer; and the step was started, or not     *)
(* stopped, by an approved gate unless a human has taken it over.            *)
UnderWay ==
    /\ call \in {"agent"} \cup Completing => status = "in_progress"
    /\ call \in Completing => file \in Change
    /\ call \in {"archive", "record"} => applied # Nil
    /\ call = "record" => archive[Number] = file
    /\ status = "in_progress" /\ recovery # TRUE => gate = "approved"

(* As long as the user leaves the repository alone, the tracked changes are  *)
(* what the run knew, then that and the answer.                              *)
Untouched ==
    /\ touched # FALSE => call \in {"apply", "hash", "archive", "record"}
    /\ touched = FALSE =>
         /\ call = "apply" => worktree = Known
         /\ call = "hash" => worktree = Known \cup {file}
         /\ call \in {"archive", "record"} => applied = Known \cup {file}

(* Revisions are numbered from one on until the state drops the first. *)
Numbered ==
    Len(completed) <= Kept => \A i \in DOMAIN revisions : revisions[i].number = i

PatchInv ==
    /\ TypeOK /\ UnderWay /\ Untouched /\ Numbered
    /\ RepositoryAccounted /\ RevisionsIntact /\ ArtifactIsLastPatch

-----------------------------------------------------------------------------
(* Keeping the last revisions keeps their type and their bound. *)
LEMMA LastKeptType ==
    ASSUME NEW s \in Seq(Revision)
    PROVE  /\ LastKept(s) \in Seq(Revision) /\ Len(LastKept(s)) <= Kept
           /\ Len(s) <= Kept => LastKept(s) = s
<1> USE PatchAssumption
<1>1. CASE Len(s) <= Kept
  BY <1>1 DEF LastKept
<1>2. CASE Len(s) > Kept
  <2>1. Len(s) \in Nat
    OBVIOUS
  <2>2. SubSeq(s, Len(s) - Kept + 1, Len(s)) \in Seq(Revision)
    BY <1>2, <2>1, SubSeqProperties
  <2>3. Len(SubSeq(s, Len(s) - Kept + 1, Len(s))) = Kept
    BY <1>2, <2>1, SubSeqProperties
  <2>4. QED
    BY <1>2, <2>1, <2>2, <2>3 DEF LastKept
<1>3. QED
  BY <1>1, <1>2

(* At first nothing is recorded. *)
LEMMA PatchInvInit == Init => PatchInv
<1> SUFFICES ASSUME Init PROVE PatchInv
  OBVIOUS
<1> USE PatchAssumption DEF Init
<1>1. revisions \in Seq([number : 1 .. Kept + 1, text : Change]) /\ Len(revisions) <= Kept
      /\ completed \in Seq(Change)
  OBVIOUS
<1>2. /\ internal \in BOOLEAN /\ recovery \in BOOLEAN /\ abandoned \in BOOLEAN
      /\ submitted \in BOOLEAN /\ moved \in BOOLEAN /\ submission \in BOOLEAN
      /\ touched \in BOOLEAN /\ meddled \in BOOLEAN
  OBVIOUS
<1>3. /\ archive \in [1 .. Kept + 1 -> Change \cup {Nil}]
      /\ worktree \in SUBSET (Change \cup {Foreign})
      /\ fallbacks \in 0 .. Profiles
  OBVIOUS
<1>4. TypeOK
  BY <1>1, <1>2, <1>3 DEF TypeOK, Status, Call
<1>5. UnderWay /\ Untouched /\ Numbered /\ RepositoryAccounted /\ RevisionsIntact /\ ArtifactIsLastPatch
  <2>1. UnderWay
    BY DEF UnderWay, Completing
  <2>2. Untouched
    BY DEF Untouched
  <2>3. Numbered
    BY DEF Numbered
  <2>4. RepositoryAccounted /\ RevisionsIntact /\ ArtifactIsLastPatch
    BY DEF RepositoryAccounted, RevisionsIntact, ArtifactIsLastPatch
  <2>5. QED
    BY <2>1, <2>2, <2>3, <2>4
<1>6. QED
  BY <1>4, <1>5 DEF PatchInv

-----------------------------------------------------------------------------
(* The Boolean variables stay Boolean. *)
Flags ==
    /\ internal \in BOOLEAN /\ recovery \in BOOLEAN /\ abandoned \in BOOLEAN
    /\ submitted \in BOOLEAN /\ moved \in BOOLEAN /\ submission \in BOOLEAN
    /\ touched \in BOOLEAN /\ meddled \in BOOLEAN

LEMMA FlagsStay == Flags /\ [Next]_vars => Flags'
<1> SUFFICES ASSUME Flags, [Next]_vars PROVE Flags'
  OBVIOUS
<1> USE DEF Flags, state, disk, history
<1>1. CASE Approve \/ ApprovalRefused \/ RequestChanges \/ NextStarts \/ NextContinues
  BY <1>1 DEF Approve, ApprovalRefused, RequestChanges, NextStarts, NextContinues
<1>2. CASE AgentAnswers \/ AgentFails \/ CompleteByHand
  BY <1>2 DEF AgentAnswers, AgentFails, CompleteByHand
<1>3. CASE \/ BaselineCurrent \/ TreeCompared \/ PatchApplies \/ ChangesHashed
           \/ Archives \/ Records \/ CompletionFails
  BY <1>3 DEF BaselineCurrent, TreeCompared, PatchApplies, ChangesHashed, Archives, Records,
              CompletionFails
<1>4. CASE Logs \/ LogFails
  BY <1>4 DEF Logs, LogFails
<1>5. CASE PrepareRecovery \/ SubmitRecovery \/ Retry
  BY <1>5 DEF PrepareRecovery, SubmitRecovery, Retry
<1>6. CASE SelectFallback \/ Abandon
  BY <1>6 DEF SelectFallback, Abandon
<1>7. CASE Crash \/ RepositoryChanges
  BY <1>7 DEF Crash, RepositoryChanges
<1>8. CASE UNCHANGED vars
  BY <1>8 DEF vars
<1>9. QED
  BY <1>1, <1>2, <1>3, <1>4, <1>5, <1>6, <1>7, <1>8 DEF Next, Complete, Recover

(* The rest of the types: what a completion writes. *)
RecordsType ==
    /\ revisions \in Seq(Revision) /\ Len(revisions) <= Kept
    /\ recorded \in {Nil} \cup Tree
    /\ completed \in Seq(Change)

PlacesType ==
    /\ gate \in {"open", "approved"} /\ status \in Status /\ call \in Call
    /\ fallbacks \in 0 .. Profiles
    /\ file \in Change \cup {Nil}
    /\ archive \in [1 .. Kept + 1 -> Change \cup {Nil}]
    /\ worktree \in Tree /\ applied \in {Nil} \cup Tree

LEMMA TypeParts == TypeOK <=> Flags /\ RecordsType /\ PlacesType
  BY DEF TypeOK, Flags, RecordsType, PlacesType, Revision, Tree

(* A completion is recorded whole. *)
LEMMA RecordsStay == PatchInv /\ [Next]_vars => RecordsType'
<1> SUFFICES ASSUME PatchInv, [Next]_vars PROVE RecordsType'
  OBVIOUS
<1>0. RecordsType /\ PlacesType
  BY TypeParts DEF PatchInv
<1>1. CASE Records
  <2>1. file \in Change /\ Number \in 1 .. Kept + 1
    BY <1>0, <1>1, PatchAssumption DEF PatchInv, UnderWay, Completing, Records, Number, RecordsType
  <2>2. [number |-> Number, text |-> file] \in Revision
    BY <2>1 DEF Revision
  <2>3. Append(revisions, [number |-> Number, text |-> file]) \in Seq(Revision)
    BY <1>0, <2>2 DEF RecordsType
  <2>4. revisions' \in Seq(Revision) /\ Len(revisions') <= Kept
    BY <1>1, <2>3, LastKeptType DEF Records
  <2>5. completed' \in Seq(Change)
    BY <1>0, <1>1, <2>1 DEF RecordsType, Records
  <2>6. recorded' \in {Nil} \cup Tree
    BY <1>0, <1>1 DEF PlacesType, Records
  <2>7. QED
    BY <2>4, <2>5, <2>6 DEF RecordsType
<1>2. CASE UNCHANGED <<revisions, recorded, completed>>
  BY <1>0, <1>2 DEF RecordsType
<1>3. QED
  BY <1>1, <1>2
  DEF Next, Complete, Recover, vars, state, history, Approve, ApprovalRefused, RequestChanges, NextStarts,
      NextContinues, AgentAnswers, AgentFails, CompleteByHand, BaselineCurrent, TreeCompared,
      PatchApplies, ChangesHashed, Archives,
      CompletionFails, Logs, LogFails, PrepareRecovery, SubmitRecovery, Retry, SelectFallback,
      Abandon, Crash, RepositoryChanges

(* Every step leaves the run, the files and the repository in their types. *)
LEMMA PlacesStay == PatchInv /\ [Next]_vars => PlacesType'
<1> SUFFICES ASSUME PatchInv, [Next]_vars PROVE PlacesType'
  OBVIOUS
<1>0. RecordsType /\ PlacesType
  BY TypeParts DEF PatchInv
<1> USE <1>0, PatchAssumption DEF PlacesType, Status, Call, state, disk, history
<1>1. CASE Approve \/ ApprovalRefused \/ RequestChanges
  BY <1>1 DEF Approve, ApprovalRefused, RequestChanges
<1>2. CASE NextStarts \/ NextContinues
  BY <1>2 DEF NextStarts, NextContinues, Advances
<1>3. CASE AgentAnswers \/ AgentFails \/ CompleteByHand
  BY <1>3 DEF AgentAnswers, AgentFails, CompleteByHand, Publish
<1>4. CASE BaselineCurrent \/ TreeCompared \/ PatchApplies \/ ChangesHashed
  BY <1>4 DEF BaselineCurrent, TreeCompared, PatchApplies, ChangesHashed, PatchInv, UnderWay,
              Completing, Tree
<1>5. CASE Archives
  BY <1>5 DEF Archives
<1>6. CASE Records
  BY <1>6 DEF Records
<1>7. CASE CompletionFails
  BY <1>7 DEF CompletionFails
<1>8. CASE Logs \/ LogFails
  BY <1>8 DEF Logs, LogFails
<1>9. CASE PrepareRecovery \/ SubmitRecovery \/ Retry
  BY <1>9 DEF PrepareRecovery, SubmitRecovery, Retry, Publish
<1>10. CASE SelectFallback \/ Abandon
  BY <1>10 DEF SelectFallback, Abandon
<1>11. CASE Crash
  BY <1>11 DEF Crash
<1>12. CASE RepositoryChanges
  BY <1>12 DEF RepositoryChanges, Tree
<1>13. CASE UNCHANGED vars
  BY <1>13 DEF vars
<1>14. QED
  BY <1>1, <1>2, <1>3, <1>4, <1>5, <1>6, <1>7, <1>8, <1>9, <1>10, <1>11, <1>12, <1>13
  DEF Next, Complete, Recover

-----------------------------------------------------------------------------
(* A completion in progress keeps what it has established. *)
LEMMA UnderWayStays == PatchInv /\ [Next]_vars => UnderWay'
<1> SUFFICES ASSUME PatchInv, [Next]_vars PROVE UnderWay'
  OBVIOUS
<1>0. UnderWay /\ RecordsType /\ PlacesType
  BY TypeParts DEF PatchInv
<1> USE <1>0 DEF UnderWay, Completing, Known, Number, state, disk, history
<1>1. CASE Approve \/ ApprovalRefused \/ RequestChanges
  BY <1>1 DEF Approve, ApprovalRefused, RequestChanges, Active
<1>2. CASE NextStarts \/ NextContinues
  BY <1>2 DEF NextStarts, NextContinues, Advances, PlacesType
<1>3. CASE AgentAnswers \/ AgentFails \/ CompleteByHand
  BY <1>3 DEF AgentAnswers, AgentFails, CompleteByHand, Publish
<1>4. CASE BaselineCurrent \/ TreeCompared \/ PatchApplies \/ ChangesHashed
  <2>1. worktree # Nil
    BY PatchAssumption DEF PlacesType, Tree
  <2>2. QED
    BY <1>4, <2>1 DEF BaselineCurrent, TreeCompared, PatchApplies, ChangesHashed
<1>5. CASE Archives
  <2>1. Number \in 1 .. Kept + 1
    BY PatchAssumption DEF RecordsType
  <2>2. archive'[Number] = file
    BY <1>5, <2>1 DEF Archives, PlacesType
  <2>3. QED
    BY <1>5, <2>2 DEF Archives
<1>6. CASE Records \/ CompletionFails
  BY <1>6 DEF Records, CompletionFails
<1>7. CASE Logs \/ LogFails
  BY <1>7 DEF Logs, LogFails
<1>8. CASE PrepareRecovery \/ SubmitRecovery
  BY <1>8 DEF PrepareRecovery, SubmitRecovery, Publish
<1>9. CASE Retry \/ SelectFallback \/ Abandon
  BY <1>9 DEF Retry, SelectFallback, Abandon, Active
<1>10. CASE Crash \/ RepositoryChanges
  BY <1>10 DEF Crash, RepositoryChanges
<1>11. CASE UNCHANGED vars
  BY <1>11 DEF vars
<1>12. QED
  BY <1>1, <1>2, <1>3, <1>4, <1>5, <1>6, <1>7, <1>8, <1>9, <1>10, <1>11
  DEF Next, Complete, Recover

(* The user is noticed until the comparison, and remembered after it. *)
LEMMA UntouchedStays == PatchInv /\ [Next]_vars => Untouched'
<1> SUFFICES ASSUME PatchInv, [Next]_vars PROVE Untouched'
  OBVIOUS
<1>0. Untouched
  BY DEF PatchInv
<1> USE <1>0 DEF Untouched, Known, state, disk, history
<1>1. CASE Approve \/ ApprovalRefused \/ RequestChanges \/ NextStarts \/ NextContinues
  BY <1>1 DEF Approve, ApprovalRefused, RequestChanges, NextStarts, NextContinues, Active, Advances
<1>2. CASE AgentAnswers \/ AgentFails \/ CompleteByHand
  BY <1>2 DEF AgentAnswers, AgentFails, CompleteByHand, Publish
<1>3. CASE BaselineCurrent \/ TreeCompared
  BY <1>3 DEF BaselineCurrent, TreeCompared, AsRecorded
<1>4. CASE PatchApplies \/ ChangesHashed \/ Archives
  BY <1>4 DEF PatchApplies, ChangesHashed, Archives
<1>5. CASE Records \/ CompletionFails \/ Logs \/ LogFails
  BY <1>5 DEF Records, CompletionFails, Logs, LogFails
<1>6. CASE PrepareRecovery \/ SubmitRecovery
  BY <1>6 DEF PrepareRecovery, SubmitRecovery, Publish
<1>7. CASE Retry \/ SelectFallback \/ Abandon
  BY <1>7 DEF Retry, SelectFallback, Abandon, Active
<1>8. CASE Crash
  BY <1>8 DEF Crash
<1>9. CASE RepositoryChanges
  <2>1. touched \in BOOLEAN
    BY DEF PatchInv, TypeOK
  <2>2. CASE call \in {"apply", "hash"}
    BY <1>9, <2>2 DEF RepositoryChanges
  <2>3. CASE call \notin {"apply", "hash"}
    BY <1>9, <2>1, <2>3 DEF RepositoryChanges
  <2>4. QED
    BY <2>2, <2>3
<1>10. CASE UNCHANGED vars
  BY <1>10 DEF vars
<1>11. QED
  BY <1>1, <1>2, <1>3, <1>4, <1>5, <1>6, <1>7, <1>8, <1>9, <1>10 DEF Next, Complete, Recover

(* The patch a completion records joins the ones recorded before it. *)
LEMMA AccountStays == PatchInv /\ [Next]_vars => RepositoryAccounted'
<1> SUFFICES ASSUME PatchInv, [Next]_vars PROVE RepositoryAccounted'
  OBVIOUS
<1>0. RepositoryAccounted /\ UnderWay /\ Untouched /\ RecordsType
  BY TypeParts DEF PatchInv
<1>b. meddled \in BOOLEAN /\ touched \in BOOLEAN
  BY DEF PatchInv, TypeOK
<1>1. CASE Records
  <2>1. file \in Change /\ applied # Nil
    BY <1>0, <1>1 DEF UnderWay, Completing, Records
  <2>2. recorded' = applied /\ completed' = Append(completed, file)
        /\ meddled' = (meddled \/ touched)
    BY <1>1 DEF Records
  <2>3. ~meddled' => /\ Known = {completed[i] : i \in DOMAIN completed}
                     /\ recorded' = Known \cup {file}
    <3> SUFFICES ASSUME ~meddled'
                 PROVE  /\ Known = {completed[i] : i \in DOMAIN completed}
                        /\ recorded' = Known \cup {file}
      OBVIOUS
    <3>1. meddled = FALSE /\ touched = FALSE
      BY <1>b, <2>2
    <3>2. applied = Known \cup {file}
      BY <1>0, <1>1, <3>1 DEF Untouched, Records
    <3>3. Known = {completed[i] : i \in DOMAIN completed}
      BY <1>0, <3>1 DEF Known, RepositoryAccounted
    <3>4. QED
      BY <2>2, <3>2, <3>3
  <2>4. recorded' # Nil
    BY <2>1, <2>2
  <2>5. completed' # <<>> /\ completed \in Seq(Change)
    BY <1>0, <2>1, <2>2 DEF RecordsType
  <2>6. {completed'[i] : i \in DOMAIN completed'}
          = {completed[i] : i \in DOMAIN completed} \cup {file}
    BY <2>1, <2>2, <2>5
  <2>7. QED
    BY <2>3, <2>4, <2>5, <2>6 DEF RepositoryAccounted
<1>2. CASE UNCHANGED <<recorded, completed, meddled>>
  BY <1>0, <1>2 DEF RepositoryAccounted
<1>3. QED
  BY <1>1, <1>2
  DEF Next, Complete, Recover, vars, state, history, Approve, ApprovalRefused, RequestChanges, NextStarts,
      NextContinues, AgentAnswers, AgentFails, CompleteByHand, BaselineCurrent, TreeCompared,
      PatchApplies, ChangesHashed, Archives,
      CompletionFails, Logs, LogFails, PrepareRecovery, SubmitRecovery, Retry, SelectFallback,
      Abandon, Crash, RepositoryChanges

(* The number of the next revision is that of none the state names. *)
LEMMA RevisionsStay == PatchInv /\ [Next]_vars => (Numbered /\ RevisionsIntact)'
<1> SUFFICES ASSUME PatchInv, [Next]_vars PROVE (Numbered /\ RevisionsIntact)'
  OBVIOUS
<1>0. Numbered /\ RevisionsIntact /\ UnderWay /\ RecordsType /\ PlacesType
  BY TypeParts DEF PatchInv
<1>1. Number \in 1 .. Kept + 1 /\ Number = Len(revisions) + 1
  BY <1>0, PatchAssumption DEF RecordsType, Number
<1>2. CASE Archives \/ CompletionFails
  <2>1. /\ UNCHANGED <<revisions, completed>>
        /\ \E c \in Change \cup {Nil} : archive' = archive \/ archive' = [archive EXCEPT ![Number] = c]
    BY <1>0, <1>2 DEF Archives, CompletionFails, state, history, PlacesType
  <2>2. \A n \in 1 .. Len(revisions) : archive'[n] = archive[n]
    <3>1. Len(revisions) \in Nat /\ Len(revisions) <= Kept
      BY <1>0 DEF RecordsType
    <3>2. \A n \in 1 .. Len(revisions) : n # Number /\ n \in 1 .. Kept + 1
      BY <1>1, <3>1, PatchAssumption
    <3>3. QED
      BY <1>0, <2>1, <3>2 DEF PlacesType
  <2>3. DOMAIN revisions = 1 .. Len(revisions)
    BY <1>0 DEF RecordsType
  <2>4. QED
    BY <1>0, <2>1, <2>2, <2>3 DEF Numbered, RevisionsIntact
<1>3. CASE Records
  <2>1. SUFFICES ASSUME Len(completed') <= Kept
                 PROVE  /\ \A i \in DOMAIN revisions' : revisions'[i].number = i
                        /\ Len(revisions') = Len(completed')
                        /\ \A i \in DOMAIN revisions' :
                             /\ archive'[revisions'[i].number] = revisions'[i].text
                             /\ revisions'[i].text = completed'[i]
    BY DEF Numbered, RevisionsIntact
  <2> DEFINE r == [number |-> Number, text |-> file]
  <2>2. file \in Change /\ archive[Number] = file
    BY <1>0, <1>3 DEF UnderWay, Completing, Records
  <2>3. completed' = Append(completed, file) /\ completed \in Seq(Change)
    BY <1>0, <1>3 DEF Records, RecordsType
  <2>4. Len(completed) + 1 <= Kept /\ Len(completed') = Len(completed) + 1
    BY <2>1, <2>2, <2>3
  <2>5. Len(revisions) = Len(completed)
    BY <1>0, <2>3, <2>4, PatchAssumption DEF RevisionsIntact
  <2>6. r \in Revision /\ revisions \in Seq(Revision)
    BY <1>0, <1>1, <2>2 DEF Revision, RecordsType
  <2>7. Append(revisions, r) \in Seq(Revision) /\ Len(Append(revisions, r)) = Len(revisions) + 1
    BY <2>6
  <2>8. revisions' = Append(revisions, r)
    <3>1. revisions' = LastKept(Append(revisions, r))
      BY <1>3 DEF Records
    <3>2. Len(Append(revisions, r)) <= Kept
      BY <2>4, <2>5, <2>7
    <3> HIDE DEF r
    <3>3. QED
      BY <2>7, <3>1, <3>2, LastKeptType
  <2>9. archive' = archive
    BY <1>3 DEF Records, disk
  <2>10. ASSUME NEW i \in DOMAIN revisions'
         PROVE  /\ revisions'[i].number = i
                /\ archive'[revisions'[i].number] = revisions'[i].text
                /\ revisions'[i].text = completed'[i]
    <3>1. i \in 1 .. Len(revisions) + 1
      BY <2>6, <2>7, <2>8
    <3>2. CASE i = Len(revisions) + 1
      <4>1. revisions'[i] = r /\ completed'[i] = file
        BY <2>2, <2>3, <2>5, <2>6, <2>8, <3>2
      <4>2. QED
        BY <1>1, <2>2, <2>9, <3>2, <4>1
    <3>3. CASE i \in 1 .. Len(revisions)
      <4>1. revisions'[i] = revisions[i] /\ completed'[i] = completed[i] /\ i \in DOMAIN revisions
        BY <2>2, <2>3, <2>5, <2>6, <2>8, <3>3
      <4>2. QED
        BY <1>0, <2>3, <2>4, <2>9, <4>1, PatchAssumption DEF Numbered, RevisionsIntact
    <3>4. QED
      BY <2>6, <3>1, <3>2, <3>3
  <2>11. QED
    BY <2>2, <2>3, <2>5, <2>6, <2>8, <2>10
<1>4. CASE UNCHANGED <<revisions, completed, archive>>
  BY <1>0, <1>4 DEF Numbered, RevisionsIntact
<1>5. QED
  BY <1>2, <1>3, <1>4
  DEF Next, Complete, Recover, vars, state, disk, history, Approve, ApprovalRefused, RequestChanges,
      NextStarts, NextContinues, AgentAnswers, AgentFails, CompleteByHand, BaselineCurrent, TreeCompared,
      PatchApplies, ChangesHashed, Logs,
      LogFails, PrepareRecovery, SubmitRecovery, Retry, SelectFallback, Abandon, Crash,
      RepositoryChanges

(* The artifact of a complete step is replaced only once the step is not     *)
(* complete any more.                                                        *)
LEMMA ArtifactStays == PatchInv /\ [Next]_vars => ArtifactIsLastPatch'
<1> SUFFICES ASSUME PatchInv, [Next]_vars PROVE ArtifactIsLastPatch'
  OBVIOUS
<1>0. ArtifactIsLastPatch /\ UnderWay /\ RecordsType
  BY TypeParts DEF PatchInv
<1> USE <1>0 DEF ArtifactIsLastPatch, state, disk, history
<1>1. CASE Records
  <2>1. completed' = Append(completed, file) /\ file' = file /\ file \in Change
    BY <1>1 DEF Records, UnderWay, Completing
  <2>2. Len(completed') = Len(completed) + 1 /\ completed'[Len(completed) + 1] = file
        /\ completed' # <<>>
    BY <2>1 DEF RecordsType
  <2>3. QED
    BY <2>1, <2>2
<1>2. CASE Approve \/ ApprovalRefused \/ RequestChanges \/ NextStarts \/ NextContinues
  BY <1>2 DEF Approve, ApprovalRefused, RequestChanges, NextStarts, NextContinues
<1>3. CASE AgentAnswers \/ AgentFails \/ CompleteByHand \/ SubmitRecovery \/ PrepareRecovery
  BY <1>3 DEF AgentAnswers, AgentFails, CompleteByHand, SubmitRecovery, PrepareRecovery, UnderWay
<1>4. CASE \/ BaselineCurrent \/ TreeCompared \/ PatchApplies \/ ChangesHashed
           \/ Archives \/ CompletionFails \/ Logs \/ LogFails
  BY <1>4 DEF BaselineCurrent, TreeCompared, PatchApplies, ChangesHashed, Archives, CompletionFails, Logs, LogFails
<1>5. CASE Retry \/ SelectFallback \/ Abandon \/ Crash \/ RepositoryChanges
  BY <1>5 DEF Retry, SelectFallback, Abandon, Crash, RepositoryChanges
<1>6. CASE UNCHANGED vars
  BY <1>6 DEF vars
<1>7. QED
  BY <1>1, <1>2, <1>3, <1>4, <1>5, <1>6 DEF Next, Complete, Recover

-----------------------------------------------------------------------------
(* Together they are inductive. *)
LEMMA PatchInvariant == Spec => []PatchInv
<1>1. PatchInv /\ [Next]_vars => PatchInv'
  <2>1. PatchInv /\ [Next]_vars => TypeOK'
    <3> SUFFICES ASSUME PatchInv, [Next]_vars PROVE TypeOK'
      OBVIOUS
    <3>1. Flags
      BY TypeParts DEF PatchInv
    <3>2. Flags' /\ RecordsType' /\ PlacesType'
      BY <3>1, FlagsStay, RecordsStay, PlacesStay
    <3>3. QED
      BY <3>2 DEF TypeOK, Flags, RecordsType, PlacesType, Revision, Tree
  <2>2. QED
    BY <2>1, UnderWayStays, UntouchedStays, AccountStays, RevisionsStay, ArtifactStays DEF PatchInv
<1>2. QED
  BY PatchInvInit, <1>1, PTL DEF Spec

(* Every variable keeps its type, and the state never names more than Kept   *)
(* revisions of the step (file-state.store.ts recordCompletion).             *)
THEOREM PatchTypeCorrect == Spec => []TypeOK
<1>1. PatchInv => TypeOK
  BY DEF PatchInv
<1>2. QED
  BY <1>1, PatchInvariant, PTL

(* The run adopts the changes of its own recorded completions and no other,  *)
(* wherever a completion fails or is cut off and whatever the user does to   *)
(* the worktree, but in the moment between the comparison of the worktree    *)
(* and its hash in one completion (repository-patch.service.ts apply).       *)
THEOREM RepositoryStaysAccounted == Spec => []RepositoryAccounted
<1>1. PatchInv => RepositoryAccounted
  BY DEF PatchInv
<1>2. QED
  BY <1>1, PatchInvariant, PTL

(* No failed or cut off completion damages a revision the state names, up to *)
(* the number of revisions it keeps (file-state.store.ts                     *)
(* archiveArtifactRevision and discardArtifactRevision).                     *)
THEOREM RevisionsStayIntact == Spec => []RevisionsIntact
<1>1. PatchInv => RevisionsIntact
  BY DEF PatchInv
<1>2. QED
  BY <1>1, PatchInvariant, PTL

(* The artifact of a complete step is the answer its completion recorded     *)
(* (agent-recovery-submission.service.ts discardIncompleteOutput).           *)
THEOREM ArtifactStaysLastPatch == Spec => []ArtifactIsLastPatch
<1>1. PatchInv => ArtifactIsLastPatch
  BY DEF PatchInv
<1>2. QED
  BY <1>1, PatchInvariant, PTL

(* Only an approved gate lets an answer change the repository, unless a      *)
(* human has taken the step over (step-invalidation.ts invalidateFrom).      *)
THEOREM PatchesNeedTheGate == Spec => PatchNeedsGate
<1>1. PatchInv => (call = "apply" /\ call' = "hash" /\ ~recovery => gate = "approved")
  BY DEF PatchInv, UnderWay, Completing
<1>2. QED
  BY <1>1, PatchInvariant, PTL DEF PatchNeedsGate
=============================================================================
