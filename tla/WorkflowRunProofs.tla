------------------------- MODULE WorkflowRunProofs -------------------------
(***************************************************************************)
(* What holds of every run, whatever its plan, its artifacts, the verdicts, *)
(* the failures, the decisions of the humans, the edits behind the run and  *)
(* the crashes: the types, the order of the work, the step under way, the   *)
(* retry budgets, what a halting verdict holds back, and what rests on      *)
(* approvals and reviews.  The plans are those of WorkflowRun.tla, in which *)
(* no step produces a patch.                                                *)
(***************************************************************************)
EXTENDS WorkflowRun, WellFoundedInduction, TLAPS

Table == [Step -> StepState]

Active(s, i) == IsWork(i) /\ s[i].status \in {"complete", "in_progress"}

(* What every saved table of steps satisfies: work is active only behind     *)
(* terminal steps, gates are never under way, nothing is active behind a     *)
(* verdict that halts the run, and retries stay within their budgets.        *)
Ordered(s) == \A i, j \in Step : Active(s, j) /\ i < j => Done(s, i)
GatesWait(s) == \A i \in Step : IsGate(i) => s[i].status # "in_progress"
HaltHolds(s) == \A h, j \in Step : isVerdictHalted(s, h) /\ h < j => ~Active(s, j)
InBudget(s) == \A i \in Step : s[i].retries <= Plan[i].budget

Good(s) == s \in Table /\ Ordered(s) /\ GatesWait(s) /\ HaltHolds(s) /\ InBudget(s)

-----------------------------------------------------------------------------
(* A nonempty set of steps has a last one, and LastOf is it. *)
LEMMA LastExists ==
  ASSUME NEW n \in Nat, NEW S, S \subseteq 1 .. n, S # {}
  PROVE  LastOf(S) \in S
<1> DEFINE T == {n - i : i \in S}
<1>1. T \subseteq Nat /\ T # {}
  <2>1. \A i \in S : i \in Nat /\ i <= n
    OBVIOUS
  <2>2. \A i \in S : n - i \in Nat
    BY <2>1
  <2>3. QED
    BY <2>2
<1> DEFINE R == OpToRel(<, Nat)
<1>2. IsWellFoundedOn(R, Nat)
  BY NatLessThanWellFounded
<1> HIDE DEF R, T
<1>3. PICK x \in T : \A y \in T : ~ (<<y, x>> \in R)
  BY <1>1, <1>2, WFMin
<1>4. \A x1, y1 \in Nat : y1 < x1 => <<y1, x1>> \in R
  BY DEF R, OpToRel
<1>5. PICK i \in S : x = n - i
  BY DEF T
<1>6. \A j \in S : j <= i
  <2> SUFFICES ASSUME NEW j \in S PROVE j <= i
    OBVIOUS
  <2>1. n - j \in T
    BY DEF T
  <2>2. ~(n - j < x)
    BY <2>1, <1>1, <1>3, <1>4
  <2>3. QED
    BY <2>2, <1>5
<1>7. QED
  BY <1>6 DEF LastOf

(* A nonempty set of steps has a first one, and FirstOf is it. *)
LEMMA FirstExists ==
  ASSUME NEW n \in Nat, NEW S, S \subseteq 1 .. n, S # {}
  PROVE  FirstOf(S) \in S
<1>1. S \subseteq Nat
  OBVIOUS
<1> DEFINE R == OpToRel(<, Nat)
<1>2. IsWellFoundedOn(R, Nat)
  BY NatLessThanWellFounded
<1> HIDE DEF R
<1>3. PICK i \in S : \A j \in S : ~ (<<j, i>> \in R)
  BY <1>1, <1>2, WFMin
<1>4. \A x, y \in Nat : y < x => <<y, x>> \in R
  BY DEF R, OpToRel
<1>5. \A j \in S : i <= j
  <2> SUFFICES ASSUME NEW j \in S PROVE i <= j
    OBVIOUS
  <2>1. i \in Nat /\ j \in Nat
    BY <1>1
  <2>2. ~(j < i)
    BY <2>1, <1>3, <1>4
  <2>3. QED
    BY <2>1, <2>2
<1>6. QED
  BY <1>5 DEF FirstOf

(* The plan is a finite sequence of step definitions. *)
LEMMA PlanFacts ==
  /\ Len(Plan) \in Nat
  /\ Step \subseteq Nat
  /\ \A i \in Step : Plan[i] \in StepDef /\ Plan[i].budget \in Nat
<1>1. Plan \in Seq(StepDef)
  BY PlanAssumption
<1>2. Len(Plan) \in Nat /\ Step \subseteq Nat
  BY <1>1 DEF Step
<1>3. \A i \in Step : Plan[i] \in StepDef
  BY <1>1 DEF Step
<1>4. \A d \in StepDef : d.budget \in Nat
  BY DEF StepDef
<1>5. QED
  BY <1>2, <1>3, <1>4

(* Outdated and reset steps keep the type of a step and their retry count. *)
LEMMA OutdateType ==
  ASSUME NEW r \in StepState
  PROVE  /\ Outdate(r) \in StepState
         /\ Outdate(r).status = "stale"
         /\ Outdate(r).retries = r.retries
<1>1. Outdate(r).status = "stale" /\ Outdate(r).retries = r.retries
  BY DEF StepState, Outdate
<1>2. Outdate(r) \in StepState
  BY DEF StepState, Outdate, Status
<1>3. QED
  BY <1>1, <1>2

(* A step that is reset is pending and keeps its retry count. *)
LEMMA ResetType ==
  ASSUME NEW r \in StepState
  PROVE  /\ Reset(r) \in StepState
         /\ Reset(r).status = "pending"
         /\ Reset(r).retries = r.retries
<1>1. Reset(r).status = "pending" /\ Reset(r).retries = r.retries
  BY DEF StepState, Reset
<1>2. Reset(r) \in StepState
  BY DEF StepState, Reset, Status, NoInputs
<1>3. QED
  BY <1>1, <1>2

(* A step whose status alone changes keeps everything else. *)
LEMMA StatusType ==
  ASSUME NEW r \in StepState, NEW v \in Status
  PROVE  /\ [r EXCEPT !.status = v] \in StepState
         /\ [r EXCEPT !.status = v].status = v
         /\ [r EXCEPT !.status = v].retries = r.retries
<1>1. [r EXCEPT !.status = v] \in StepState
  BY DEF StepState
<1>2. [r EXCEPT !.status = v].status = v /\ [r EXCEPT !.status = v].retries = r.retries
  BY DEF StepState
<1>3. QED
  BY <1>1, <1>2

-----------------------------------------------------------------------------
(* Nothing is active from t on: whatever was reopened there, the table is    *)
(* still good.                                                               *)
LEMMA CutGood ==
  ASSUME NEW s, Good(s), NEW s2 \in Table, NEW t \in Step,
         \A i \in Step : i < t => s2[i] = s[i],
         \A i \in Step : ~(i < t) => s2[i].status \notin {"complete", "in_progress"},
         InBudget(s2)
  PROVE  Good(s2)
<1> USE PlanFacts
<1>1. Ordered(s2)
  <2> SUFFICES ASSUME NEW i \in Step, NEW j \in Step, Active(s2, j), i < j
               PROVE  Done(s2, i)
    BY DEF Ordered
  <2>0. i \in Nat /\ j \in Nat /\ t \in Nat
    BY PlanFacts
  <2>1. j < t
    BY DEF Active
  <2>2. i < t
    BY ONLY <2>0, <2>1, i < j
  <2>3. Active(s, j)
    BY <2>1 DEF Active
  <2>4. Done(s, i)
    BY <2>3 DEF Good, Ordered
  <2>5. QED
    BY <2>2, <2>4 DEF Done
<1>2. GatesWait(s2)
  BY DEF GatesWait, Good
<1>3. HaltHolds(s2)
  <2> SUFFICES ASSUME NEW h \in Step, NEW j \in Step, isVerdictHalted(s2, h), h < j, Active(s2, j)
               PROVE  FALSE
    BY DEF HaltHolds
  <2>1. h < t /\ j < t
    BY DEF Active, isVerdictHalted
  <2>2. isVerdictHalted(s, h) /\ Active(s, j)
    BY <2>1 DEF Active, isVerdictHalted
  <2>3. QED
    BY <2>2 DEF Good, HaltHolds
<1>4. QED
  BY <1>1, <1>2, <1>3 DEF Good

(* Pending agent steps may be skipped. *)
LEMMA SkipGood ==
  ASSUME NEW s, Good(s), NEW K,
         \A k \in Step : k \in K => s[k].status = "pending" /\ IsAgent(k),
         NEW s2, s2 = [j \in Step |-> IF j \in K THEN [s[j] EXCEPT !.status = "skipped"] ELSE s[j]]
  PROVE  /\ Good(s2)
         /\ \A j \in Step : j \notin K => s2[j] = s[j]
         /\ \A j \in Step : j \in K => s2[j].status = "skipped"
<1> USE PlanFacts
<1>1. \A j \in Step : j \notin K => s2[j] = s[j]
  OBVIOUS
<1>2. \A j \in Step : j \in K => /\ s2[j] \in StepState
                                 /\ s2[j].status = "skipped" /\ s2[j].retries = s[j].retries
  BY StatusType DEF Good, Table, Status
<1>3. s2 \in Table
  BY <1>1, <1>2 DEF Good, Table
<1>4. Ordered(s2) /\ GatesWait(s2) /\ InBudget(s2)
  BY <1>1, <1>2 DEF Ordered, GatesWait, InBudget, Active, Done, Good
<1>5. HaltHolds(s2)
  <2> SUFFICES ASSUME NEW h \in Step, NEW j \in Step, isVerdictHalted(s2, h), h < j, Active(s2, j)
               PROVE  FALSE
    BY DEF HaltHolds
  <2>1. h \notin K /\ j \notin K
    BY <1>2 DEF Active, isVerdictHalted
  <2>2. isVerdictHalted(s, h) /\ Active(s, j)
    BY <1>1, <2>1 DEF Active, isVerdictHalted
  <2>3. QED
    BY <2>2 DEF Good, HaltHolds
<1>6. QED
  BY <1>1, <1>2, <1>3, <1>4, <1>5 DEF Good

(* One step may change behind which nothing is active. *)
LEMMA SetGood ==
  ASSUME NEW s, Good(s), NEW i \in Step, NEW r \in StepState,
         \A j \in Step : i < j => ~Active(s, j),
         IsGate(i) => r.status # "in_progress",
         r.retries <= Plan[i].budget,
         IsWork(i) /\ r.status \in {"complete", "in_progress"}
           => /\ DoneBefore(s, i)
              /\ \A h \in Step : h < i => ~isVerdictHalted(s, h)
  PROVE  Good([s EXCEPT ![i] = r])
<1> USE PlanFacts
<1> DEFINE s2 == [s EXCEPT ![i] = r]
<1>1. s2 \in Table /\ s2[i] = r /\ \A j \in Step : j # i => s2[j] = s[j]
  BY DEF Good, Table
<1> HIDE DEF s2
<1>2. Ordered(s2)
  BY <1>1 DEF Ordered, Active, Done, DoneBefore, Good
<1>3. GatesWait(s2) /\ InBudget(s2)
  BY <1>1 DEF GatesWait, InBudget, Good
<1>4. HaltHolds(s2)
  <2> SUFFICES ASSUME NEW h \in Step, NEW j \in Step, isVerdictHalted(s2, h), h < j, Active(s2, j)
               PROVE  FALSE
    BY DEF HaltHolds
  <2>1. CASE h = i
    BY <2>1, <1>1 DEF Active
  <2>2. CASE h # i
    <3>1. isVerdictHalted(s, h)
      BY <2>2, <1>1 DEF isVerdictHalted
    <3>2. QED
      BY <3>1, <1>1 DEF Active, Good, HaltHolds
  <2>3. QED
    BY <2>1, <2>2
<1>5. QED
  BY <1>1, <1>2, <1>3, <1>4 DEF s2, Good

(* The statuses stay and no verdict starts to halt the run. *)
LEMMA SameGood ==
  ASSUME NEW s, Good(s), NEW s2 \in Table, InBudget(s2),
         \A j \in Step : s2[j].status = s[j].status,
         \A j \in Step : isVerdictHalted(s2, j) => isVerdictHalted(s, j)
  PROVE  Good(s2)
BY DEF Good, Ordered, GatesWait, HaltHolds, Active, Done

(* invalidateFrom leaves no active step from its source on, but the one it   *)
(* is told to keep.                                                          *)
LEMMA InvalidateFacts ==
  ASSUME NEW s \in Table, NEW source \in Step, NEW keep
  PROVE  /\ invalidateFrom(s, source, keep) \in Table
         /\ \A i \in Step : i < source \/ i = keep => invalidateFrom(s, source, keep)[i] = s[i]
         /\ \A i \in Step : ~(i < source) /\ i # keep =>
              invalidateFrom(s, source, keep)[i].status \notin {"complete", "in_progress"}
         /\ \A i \in Step : invalidateFrom(s, source, keep)[i].retries = s[i].retries
<1>1. \A i \in Step : /\ s[i] \in StepState /\ Outdate(s[i]) \in StepState /\ Reset(s[i]) \in StepState
                      /\ Outdate(s[i]).status = "stale" /\ Outdate(s[i]).retries = s[i].retries
                      /\ Reset(s[i]).status = "pending" /\ Reset(s[i]).retries = s[i].retries
  BY OutdateType, ResetType DEF Table
<1>2. QED
  BY <1>1 DEF invalidateFrom, Table

-----------------------------------------------------------------------------
(* The step an agent was handed is under way; the policy step whose retry is *)
(* still to be saved is complete and within its budget.                      *)
HandedOver ==
    call \in {"dispatch", "agent"} =>
        current \in Step /\ IsAgent(current) /\ steps[current].status = "in_progress"

RetryPending ==
    call = "retry" =>
        /\ current \in Step /\ IsPolicy(current)
        /\ steps[current].status = "complete"
        /\ steps[current].retries < Plan[current].budget

Typed ==
    /\ current \in Step \cup {0}
    /\ files \in [Artifact -> Content \cup {Nil}]
    /\ call \in Call
    /\ back \in {"none", "next"}
    /\ judged \in [Step -> Content \cup {Nil}]
    /\ slipped \subseteq Step

(* next has opened a step that is ready, in a run that nothing halts.        *)
Starting ==
    call = "start" => \E i \in Step : /\ Opened(i) /\ IsWork(i)
                                      /\ \A h \in Step : ~isVerdictHalted(steps, h)

RunInv ==
    Good(steps) /\ Typed /\ CurrentIsUnderWay /\ HandedOver /\ RetryPending /\ Starting

(* What the step definitions give: the artifact a step names is declared.    *)
LEMMA PlanArtifact == \A i \in Step : Plan[i].artifact \in Artifact
<1>1. \A d \in StepDef : d.artifact \in Artifact
  BY DEF StepDef
<1>2. QED
  BY <1>1, PlanFacts

(* A step under way is work, and nothing behind it is active. *)
LEMMA UnderWayFacts ==
  ASSUME NEW s, Good(s), NEW i \in Step, ~Done(s, i)
  PROVE  /\ \A j \in Step : i < j => ~Active(s, j)
         /\ s[i].status = "in_progress" => IsWork(i) /\ DoneBefore(s, i)
         /\ s[i].status = "in_progress" => \A h \in Step : h < i => ~isVerdictHalted(s, h)
<1>1. \A j \in Step : i < j => ~Active(s, j)
  BY DEF Good, Ordered
<1>2. ASSUME s[i].status = "in_progress" PROVE IsWork(i) /\ Active(s, i)
  BY <1>2 DEF Good, GatesWait, IsWork, Active
<1>3. ASSUME s[i].status = "in_progress" PROVE DoneBefore(s, i)
  BY <1>2, <1>3 DEF Good, Ordered, DoneBefore
<1>4. ASSUME s[i].status = "in_progress", NEW h \in Step, h < i PROVE ~isVerdictHalted(s, h)
  BY <1>2, <1>4 DEF Good, HaltHolds
<1>5. QED
  BY <1>1, <1>2, <1>3, <1>4

(* The last completed producer of an artifact is a completed work step.      *)
LEMMA ProducerFacts ==
  ASSUME NEW s, NEW a, Producers(s, a) # {}
  PROVE  /\ producerForArtifact(s, a) \in Step
         /\ IsWork(producerForArtifact(s, a))
         /\ Plan[producerForArtifact(s, a)].artifact = a
         /\ s[producerForArtifact(s, a)].status = "complete"
<1>1. Producers(s, a) \subseteq 1 .. Len(Plan)
  BY DEF Producers, Step
<1>2. producerForArtifact(s, a) \in Producers(s, a)
  BY <1>1, LastExists, PlanFacts DEF producerForArtifact
<1>3. QED
  BY <1>2 DEF Producers

(* A withdrawn approval.                                                     *)
LEMMA PreflightRefusesKeeps ==
  ASSUME RunInv, PreflightRefuses
  PROVE  RunInv'
<1>1. PICK g \in Step :
        /\ Broken(g)
        /\ steps' = IF Producers(steps, Plan[g].artifact) = {} THEN steps
                    ELSE [invalidateFrom(steps, producerForArtifact(steps, Plan[g].artifact), 0)
                            EXCEPT ![g] = Outdate(@)]
  BY DEF PreflightRefuses
<1>2. call' = "none" /\ UNCHANGED <<current, files, back, judged, slipped>>
  BY DEF PreflightRefuses
<1>3. CASE Producers(steps, Plan[g].artifact) = {}
  BY <1>1, <1>2, <1>3 DEF RunInv, Typed, CurrentIsUnderWay, HandedOver, RetryPending, Starting, Call
<1>4. CASE Producers(steps, Plan[g].artifact) # {}
  <2> DEFINE p == producerForArtifact(steps, Plan[g].artifact)
             inv == invalidateFrom(steps, p, 0)
  <2>1. p \in Step /\ IsWork(p) /\ Plan[p].artifact = Plan[g].artifact
    BY <1>4, ProducerFacts
  <2>2. IsGate(g)
    BY <1>1 DEF Broken
  <2>3. p < g
    BY <2>1, <2>2, PlanAssumption
  <2> HIDE DEF p
  <2>4. /\ inv \in Table
        /\ \A i \in Step : i < p => inv[i] = steps[i]
        /\ \A i \in Step : ~(i < p) => inv[i].status \notin {"complete", "in_progress"}
        /\ \A i \in Step : inv[i].retries = steps[i].retries
    <3>1. \A i \in Step : i # 0
      BY DEF Step
    <3>2. QED
      BY <2>1, <3>1, InvalidateFacts DEF RunInv, Good
  <2> HIDE DEF inv
  <2>5. steps' = [inv EXCEPT ![g] = Outdate(inv[g])]
    BY <1>1, <1>4 DEF inv, p
  <2>6. /\ Outdate(inv[g]) \in StepState
        /\ Outdate(inv[g]).status = "stale"
        /\ Outdate(inv[g]).retries = inv[g].retries
    BY <2>4, OutdateType DEF Table
  <2>7. /\ steps' \in Table
        /\ steps'[g] = Outdate(inv[g])
        /\ \A i \in Step : i # g => steps'[i] = inv[i]
    BY <2>4, <2>5, <2>6 DEF Table
  <2>8. \A i \in Step : i < p => steps'[i] = steps[i]
    BY <2>1, <2>3, <2>4, <2>7, PlanFacts
  <2>9. \A i \in Step : ~(i < p) => steps'[i].status \notin {"complete", "in_progress"}
    BY <2>4, <2>6, <2>7
  <2>10. InBudget(steps')
    BY <2>4, <2>6, <2>7 DEF InBudget, RunInv, Good
  <2>11. Good(steps')
    BY <2>1, <2>7, <2>8, <2>9, <2>10, CutGood DEF RunInv
  <2>12. CurrentIsUnderWay'
    BY <1>2, <2>8, <2>9 DEF CurrentIsUnderWay, RunInv
  <2>14. QED
    BY <1>2, <2>11, <2>12 DEF RunInv, Typed, HandedOver, RetryPending, Starting, Call
<1>5. QED
  BY <1>3, <1>4

(* The steps next passes over are pending agent steps.                       *)
LEMMA PassedFacts ==
  ASSUME RunInv, NEW i, Reached(i)
  PROVE  /\ Good(Passed(i))
         /\ \A j \in Step : ~(j < i /\ ~Done(steps, j)) => Passed(i)[j] = steps[j]
         /\ \A j \in Step : j < i => Done(Passed(i), j)
         /\ \A j \in Step : Passed(i)[j].status # "skipped" => Passed(i)[j] = steps[j]
<1> DEFINE K == {j \in Step : j < i /\ ~Done(steps, j)}
<1>1. \A k \in Step : k \in K => steps[k].status = "pending" /\ IsAgent(k)
  BY DEF Reached, Skippable
<1>2. Passed(i) = [j \in Step |-> IF j \in K THEN [steps[j] EXCEPT !.status = "skipped"] ELSE steps[j]]
  BY DEF Passed
<1>3. \A j \in Step : j \notin K <=> ~(j < i /\ ~Done(steps, j))
  OBVIOUS
<1> HIDE DEF K
<1>4. /\ Good(Passed(i))
      /\ \A j \in Step : j \notin K => Passed(i)[j] = steps[j]
      /\ \A j \in Step : j \in K => Passed(i)[j].status = "skipped"
  BY <1>1, <1>2, SkipGood DEF RunInv
<1>5. QED
  BY <1>3, <1>4 DEF Done

(* next past the last step: the run is complete. *)
LEMMA NextCompleteKeeps ==
  ASSUME RunInv, NextComplete
  PROVE  RunInv'
<1>1. Reached(Len(Plan) + 1) /\ steps' = Passed(Len(Plan) + 1)
      /\ call' = "none" /\ UNCHANGED <<current, files, back, judged, slipped>>
  BY DEF NextComplete
<1>2. Good(steps') /\ \A j \in Step : steps'[j].status # "skipped" => steps'[j] = steps[j]
  BY <1>1, PassedFacts
<1>4. CurrentIsUnderWay'
  BY <1>1, <1>2 DEF RunInv, CurrentIsUnderWay
<1>5. QED
  BY <1>1, <1>2, <1>4 DEF RunInv, Typed, HandedOver, RetryPending, Starting, Call

(* next reaches a gate. *)
LEMMA NextGateKeeps ==
  ASSUME RunInv, NEW i \in Step, NextGate(i)
  PROVE  RunInv'
<1> DEFINE q == Passed(i)
           r == [q[i] EXCEPT !.status = "pending", !.approval = Nil]
<1>1. Reached(i) /\ IsGate(i) /\ steps' = [q EXCEPT ![i] = r]
      /\ call' = "none" /\ UNCHANGED <<current, files, back, judged, slipped>>
  BY DEF NextGate
<1>2. ~Done(steps, i)
  BY <1>1 DEF Reached
<1>3. /\ Good(q) /\ q[i] = steps[i]
      /\ \A j \in Step : q[j].status # "skipped" => q[j] = steps[j]
  BY <1>1, PassedFacts, PlanFacts
<1> HIDE DEF q
<1>4. r \in StepState /\ r.status = "pending" /\ r.retries = q[i].retries
  <2>1. q[i] \in StepState
    BY <1>3 DEF Good, Table
  <2>2. r.status = "pending" /\ r.retries = q[i].retries
    BY <2>1 DEF StepState
  <2>3. r \in StepState
    BY <2>1 DEF StepState, Status
  <2>4. QED
    BY <2>2, <2>3
<1> HIDE DEF r
<1>5. Good([q EXCEPT ![i] = r])
  <2>1. ~Done(q, i)
    BY <1>2, <1>3 DEF Done
  <2>2. \A j \in Step : i < j => ~Active(q, j)
    BY <1>3, <2>1, UnderWayFacts
  <2>3. r.retries <= Plan[i].budget
    BY <1>3, <1>4 DEF Good, InBudget
  <2>4. QED
    BY <1>3, <1>4, <2>2, <2>3, SetGood
<1>6. steps'[i].status = "pending" /\ \A j \in Step : j # i => steps'[j] = q[j]
  BY <1>1, <1>3, <1>4 DEF Good, Table
<1>7. \A j \in Step : steps'[j].status = "in_progress" => steps[j].status = "in_progress"
  BY <1>3, <1>6
<1>8. QED
  BY <1>1, <1>5, <1>7 DEF RunInv, Typed, CurrentIsUnderWay, HandedOver, RetryPending, Starting, Call

(* next refuses a failed step. *)
LEMMA NextFailedKeeps ==
  ASSUME RunInv, NEW i \in Step, NextFailed(i)
  PROVE  RunInv'
<1>1. Reached(i) /\ steps' = Passed(i) /\ call' = "none" /\ UNCHANGED <<current, files, back, judged, slipped>>
  BY DEF NextFailed
<1>2. Good(steps') /\ \A j \in Step : steps'[j].status # "skipped" => steps'[j] = steps[j]
  BY <1>1, PassedFacts
<1>4. CurrentIsUnderWay'
  BY <1>1, <1>2 DEF RunInv, CurrentIsUnderWay
<1>5. QED
  BY <1>1, <1>2, <1>4 DEF RunInv, Typed, HandedOver, RetryPending, Starting, Call

(* next finds a step already under way. *)
LEMMA NextInProgressKeeps ==
  ASSUME RunInv, NEW i \in Step, NextInProgress(i)
  PROVE  RunInv'
<1>1. Reached(i) /\ steps[i].status = "in_progress" /\ steps' = Passed(i) /\ HandsOver(i, call)
      /\ UNCHANGED <<current, files, back, judged, slipped>>
  BY DEF NextInProgress
<1>2. Good(steps') /\ (\A j \in Step : steps'[j].status # "skipped" => steps'[j] = steps[j])
      /\ steps'[i] = steps[i]
  BY <1>1, PassedFacts, PlanFacts
<1>3. current = i
  BY <1>1 DEF RunInv, CurrentIsUnderWay
<1>5. CurrentIsUnderWay'
  BY <1>1, <1>2 DEF RunInv, CurrentIsUnderWay
<1>6. QED
  BY <1>1, <1>2, <1>3, <1>5 DEF RunInv, Typed, HandedOver, RetryPending, Starting, Call, HandsOver

(* Reopening keeps the type of a step and its retry count, and leaves it     *)
(* inactive unless it was active.                                            *)
LEMMA ReopenedType ==
  ASSUME NEW r \in StepState, r.status \in {"pending", "stale"}
  PROVE  /\ Reopened(r) \in StepState
         /\ Reopened(r).status = "pending"
         /\ Reopened(r).retries = r.retries
<1>1. CASE r.status = "stale"
  <2> DEFINE q == Reset(r)
  <2>1. q \in StepState /\ q.status = "pending" /\ q.retries = r.retries
    BY ResetType
  <2>2. Reopened(r) = [q EXCEPT !.acked = FALSE]
    BY <1>1 DEF Reopened
  <2> HIDE DEF q
  <2>3. [q EXCEPT !.acked = FALSE] \in StepState
    BY <2>1 DEF StepState
  <2>4. [q EXCEPT !.acked = FALSE].status = q.status /\ [q EXCEPT !.acked = FALSE].retries = q.retries
    BY <2>1 DEF StepState
  <2>5. QED
    BY <2>1, <2>2, <2>3, <2>4
<1>2. CASE r.status # "stale"
  BY <1>2 DEF Reopened
<1>3. QED
  BY <1>1, <1>2

(* A step starts with the hashes of its inputs. *)
LEMMA StartType ==
  ASSUME NEW r \in StepState, NEW h \in [Artifact -> Content \cup {Nil}]
  PROVE  /\ [r EXCEPT !.status = "in_progress", !.inputs = h] \in StepState
         /\ [r EXCEPT !.status = "in_progress", !.inputs = h].status = "in_progress"
         /\ [r EXCEPT !.status = "in_progress", !.inputs = h].retries = r.retries
<1>1. [r EXCEPT !.status = "in_progress", !.inputs = h] \in StepState
  BY DEF StepState, Status
<1>2. [r EXCEPT !.status = "in_progress", !.inputs = h].status = "in_progress"
      /\ [r EXCEPT !.status = "in_progress", !.inputs = h].retries = r.retries
  BY DEF StepState
<1>3. QED
  BY <1>1, <1>2

(* next opens a step: nothing is under way, and nothing behind it is active. *)
LEMMA NextOpensKeeps ==
  ASSUME RunInv, NEW i \in Step, NextOpens(i)
  PROVE  RunInv'
<1> DEFINE q == Passed(i)
           r == Reopened(steps[i])
<1>1. /\ Reached(i) /\ IsWork(i) /\ steps[i].status \in {"pending", "stale"}
      /\ steps' = [q EXCEPT ![i] = r]
      /\ current' = (IF steps[i].status = "stale" /\ current = i THEN 0 ELSE current)
      /\ call' = "start" /\ back' = call /\ slipped' = slipped \ {i}
      /\ UNCHANGED <<files, judged>>
  BY DEF NextOpens
<1>2. ~Done(steps, i) /\ (\A h \in Step : ~isVerdictHalted(steps, h)) /\ call \in {"none", "next"}
  BY <1>1 DEF Reached
<1>3. /\ Good(q) /\ q[i] = steps[i] /\ q \in Table
      /\ \A j \in Step : j < i => Done(q, j)
      /\ \A j \in Step : q[j].status # "skipped" => q[j] = steps[j]
  BY <1>1, PassedFacts, PlanFacts DEF Good
<1>4. r \in StepState /\ r.status = "pending" /\ r.retries = steps[i].retries
  BY <1>1, ReopenedType DEF RunInv, Good, Table
<1> HIDE DEF q, r
<1>5. \A j \in Step : i < j => ~Active(q, j)
  BY <1>2, <1>3, UnderWayFacts DEF Done
<1>6. \A j \in Step : steps[j].status # "in_progress"
  <2> SUFFICES ASSUME NEW j \in Step, steps[j].status = "in_progress" PROVE FALSE
    OBVIOUS
  <2>1. i \in Nat /\ j \in Nat
    BY PlanFacts
  <2>2. IsWork(j) /\ DoneBefore(steps, j)
    BY UnderWayFacts DEF RunInv, Done
  <2>3. CASE j < i
    BY <1>1, <2>3 DEF Reached, Done, Skippable
  <2>4. CASE i < j
    BY <1>2, <2>2, <2>4 DEF DoneBefore
  <2>5. CASE i = j
    BY <1>1, <2>5
  <2>6. QED
    BY <2>1, <2>3, <2>4, <2>5
<1>7. Good(steps')
  <2>1. r.retries <= Plan[i].budget
    BY <1>4 DEF RunInv, Good, InBudget
  <2>2. QED
    BY <1>1, <1>3, <1>4, <1>5, <2>1, SetGood
<1>8. steps'[i] = r /\ \A j \in Step : j # i => steps'[j] = q[j]
  BY <1>1, <1>3 DEF Table
<1>9. CurrentIsUnderWay'
  BY <1>3, <1>4, <1>6, <1>8 DEF CurrentIsUnderWay
<1>10. Starting'
  <2>1. Opened(i)'
    <3>1. \A j \in Step : j < i => j # i
      BY PlanFacts
    <3>2. DoneBefore(steps', i)
      BY <1>3, <1>8, <3>1 DEF DoneBefore, Done
    <3>3. QED
      BY <1>1, <1>4, <1>8, <3>2 DEF Opened
  <2>2. \A h \in Step : ~isVerdictHalted(steps', h)
    BY <1>2, <1>3, <1>4, <1>8 DEF isVerdictHalted
  <2>3. \E k \in Step : Opened(k)' /\ IsWork(k) /\ \A h \in Step : ~isVerdictHalted(steps', h)
    BY <1>1, <2>1, <2>2
  <2>4. QED
    BY <2>3 DEF Starting, IsWork, IsGate, isVerdictHalted
<1>11. HandedOver' /\ RetryPending' /\ Typed'
  BY <1>1, <1>2 DEF HandedOver, RetryPending, Typed, Call, RunInv
<1>12. QED
  BY <1>7, <1>9, <1>10, <1>11 DEF RunInv

(* The step that starts is the one that was opened. *)
LEMMA OpenedFacts ==
  ASSUME RunInv, NEW i \in Step, Opened(i)
  PROVE  /\ IsWork(i) /\ call = "start" /\ steps[i].status = "pending" /\ DoneBefore(steps, i)
         /\ \A h \in Step : ~isVerdictHalted(steps, h)
         /\ \A j \in Step : i < j => ~Active(steps, j)
         /\ \A j \in Step : steps[j].status # "in_progress"
<1>1. call = "start" /\ steps[i].status = "pending" /\ DoneBefore(steps, i)
  BY DEF Opened
<1>2. PICK k \in Step : Opened(k) /\ IsWork(k) /\ \A h \in Step : ~isVerdictHalted(steps, h)
  BY <1>1 DEF RunInv, Starting
<1>3. k = i
  <2>1. k \in Nat /\ i \in Nat
    BY PlanFacts
  <2>2. ~(k < i) /\ ~(i < k)
    BY <1>1, <1>2 DEF Opened, DoneBefore, Done
  <2>3. QED
    BY <2>1, <2>2
<1>4. \A j \in Step : i < j => ~Active(steps, j)
  BY <1>1, UnderWayFacts DEF RunInv, Done
<1>5. \A j \in Step : steps[j].status # "in_progress"
  <2> SUFFICES ASSUME NEW j \in Step, steps[j].status = "in_progress" PROVE FALSE
    OBVIOUS
  <2>1. i \in Nat /\ j \in Nat /\ i # j
    BY <1>1, PlanFacts
  <2>2. ~(j < i)
    BY <1>1 DEF DoneBefore, Done
  <2>3. ~(i < j)
    BY <1>4, UnderWayFacts DEF RunInv, Done, Active
  <2>4. QED
    BY <2>1, <2>2, <2>3
<1>6. QED
  BY <1>1, <1>2, <1>3, <1>4, <1>5

(* next starts the step it opened, or fails to read an input. *)
LEMMA NextStartsKeeps ==
  ASSUME RunInv, NEW i \in Step, NextStarts(i)
  PROVE  RunInv'
<1> DEFINE f == initializeIfAbsent(i)
           h == inputArtifactHashes(i, f)
           started == [steps[i] EXCEPT !.status = "in_progress", !.inputs = h]
<1>1. Opened(i) /\ files' = f /\ back' = "none" /\ UNCHANGED <<judged, slipped>>
  BY DEF NextStarts
<1>2. /\ IsWork(i) /\ call = "start" /\ steps[i].status = "pending" /\ DoneBefore(steps, i)
      /\ \A k \in Step : ~isVerdictHalted(steps, k)
      /\ \A j \in Step : i < j => ~Active(steps, j)
      /\ \A j \in Step : steps[j].status # "in_progress"
  BY <1>1, OpenedFacts
<1>3. f \in [Artifact -> Content \cup {Nil}]
  <2>1. TemplateText \in Content
    BY PlanAssumption DEF Content
  <2>2. QED
    BY <2>1, PlanArtifact DEF RunInv, Typed, initializeIfAbsent
<1>4. h \in [Artifact -> Content \cup {Nil}]
  BY <1>3 DEF inputArtifactHashes
<1>5. \/ /\ steps' = [steps EXCEPT ![i] = started]
         /\ current' = i
         /\ HandsOver(i, back)
      \/ call' = "none" /\ UNCHANGED <<steps, current>>
  BY DEF NextStarts
<1> HIDE DEF f, h
<1>6. started \in StepState /\ started.status = "in_progress" /\ started.retries = steps[i].retries
  BY <1>4, StartType DEF RunInv, Good, Table
<1> HIDE DEF started
<1>7. CASE /\ steps' = [steps EXCEPT ![i] = started]
           /\ current' = i
           /\ HandsOver(i, back)
  <2>1. started.retries <= Plan[i].budget
    BY <1>6 DEF RunInv, Good, InBudget
  <2>2. Good(steps')
    BY <1>2, <1>6, <1>7, <2>1, SetGood DEF IsWork, RunInv
  <2>3. steps'[i] = started /\ \A j \in Step : j # i => steps'[j] = steps[j]
    BY <1>7 DEF RunInv, Good, Table
  <2>4. CurrentIsUnderWay'
    BY <1>2, <1>7, <2>3 DEF CurrentIsUnderWay
  <2>5. HandedOver' /\ RetryPending' /\ Starting' /\ Typed'
    BY <1>1, <1>3, <1>6, <1>7, <2>3
       DEF HandedOver, RetryPending, Starting, Typed, HandsOver, Call, RunInv
  <2>6. QED
    BY <2>2, <2>4, <2>5 DEF RunInv
<1>8. CASE call' = "none" /\ UNCHANGED <<steps, current>>
  BY <1>1, <1>3, <1>8
     DEF RunInv, Typed, CurrentIsUnderWay, HandedOver, RetryPending, Starting, Call
<1>9. QED
  BY <1>5, <1>7, <1>8

-----------------------------------------------------------------------------
(* A completion that fails marks the step that was under way. *)
LEMMA FailsKeeps ==
  ASSUME RunInv, NEW i \in Step, steps[i].status = "in_progress",
         NEW f \in [Artifact -> Content \cup {Nil}], Fails(i, f),
         judged' \in [Step -> Content \cup {Nil}]
  PROVE  RunInv'
<1> DEFINE r == [steps[i] EXCEPT !.status = "failed"]
<1>1. /\ steps' = [steps EXCEPT ![i] = r] /\ files' = f /\ call' = "none"
      /\ UNCHANGED <<current, back, slipped>>
  BY DEF Fails
<1>2. r \in StepState /\ r.status = "failed" /\ r.retries = steps[i].retries
  BY StatusType DEF RunInv, Good, Table, Status
<1> HIDE DEF r
<1>3. Good(steps')
  <2>1. \A j \in Step : i < j => ~Active(steps, j)
    BY UnderWayFacts DEF RunInv, Done
  <2>2. r.retries <= Plan[i].budget
    BY <1>2 DEF RunInv, Good, InBudget
  <2>3. QED
    BY <1>1, <1>2, <2>1, <2>2, SetGood DEF RunInv
<1>4. steps'[i] = r /\ \A j \in Step : j # i => steps'[j] = steps[j]
  BY <1>1, <1>2 DEF RunInv, Good, Table
<1>5. \A j \in Step : steps'[j].status = "in_progress" => steps[j].status = "in_progress"
  BY <1>2, <1>4
<1>6. QED
  BY <1>1, <1>3, <1>5 DEF RunInv, Typed, CurrentIsUnderWay, HandedOver, RetryPending, Starting, Call

(* What recordCompletion saves of the completed step. *)
Completed(r, c, v, e) ==
    [r EXCEPT !.status = "complete", !.output = c, !.verdict = v, !.exhausted = e]

(* A completed step keeps its retry count, and its type. *)
LEMMA CompleteType ==
  ASSUME NEW r \in StepState, NEW c \in Content, NEW v \in Verdict \cup {Nil}, NEW e \in BOOLEAN
  PROVE  /\ Completed(r, c, v, e) \in StepState
         /\ Completed(r, c, v, e).status = "complete"
         /\ Completed(r, c, v, e).retries = r.retries
<1>1. Completed(r, c, v, e) \in StepState
  BY DEF StepState, Status, Completed
<1>2. Completed(r, c, v, e).status = "complete" /\ Completed(r, c, v, e).retries = r.retries
  BY DEF StepState, Completed
<1>3. QED
  BY <1>1, <1>2

(* A completion, recorded or failed, whoever asked for it. *)
LEMMA CompletesKeeps ==
  ASSUME RunInv, NEW i \in Step, current = i, steps[i].status = "in_progress",
         NEW f \in [Artifact -> Content \cup {Nil}], NEW b \in {"none", "next"},
         Completes(i, f, b), judged' \in [Step -> Content \cup {Nil}]
  PROVE  RunInv'
<1> DEFINE c == f[Plan[i].artifact]
           v == readVerdict(i, c)
           e == Exhausted(i, v)
           K == SkippedBy(i, v)
           done == Completed(steps[i], c, v, e)
           s1 == [j \in Step |-> IF j \in K THEN [steps[j] EXCEPT !.status = "skipped"] ELSE steps[j]]
<1>1. /\ c # Nil
      /\ IsPolicy(i) \/ IsReview(i) => c \in Review
      /\ steps' = [j \in Step |-> IF j = i THEN done
                                  ELSE IF j \in K THEN [steps[j] EXCEPT !.status = "skipped"]
                                  ELSE steps[j]]
      /\ files' = f
      /\ call' = IF RetryDue(i, v) THEN "retry" ELSE b
      /\ back' = IF RetryDue(i, v) THEN b ELSE "none"
      /\ UNCHANGED <<current, slipped>>
  BY DEF Completes, Completed
<1>2. c \in Content
  BY <1>1, PlanArtifact
<1>3. v \in Verdict \cup {Nil}
  BY <1>1, PlanAssumption DEF readVerdict
<1>4. e \in BOOLEAN
  BY DEF Exhausted
<1>5. \A k \in Step : k \in K => steps[k].status = "pending" /\ IsAgent(k)
  BY DEF SkippedBy, LaterCycleSteps
<1>6. RetryDue(i, v) => IsPolicy(i) /\ steps[i].retries < Plan[i].budget
  <2>1. steps[i].retries \in Nat /\ Plan[i].budget \in Nat
    BY PlanFacts DEF RunInv, Good, Table, StepState
  <2>2. QED
    BY <2>1 DEF RetryDue, Exhausted
<1> HIDE DEF c, v, e, K
<1>7. done \in StepState /\ done.status = "complete" /\ done.retries = steps[i].retries
  <2>1. steps[i] \in StepState
    BY DEF RunInv, Good, Table
  <2>2. QED
    BY <1>2, <1>3, <1>4, <2>1, CompleteType
<1> HIDE DEF done
<1>8. /\ Good(s1)
      /\ \A j \in Step : j \notin K => s1[j] = steps[j]
      /\ \A j \in Step : j \in K => s1[j].status = "skipped"
  <2>1. Good(steps)
    BY DEF RunInv
  <2>2. s1 = [j \in Step |-> IF j \in K THEN [steps[j] EXCEPT !.status = "skipped"] ELSE steps[j]]
    OBVIOUS
  <2> HIDE DEF s1
  <2>3. QED
    BY <1>5, <2>1, <2>2, SkipGood
<1>9. s1[i] = steps[i]
  BY <1>5, <1>8
<1>10. steps' = [s1 EXCEPT ![i] = done]
  BY <1>1
<1> HIDE DEF s1
<1>11. Good(steps')
  <2>1. \A j \in Step : i < j => ~Active(s1, j)
    BY <1>8, <1>9, UnderWayFacts DEF Done
  <2>2. DoneBefore(s1, i) /\ \A h \in Step : h < i => ~isVerdictHalted(s1, h)
    BY <1>8, <1>9, UnderWayFacts DEF Done
  <2>3. done.retries <= Plan[i].budget
    BY <1>7 DEF RunInv, Good, InBudget
  <2>4. QED
    BY <1>7, <1>8, <1>10, <2>1, <2>2, <2>3, SetGood
<1>12. steps'[i] = done /\ \A j \in Step : j # i => steps'[j] = s1[j]
  BY <1>8, <1>10 DEF Good, Table
<1>13. CurrentIsUnderWay'
  BY <1>1, <1>7, <1>8, <1>12 DEF CurrentIsUnderWay, RunInv
<1>14. RetryPending' /\ HandedOver' /\ Starting'
  BY <1>1, <1>6, <1>7, <1>12 DEF RetryPending, HandedOver, Starting
<1>15. Typed'
  BY <1>1 DEF Typed, RunInv, Call
<1>16. QED
  BY <1>11, <1>13, <1>14, <1>15 DEF RunInv

(* The end of a completion, one way or the other. *)
LEMMA RecordedKeeps ==
  ASSUME RunInv, NEW i \in Step, current = i, steps[i].status = "in_progress",
         NEW f \in [Artifact -> Content \cup {Nil}], NEW b \in {"none", "next"},
         Completes(i, f, b) \/ Fails(i, f), judged' \in [Step -> Content \cup {Nil}]
  PROVE  RunInv'
BY CompletesKeeps, FailsKeeps

(* The retry a verdict asked for counts once and reopens everything from its *)
(* target on.                                                                *)
LEMMA ApplyVerdictRetryKeeps ==
  ASSUME RunInv, ApplyVerdictRetry
  PROVE  RunInv'
<1> DEFINE t == Plan[current].retryFrom
           inv == invalidateFrom(steps, t, 0)
           q == ReopenedFrom(t)
           counted == [q[current] EXCEPT !.retries = @ + 1]
<1>1. /\ call = "retry" /\ steps' = [q EXCEPT ![current] = counted]
      /\ files' = Without(InternalFrom(t)) /\ current' = 0 /\ call' \in {back, "none"}
      /\ back' = "none"
      /\ UNCHANGED <<judged, slipped>>
  BY DEF ApplyVerdictRetry, Applies
<1>2. /\ current \in Step /\ IsPolicy(current) /\ steps[current].status = "complete"
      /\ steps[current].retries < Plan[current].budget
  BY <1>1 DEF RunInv, RetryPending
<1>3. steps[current].retries \in Nat /\ Plan[current].budget \in Nat /\ current \in Nat
  BY <1>2, PlanFacts DEF RunInv, Good, Table, StepState
<1>4. t \in 1 .. current - 1 /\ t \in Step /\ t < current
  <2>1. t \in 1 .. current - 1
    BY <1>2, <1>3, PlanAssumption
  <2>2. QED
    BY <1>2, <1>3, <2>1, PlanFacts DEF Step
<1>5. files' \in [Artifact -> Content \cup {Nil}]
  BY <1>1 DEF Without, RunInv, Typed
<1> HIDE DEF t
<1>6. /\ inv \in Table
      /\ \A i \in Step : i < t => inv[i] = steps[i]
      /\ \A i \in Step : ~(i < t) => inv[i].status \notin {"complete", "in_progress"}
      /\ \A i \in Step : inv[i].retries = steps[i].retries
  <2>1. \A i \in Step : i # 0
    BY DEF Step
  <2>2. QED
    BY <1>4, <2>1, InvalidateFacts DEF RunInv, Good
<1>7. \A i \in Step : i < t => ~(inv[i].status = "stale" /\ steps[i].status # "stale")
  BY <1>6
<1>8. q = [i \in Step |->
             IF i \in {k \in Step : IsAgent(k) /\ inv[k].status = "stale" /\ steps[k].status # "stale"}
                      \cup {t}
             THEN Reset(inv[i]) ELSE inv[i]]
  BY DEF ReopenedFrom
<1> HIDE DEF inv, q
<1>9. \A i \in Step : /\ Reset(inv[i]) \in StepState
                      /\ Reset(inv[i]).status = "pending"
                      /\ Reset(inv[i]).retries = inv[i].retries
  BY <1>6, ResetType DEF Table
<1>10. /\ q \in Table
       /\ \A i \in Step : i < t => q[i] = steps[i]
       /\ \A i \in Step : ~(i < t) => q[i].status \notin {"complete", "in_progress"}
       /\ \A i \in Step : q[i].retries = steps[i].retries
  <2>1. \A i \in Step : q[i] \in {inv[i], Reset(inv[i])}
    BY <1>8
  <2>2. q \in Table
    BY <1>6, <1>8, <1>9 DEF Table
  <2>3. \A i \in Step : i < t => q[i] = steps[i]
    <3>1. \A i \in Step : i < t => i # t
      BY <1>4, PlanFacts
    <3>2. QED
      BY <1>6, <1>7, <1>8, <3>1
  <2>4. QED
    BY <1>6, <1>9, <2>1, <2>2, <2>3
<1>11. counted \in StepState /\ counted.status = q[current].status
       /\ counted.retries = q[current].retries + 1
  <2>1. q[current] \in StepState
    BY <1>2, <1>10 DEF Table
  <2>2. counted.status = q[current].status /\ counted.retries = q[current].retries + 1
    BY <2>1 DEF StepState
  <2>3. counted \in StepState
    BY <2>1 DEF StepState
  <2>4. QED
    BY <2>2, <2>3
<1> HIDE DEF counted
<1>12. /\ steps' \in Table /\ steps'[current] = counted
       /\ \A i \in Step : i # current => steps'[i] = q[i]
  BY <1>1, <1>2, <1>10, <1>11 DEF Table
<1>13. InBudget(steps')
  BY <1>2, <1>3, <1>10, <1>11, <1>12 DEF InBudget, RunInv, Good
<1>14. \A i \in Step : i < t => steps'[i] = steps[i]
  <2>1. \A i \in Step : i < t => i # current
    BY <1>3, <1>4, PlanFacts
  <2>2. QED
    BY <1>10, <1>12, <2>1
<1>15. \A i \in Step : ~(i < t) => steps'[i].status \notin {"complete", "in_progress"}
  BY <1>10, <1>11, <1>12
<1>16. Good(steps')
  BY <1>4, <1>12, <1>13, <1>14, <1>15, CutGood DEF RunInv
<1>17. CurrentIsUnderWay'
  <2>1. \A i \in Step : steps'[i].status # "in_progress"
    BY <1>2, <1>14, <1>15 DEF RunInv, CurrentIsUnderWay
  <2>2. QED
    BY <2>1 DEF CurrentIsUnderWay
<1>18. QED
  BY <1>1, <1>5, <1>16, <1>17 DEF RunInv, Typed, HandedOver, RetryPending, Starting, Call

(* What an author writes is a content. *)
LEMMA PublishType ==
  ASSUME RunInv, NEW i \in Step, NEW c \in Content \cup {Nil}
  PROVE  Publish(i, c) \in [Artifact -> Content \cup {Nil}]
BY PlanArtifact DEF RunInv, Typed, Publish

(* The author of a review judges a text that is there. *)
LEMMA JudgesType ==
  ASSUME RunInv, NEW i \in Step, Judges(i)
  PROVE  judged' \in [Step -> Content \cup {Nil}]
<1>1. CASE IsReview(i)
  <2>1. i - 1 \in Step
    BY <1>1, PlanAssumption, PlanFacts DEF Step
  <2>2. steps[i].inputs \in [Artifact -> Content \cup {Nil}]
    BY DEF RunInv, Good, Table, StepState
  <2>3. QED
    BY <1>1, <2>1, <2>2, PlanArtifact DEF RunInv, Typed, Judges
<1>2. CASE ~IsReview(i)
  BY <1>2 DEF RunInv, Typed, Judges
<1>3. QED
  BY <1>1, <1>2

(* What an author may write is a content. *)
LEMMA WrittenType == \A i \in Step : Written(i) \subseteq Content
BY DEF Written, Content

(* advance: reuse, execution, answer, failure. *)
LEMMA AdvanceKeeps ==
  ASSUME RunInv, AdvanceReuses \/ AdvanceExecutes \/ AgentReturns \/ AgentFails
                 \/ AdvanceStarts \/ AdvanceStops \/ NextBlocked
  PROVE  RunInv'
<1>1. CASE AdvanceReuses
  <2>1. current \in Step /\ steps[current].status = "in_progress"
    BY <1>1 DEF AdvanceReuses, RunInv, HandedOver
  <2>2. files \in [Artifact -> Content \cup {Nil}] /\ judged' \in [Step -> Content \cup {Nil}]
    BY <1>1 DEF AdvanceReuses, RunInv, Typed
  <2>3. PICK b \in {"next", "none"} : Completes(current, files, b) \/ Fails(current, files)
    BY <1>1 DEF AdvanceReuses
  <2>4. QED
    BY <2>1, <2>2, <2>3, RecordedKeeps
<1>2. CASE AdvanceExecutes
  BY <1>2 DEF AdvanceExecutes, RunInv, Typed, CurrentIsUnderWay, HandedOver, RetryPending, Starting, Call
<1>3. CASE AgentReturns
  <2>1. current \in Step /\ steps[current].status = "in_progress"
    BY <1>3 DEF AgentReturns, RunInv, HandedOver
  <2>2. judged' \in [Step -> Content \cup {Nil}]
    BY <1>3, <2>1, JudgesType DEF AgentReturns
  <2>3. PICK c \in Written(current), b \in {"next", "none"} :
           Completes(current, Publish(current, c), b) \/ Fails(current, Publish(current, c))
    BY <1>3 DEF AgentReturns
  <2>4. Publish(current, c) \in [Artifact -> Content \cup {Nil}]
    BY <2>1, WrittenType, PublishType
  <2>5. QED
    BY <2>1, <2>2, <2>3, <2>4, RecordedKeeps
<1>4. CASE AgentFails
  <2>1. current \in Step /\ steps[current].status = "in_progress"
    BY <1>4 DEF AgentFails, RunInv, HandedOver
  <2>2. files \in [Artifact -> Content \cup {Nil}] /\ judged' \in [Step -> Content \cup {Nil}]
    BY <1>4 DEF AgentFails, RunInv, Typed
  <2>3. QED
    BY <1>4, <2>1, <2>2, RecordedKeeps DEF AgentFails
<1>5. CASE AdvanceStarts
  BY <1>5 DEF AdvanceStarts, RunInv, Typed, CurrentIsUnderWay, HandedOver, RetryPending, Starting, Call
<1>6. CASE AdvanceStops
  BY <1>6 DEF AdvanceStops, RunInv, Typed, CurrentIsUnderWay, HandedOver, RetryPending, Starting, Call
<1>7. CASE NextBlocked
  BY <1>7 DEF NextBlocked, RunInv, Typed, CurrentIsUnderWay, HandedOver, RetryPending, Starting, Call
<1>8. QED
  BY <1>1, <1>2, <1>3, <1>4, <1>5, <1>6, <1>7

(* Work done outside advance. *)
LEMMA AuthorKeeps ==
  ASSUME RunInv, NEW i \in Step, AuthorWrites(i) \/ CompleteCommand(i) \/ SubmitHostOutput(i)
  PROVE  RunInv'
<1>1. Awaited(i)
  BY DEF AuthorWrites, CompleteCommand, SubmitHostOutput
<1>2. current = i /\ steps[i].status = "in_progress" /\ call = "none"
  BY <1>1 DEF Awaited
<1>3. CASE AuthorWrites(i)
  <2>1. judged' \in [Step -> Content \cup {Nil}]
    BY <1>3, JudgesType DEF AuthorWrites
  <2>2. files' \in [Artifact -> Content \cup {Nil}]
    BY <1>3, WrittenType, PublishType DEF AuthorWrites
  <2>3. QED
    BY <1>2, <1>3, <2>1, <2>2
       DEF AuthorWrites, RunInv, Typed, CurrentIsUnderWay, HandedOver, RetryPending, Starting
<1>4. CASE CompleteCommand(i)
  <2>1. files \in [Artifact -> Content \cup {Nil}] /\ judged' \in [Step -> Content \cup {Nil}]
    BY <1>4 DEF CompleteCommand, RunInv, Typed
  <2>2. Completes(i, files, "none") \/ Fails(i, files)
    BY <1>4 DEF CompleteCommand
  <2>3. QED
    BY <1>2, <2>1, <2>2, RecordedKeeps
<1>5. CASE SubmitHostOutput(i)
  <2>1. judged' \in [Step -> Content \cup {Nil}]
    BY <1>5 DEF SubmitHostOutput, RunInv, Typed
  <2>2. PICK c \in Content \cup {Nil} :
           Completes(i, Publish(i, c), "none") \/ Fails(i, Publish(i, c))
    BY <1>5, WrittenType DEF SubmitHostOutput
  <2>3. Publish(i, c) \in [Artifact -> Content \cup {Nil}]
    BY PublishType
  <2>4. QED
    BY <1>2, <2>1, <2>2, <2>3, RecordedKeeps
<1>6. QED
  BY <1>3, <1>4, <1>5

-----------------------------------------------------------------------------
(* The human's decisions, through GateService. *)
LEMMA OutputType ==
  ASSUME NEW r \in StepState, NEW c \in Content
  PROVE  /\ [r EXCEPT !.output = c] \in StepState
         /\ [r EXCEPT !.output = c].status = r.status
         /\ [r EXCEPT !.output = c].retries = r.retries
         /\ [r EXCEPT !.output = c].acked = r.acked
         /\ [r EXCEPT !.output = c].verdict = r.verdict
         /\ [r EXCEPT !.output = c].exhausted = r.exhausted
<1>1. [r EXCEPT !.output = c] \in StepState
  BY DEF StepState
<1>2. /\ [r EXCEPT !.output = c].status = r.status
      /\ [r EXCEPT !.output = c].retries = r.retries
      /\ [r EXCEPT !.output = c].acked = r.acked
      /\ [r EXCEPT !.output = c].verdict = r.verdict
      /\ [r EXCEPT !.output = c].exhausted = r.exhausted
  BY DEF StepState
<1>3. QED
  BY <1>1, <1>2

(* An approved gate. *)
Approved(r, c) == [r EXCEPT !.status = "complete", !.approval = c]

(* An approved gate keeps its retry count, and its type. *)
LEMMA ApprovedType ==
  ASSUME NEW r \in StepState, NEW c \in Content
  PROVE  /\ Approved(r, c) \in StepState
         /\ Approved(r, c).status = "complete"
         /\ Approved(r, c).retries = r.retries
<1>1. Approved(r, c) \in StepState
  BY DEF StepState, Status, Approved
<1>2. Approved(r, c).status = "complete" /\ Approved(r, c).retries = r.retries
  BY DEF StepState, Approved
<1>3. QED
  BY <1>1, <1>2

(* approve, of an artifact no consumer read in another version. *)
LEMMA ApproveKeeps ==
  ASSUME RunInv, NEW g \in Step, Approve(g)
  PROVE  RunInv'
<1> DEFINE a == Plan[g].artifact
           c == files[a]
           p == producerForArtifact(steps, a)
           w == [steps[p] EXCEPT !.output = c]
           s1 == [steps EXCEPT ![p] = w]
<1>1. /\ IsGate(g) /\ steps[g].status = "pending" /\ call = "none"
      /\ Producers(steps, a) # {} /\ c # Nil
      /\ UNCHANGED <<current, files, call, back, judged, slipped>>
  BY DEF Approve, Approvable
<1>2. c \in Content
  BY <1>1, PlanArtifact DEF RunInv, Typed
<1>3. p \in Step /\ IsWork(p) /\ p # g
  BY <1>1, ProducerFacts DEF IsWork
<1> HIDE DEF p, c
<1>4. steps' = [s1 EXCEPT ![g] = Approved(s1[g], c)]
  <2>1. s1[g] = steps[g]
    BY <1>3 DEF RunInv, Good, Table
  <2>2. steps' = [steps EXCEPT ![p].output = c, ![g].status = "complete", ![g].approval = c]
    BY DEF Approve, p, c
  <2>3. QED
    BY <1>3, <2>1, <2>2 DEF Approved, RunInv, Good, Table
<1>5. /\ w \in StepState /\ w.status = steps[p].status /\ w.retries = steps[p].retries
      /\ w.acked = steps[p].acked /\ w.verdict = steps[p].verdict
      /\ w.exhausted = steps[p].exhausted
  BY <1>2, <1>3, OutputType DEF RunInv, Good, Table
<1> HIDE DEF w
<1>6. s1 \in Table /\ s1[p] = w /\ \A j \in Step : j # p => s1[j] = steps[j]
  BY <1>3, <1>5 DEF RunInv, Good, Table
<1> HIDE DEF s1
<1>7. Good(s1)
  <2>1. InBudget(s1)
    BY <1>5, <1>6 DEF InBudget, RunInv, Good
  <2>2. \A j \in Step : isVerdictHalted(s1, j) => isVerdictHalted(steps, j)
    BY <1>5, <1>6 DEF isVerdictHalted
  <2>3. QED
    BY <1>5, <1>6, <2>1, <2>2, SameGood DEF RunInv
<1>8. /\ Approved(s1[g], c) \in StepState /\ Approved(s1[g], c).status = "complete"
      /\ Approved(s1[g], c).retries = s1[g].retries
  BY <1>2, <1>6, ApprovedType DEF Table
<1>9. Good(steps')
  <2>1. ~Done(s1, g)
    BY <1>1, <1>3, <1>6 DEF Done
  <2>2. \A j \in Step : g < j => ~Active(s1, j)
    BY <1>7, <2>1, UnderWayFacts
  <2>3. Approved(s1[g], c).retries <= Plan[g].budget
    BY <1>7, <1>8 DEF Good, InBudget
  <2>4. QED
    BY <1>1, <1>4, <1>7, <1>8, <2>2, <2>3, SetGood DEF IsWork
<1>10. steps'[g] = Approved(s1[g], c) /\ \A j \in Step : j # g => steps'[j] = s1[j]
  BY <1>4, <1>6, <1>8 DEF Table
<1>11. \A j \in Step : steps'[j].status = "in_progress" => steps[j].status = "in_progress"
  BY <1>5, <1>6, <1>8, <1>10
<1>13. QED
  BY <1>1, <1>9, <1>11 DEF RunInv, Typed, CurrentIsUnderWay, HandedOver, RetryPending, Starting

(* approve, refused because a consumer read another version. *)
LEMMA ApproveRefusedKeeps ==
  ASSUME RunInv, NEW g \in Step, ApproveRefused(g)
  PROVE  RunInv'
<1> DEFINE out == consumersWithOutdatedInput(Plan[g].artifact)
           t == FirstOf(out)
<1>1. /\ call = "none" /\ out # {} /\ steps' = invalidateFrom(steps, t, 0)
      /\ UNCHANGED <<current, files, call, back, judged, slipped>>
  BY DEF ApproveRefused, Approvable
<1>2. t \in Step
  <2>1. out \subseteq 1 .. Len(Plan)
    BY DEF consumersWithOutdatedInput, Step
  <2> HIDE DEF out
  <2>2. t \in out
    BY <1>1, <2>1, FirstExists, PlanFacts
  <2>3. QED
    BY <2>1, <2>2 DEF Step
<1> HIDE DEF out, t
<1>3. /\ steps' \in Table
      /\ \A i \in Step : i < t => steps'[i] = steps[i]
      /\ \A i \in Step : ~(i < t) => steps'[i].status \notin {"complete", "in_progress"}
      /\ \A i \in Step : steps'[i].retries = steps[i].retries
  <2>1. \A i \in Step : i # 0
    BY DEF Step
  <2>2. QED
    BY <1>1, <1>2, <2>1, InvalidateFacts DEF RunInv, Good
<1>4. Good(steps')
  <2>1. InBudget(steps')
    BY <1>3 DEF InBudget, RunInv, Good
  <2>2. QED
    BY <1>2, <1>3, <2>1, CutGood DEF RunInv
<1>5. CurrentIsUnderWay'
  BY <1>1, <1>3 DEF RunInv, CurrentIsUnderWay
<1>7. QED
  BY <1>1, <1>4, <1>5 DEF RunInv, Typed, HandedOver, RetryPending, Starting

(* A gate that is asked for again. *)
Reasked(r) == [r EXCEPT !.status = "pending", !.approval = Nil]

(* The producer that request-changes returns is pending again. *)
LEMMA ReaskedType ==
  ASSUME NEW r \in StepState
  PROVE  /\ Reasked(r) \in StepState
         /\ Reasked(r).status = "pending"
         /\ Reasked(r).retries = r.retries
<1>1. Reasked(r) \in StepState
  BY DEF StepState, Status, Reasked
<1>2. Reasked(r).status = "pending" /\ Reasked(r).retries = r.retries
  BY DEF StepState, Reasked
<1>3. QED
  BY <1>1, <1>2

(* request-changes: the producer is pending, its successors stale. *)
LEMMA RequestChangesKeeps ==
  ASSUME RunInv, NEW g \in Step, RequestChanges(g)
  PROVE  RunInv'
<1> DEFINE a == Plan[g].artifact
           p == producerForArtifact(steps, a)
           inv == invalidateFrom(steps, p, p)
           s1 == [inv EXCEPT ![p] = Reset(inv[p])]
<1>1. /\ IsGate(g) /\ Producers(steps, a) # {} /\ call = "none"
      /\ files' = discardIf(files, a, Plan[p].internal)
      /\ current' = (IF current = p THEN 0 ELSE current)
      /\ UNCHANGED <<call, back, judged, slipped>>
  BY DEF RequestChanges
<1>2. files' \in [Artifact -> Content \cup {Nil}]
  BY <1>1 DEF discardIf, RunInv, Typed
<1>3. p \in Step /\ IsWork(p) /\ Plan[p].artifact = Plan[g].artifact
  BY <1>1, ProducerFacts
<1>4. p < g
  BY <1>1, <1>3, PlanAssumption
<1>5. p # g
  BY <1>1, <1>3 DEF IsWork
<1> HIDE DEF p
<1>6. /\ inv \in Table
      /\ \A i \in Step : i < p => inv[i] = steps[i]
      /\ \A i \in Step : ~(i < p) /\ i # p => inv[i].status \notin {"complete", "in_progress"}
      /\ \A i \in Step : inv[i].retries = steps[i].retries
  BY <1>3, InvalidateFacts DEF RunInv, Good
<1>7. steps' = [s1 EXCEPT ![g] = Reasked(s1[g])]
  <2>1. steps' = [inv EXCEPT ![p] = Reset(inv[p]), ![g] = Reasked(s1[g])]
    <3>1. s1[g] = inv[g]
      BY <1>5, <1>6 DEF Table
    <3>2. steps' = [invalidateFrom(steps, p, p) EXCEPT
                       ![p] = Reset(@),
                       ![g] = [@ EXCEPT !.status = "pending", !.approval = Nil]]
      BY DEF RequestChanges, p
    <3> HIDE DEF s1
    <3>3. steps' = [inv EXCEPT ![p] = Reset(@), ![g] = Reasked(@)]
      BY <3>2 DEF Reasked
    <3> HIDE DEF inv
    <3>4. QED
      BY <1>5, <1>6, <3>1, <3>3 DEF Table
  <2>2. QED
    BY <2>1
<1> HIDE DEF inv
<1>8. /\ s1 \in Table /\ s1[p].status = "pending" /\ s1[p].retries = steps[p].retries
      /\ \A j \in Step : j # p => s1[j] = inv[j]
  <2>1. Reset(inv[p]) \in StepState /\ Reset(inv[p]).status = "pending"
        /\ Reset(inv[p]).retries = inv[p].retries
    BY <1>3, <1>6, ResetType DEF Table
  <2>2. QED
    BY <1>3, <1>6, <2>1 DEF Table
<1> HIDE DEF s1
<1>9. /\ steps' \in Table /\ steps'[g].status = "pending" /\ steps'[g].retries = s1[g].retries
      /\ \A j \in Step : j # g => steps'[j] = s1[j]
  <2>1. Reasked(s1[g]) \in StepState /\ Reasked(s1[g]).status = "pending"
        /\ Reasked(s1[g]).retries = s1[g].retries
    BY <1>8, ReaskedType DEF Table
  <2>2. QED
    BY <1>7, <1>8, <2>1 DEF Table
<1>10. \A i \in Step : i < p => steps'[i] = steps[i]
  <2>1. \A i \in Step : i < p => i # p /\ i # g
    BY <1>3, <1>4, PlanFacts
  <2>2. QED
    BY <1>6, <1>8, <1>9, <2>1
<1>11. \A i \in Step : ~(i < p) => steps'[i].status \notin {"complete", "in_progress"}
  BY <1>6, <1>8, <1>9
<1>12. Good(steps')
  <2>1. InBudget(steps')
    BY <1>6, <1>8, <1>9 DEF InBudget, RunInv, Good
  <2>2. QED
    BY <1>3, <1>9, <1>10, <1>11, <2>1, CutGood DEF RunInv
<1>13. CurrentIsUnderWay'
  BY <1>1, <1>10, <1>11, PlanFacts DEF RunInv, CurrentIsUnderWay
<1>15. QED
  BY <1>1, <1>2, <1>12, <1>13 DEF RunInv, Typed, HandedOver, RetryPending, Starting

(* A step that is retried. *)
Retried(r) == [Reset(r) EXCEPT !.acked = FALSE]

(* A retried step is pending and keeps its retry count. *)
LEMMA RetriedType ==
  ASSUME NEW r \in StepState
  PROVE  /\ Retried(r) \in StepState
         /\ Retried(r).status = "pending"
         /\ Retried(r).retries = r.retries
<1> DEFINE q == Reset(r)
<1>1. q \in StepState /\ q.status = "pending" /\ q.retries = r.retries
  BY ResetType
<1>2. Retried(r) = [q EXCEPT !.acked = FALSE]
  BY DEF Retried
<1> HIDE DEF q
<1>3. [q EXCEPT !.acked = FALSE] \in StepState
  BY <1>1 DEF StepState
<1>4. /\ [q EXCEPT !.acked = FALSE].status = q.status
      /\ [q EXCEPT !.acked = FALSE].retries = q.retries
  BY <1>1 DEF StepState
<1>5. QED
  BY <1>1, <1>2, <1>3, <1>4

(* retry, of one step and nothing behind it. *)
LEMMA RetryKeeps ==
  ASSUME RunInv, NEW i \in Step, Retry(i)
  PROVE  RunInv'
<1>1. /\ call = "none" /\ IsWork(i) /\ UNCHANGED <<call, back, judged, slipped>>
      /\ steps[i].status \in {"stale", "failed"} \/ isVerdictHalted(steps, i)
      /\ files' = discardIf(files, Plan[i].artifact, Plan[i].internal)
  BY DEF Retry
<1>2. files' \in [Artifact -> Content \cup {Nil}]
  BY <1>1 DEF discardIf, RunInv, Typed
<1>3. CASE IsAgent(i)
  <2>1. /\ steps' = [steps EXCEPT ![i] = Retried(steps[i])]
        /\ current' = (IF current = i THEN 0 ELSE current)
    BY <1>3 DEF Retry, Retried
  <2>2. /\ Retried(steps[i]) \in StepState /\ Retried(steps[i]).status = "pending"
        /\ Retried(steps[i]).retries = steps[i].retries
    BY RetriedType DEF RunInv, Good, Table
  <2>3. Good(steps')
    <3>1. \A j \in Step : i < j => ~Active(steps, j)
      <4>1. CASE isVerdictHalted(steps, i)
        BY <4>1 DEF RunInv, Good, HaltHolds
      <4>2. CASE steps[i].status \in {"stale", "failed"}
        BY <4>2, UnderWayFacts DEF RunInv, Done
      <4>3. QED
        BY <1>1, <4>1, <4>2
    <3>2. Retried(steps[i]).retries <= Plan[i].budget
      BY <2>2 DEF RunInv, Good, InBudget
    <3>3. QED
      BY <2>1, <2>2, <3>1, <3>2, SetGood DEF RunInv
  <2>4. steps'[i].status = "pending" /\ \A j \in Step : j # i => steps'[j] = steps[j]
    BY <2>1, <2>2 DEF RunInv, Good, Table
  <2>6. CurrentIsUnderWay'
    BY <2>1, <2>4 DEF CurrentIsUnderWay, RunInv
  <2>7. QED
    BY <1>1, <1>2, <2>1, <2>3, <2>6 DEF RunInv, Typed, HandedOver, RetryPending, Starting
<1>4. CASE ~IsAgent(i)
  <2>1. UNCHANGED <<steps, current>>
    BY <1>4 DEF Retry
  <2>2. QED
    BY <1>1, <1>2, <2>1
       DEF RunInv, Typed, CurrentIsUnderWay, HandedOver, RetryPending, Starting
<1>5. QED
  BY <1>3, <1>4

(* An acknowledged verdict. *)
Acked(r) == [r EXCEPT !.acked = TRUE]

(* An acknowledgment leaves status, verdict and count alone. *)
LEMMA AckedType ==
  ASSUME NEW r \in StepState
  PROVE  /\ Acked(r) \in StepState
         /\ Acked(r).status = r.status /\ Acked(r).retries = r.retries
         /\ Acked(r).verdict = r.verdict /\ Acked(r).exhausted = r.exhausted
         /\ Acked(r).acked = TRUE
<1>1. Acked(r) \in StepState
  BY DEF StepState, Acked
<1>2. /\ Acked(r).status = r.status /\ Acked(r).retries = r.retries
      /\ Acked(r).verdict = r.verdict /\ Acked(r).exhausted = r.exhausted
      /\ Acked(r).acked = TRUE
  BY DEF StepState, Acked
<1>3. QED
  BY <1>1, <1>2

(* acknowledge. *)
LEMMA AcknowledgeKeeps ==
  ASSUME RunInv, NEW i \in Step, Acknowledge(i)
  PROVE  RunInv'
<1> DEFINE r == Acked(steps[i])
<1>1. /\ call = "none" /\ steps' = [steps EXCEPT ![i] = r]
      /\ UNCHANGED <<current, files, call, back, judged, slipped>>
  BY DEF Acknowledge, Acked
<1>2. /\ r \in StepState /\ r.status = steps[i].status /\ r.retries = steps[i].retries
      /\ r.verdict = steps[i].verdict /\ r.exhausted = steps[i].exhausted /\ r.acked = TRUE
  BY AckedType DEF RunInv, Good, Table
<1> HIDE DEF r
<1>3. steps' \in Table /\ steps'[i] = r /\ \A j \in Step : j # i => steps'[j] = steps[j]
  BY <1>1, <1>2 DEF RunInv, Good, Table
<1>4. Good(steps')
  <2>1. InBudget(steps')
    BY <1>2, <1>3 DEF InBudget, RunInv, Good
  <2>2. \A j \in Step : steps'[j].status = steps[j].status
    BY <1>2, <1>3
  <2>3. \A j \in Step : isVerdictHalted(steps', j) => isVerdictHalted(steps, j)
    BY <1>2, <1>3 DEF isVerdictHalted
  <2>4. QED
    BY <1>3, <2>1, <2>2, <2>3, SameGood DEF RunInv
<1>5. CurrentIsUnderWay'
  BY <1>1, <1>2, <1>3 DEF CurrentIsUnderWay, RunInv
<1>7. QED
  BY <1>1, <1>4, <1>5 DEF RunInv, Typed, HandedOver, RetryPending, Starting

(* An edited artifact changes no step. *)
LEMMA EditKeeps ==
  ASSUME RunInv, NEW a \in Artifact, Edit(a)
  PROVE  RunInv'
<1>1. UNCHANGED <<steps, current, call, back, judged>> /\ slipped' \subseteq Step
  BY DEF Edit, RunInv, Typed
<1>2. files' \in [Artifact -> Content \cup {Nil}]
  BY DEF Edit, RunInv, Typed, Content
<1>3. Starting'
  <2> SUFFICES ASSUME call' = "start"
               PROVE  \E i \in Step : Opened(i)' /\ IsWork(i) /\ \A h \in Step : ~isVerdictHalted(steps', h)
    BY DEF Starting, IsWork, IsGate, isVerdictHalted
  <2>1. PICK i \in Step : Opened(i) /\ IsWork(i) /\ \A h \in Step : ~isVerdictHalted(steps, h)
    BY <1>1 DEF RunInv, Starting
  <2>2. Opened(i)'
    BY <1>1, <2>1 DEF Opened, DoneBefore, Done
  <2>3. QED
    BY <1>1, <2>1, <2>2
<1>4. QED
  BY <1>1, <1>2, <1>3 DEF RunInv, Typed, CurrentIsUnderWay, HandedOver, RetryPending

(* A command that dies leaves the state as it was last saved. *)
LEMMA CrashKeeps ==
  ASSUME RunInv, Crash
  PROVE  RunInv'
BY DEF Crash, RunInv, Typed, CurrentIsUnderWay, HandedOver, RetryPending, Starting, Call

(* A lost retry changes no step. *)
LEMMA RetryLostKeeps ==
  ASSUME RunInv, RetryLost
  PROVE  RunInv'
<1>1. files' \in [Artifact -> Content \cup {Nil}]
  BY DEF RetryLost, Without, RunInv, Typed
<1>2. QED
  BY <1>1 DEF RetryLost, RunInv, Typed, CurrentIsUnderWay, HandedOver, RetryPending, Starting, Call

-----------------------------------------------------------------------------
(* Every decision of the human and every step of a command keeps the         *)
(* invariant.                                                                *)
LEMMA HumanKeeps ==
  ASSUME RunInv, Human
  PROVE  RunInv'
<1>1. CASE \E a \in Artifact : Edit(a)
  BY <1>1, EditKeeps
<1>2. CASE \E i \in Step : AuthorWrites(i) \/ CompleteCommand(i) \/ SubmitHostOutput(i)
  BY <1>2, AuthorKeeps
<1>3. CASE \E i \in Step : Approve(i) \/ ApproveRefused(i) \/ RequestChanges(i)
                           \/ Retry(i) \/ Acknowledge(i)
  BY <1>3, ApproveKeeps, ApproveRefusedKeeps, RequestChangesKeeps, RetryKeeps, AcknowledgeKeeps
<1>4. QED
  BY <1>1, <1>2, <1>3 DEF Human

(* Every step of the machine: preflight, next, advance, completion. *)
LEMMA MachineKeeps ==
  ASSUME RunInv, Machine
  PROVE  RunInv'
<1>1. CASE NextStep
  BY <1>1, AdvanceKeeps, NextCompleteKeeps, NextGateKeeps, NextFailedKeeps, NextInProgressKeeps,
     NextOpensKeeps, NextStartsKeeps DEF NextStep
<1>2. CASE AdvanceReuses \/ AdvanceExecutes \/ AgentReturns \/ AgentFails
  BY <1>2, AdvanceKeeps
<1>3. QED
  BY <1>1, <1>2, PreflightRefusesKeeps, ApplyVerdictRetryKeeps, RetryLostKeeps DEF Machine

(* RunInv is inductive. *)
LEMMA RunInvStep ==
  ASSUME RunInv, [Next]_vars
  PROVE  RunInv'
<1>1. CASE Machine
  BY <1>1, MachineKeeps
<1>2. CASE Human
  BY <1>2, HumanKeeps
<1>3. CASE AdvanceStarts \/ AdvanceStops
  BY <1>3, AdvanceKeeps
<1>4. CASE Crash
  BY <1>4, CrashKeeps
<1>5. CASE UNCHANGED vars
  BY <1>5 DEF vars, RunInv, Typed, CurrentIsUnderWay, HandedOver, RetryPending, Starting,
              Opened, DoneBefore, Done, IsWork, IsGate, isVerdictHalted
<1>6. QED
  BY <1>1, <1>2, <1>3, <1>4, <1>5 DEF Next

(* A run that was just created. *)
LEMMA RunInvInit ==
  ASSUME Init
  PROVE  RunInv
<1>1. NewStep \in StepState
  BY DEF NewStep, StepState, Status, NoInputs
<1>2. steps \in Table /\ \A i \in Step : steps[i].status = "pending" /\ steps[i].retries = 0
  BY <1>1 DEF Init, Table, NewStep
<1>3. Good(steps)
  BY <1>2, PlanFacts
     DEF Good, Ordered, GatesWait, HaltHolds, InBudget, Active, isVerdictHalted
<1>4. Typed
  BY DEF Init, Typed, Call
<1>5. QED
  BY <1>2, <1>3, <1>4
     DEF Init, RunInv, CurrentIsUnderWay, HandedOver, RetryPending, Starting

(* RunInv holds of every behaviour. *)
LEMMA RunInvariant == Spec => []RunInv
<1>1. RunInv /\ [Next]_vars => RunInv'
  BY RunInvStep
<1>2. QED
  BY RunInvInit, <1>1, PTL DEF Spec

-----------------------------------------------------------------------------
(* Every variable keeps its type, whatever happens to the run and behind it  *)
(* (run-state.schema.ts).                                                    *)
THEOREM TypeCorrect == Spec => []TypeOK
<1>1. RunInv => TypeOK
  BY DEF RunInv, Typed, Good, Table, TypeOK
<1>2. QED
  BY <1>1, RunInvariant, PTL

(* No step is complete or under way behind an unfinished one, for every      *)
(* workflow without a patch-producing step (which external recovery could    *)
(* restart out of turn), every retry budget and verdict, with crashes, edits *)
(* and saves that throw (workflow-runner.service.ts next,                    *)
(* step-invalidation.ts).                                                    *)
THEOREM WorkStaysInOrder == Spec => []WorkInOrder
<1>1. RunInv => WorkInOrder
  BY DEF RunInv, Good, Ordered, Active, WorkInOrder, DoneBefore
<1>2. QED
  BY <1>1, RunInvariant, PTL

(* The step under way is the one currentStepId names                         *)
(* (completion.service.ts complete).                                         *)
THEOREM OneStepUnderWay == Spec => []CurrentIsUnderWay
<1>1. RunInv => CurrentIsUnderWay
  BY DEF RunInv
<1>2. QED
  BY <1>1, RunInvariant, PTL

(* No policy step is retried by the machine more often than its budget says  *)
(* (verdict-completion.policy.ts, file-state.store.ts applyVerdictRetry).    *)
THEOREM RetriesStayWithinBudget == Spec => []RetriesWithinBudget
<1>1. RunInv => RetriesWithinBudget
  BY DEF RunInv, Good, InBudget, RetryPending, RetriesWithinBudget
<1>2. QED
  BY <1>1, RunInvariant, PTL

(* Nothing is complete or under way behind a verdict that halts the run and  *)
(* that nobody acknowledged, for every workflow and whatever is thrown,      *)
(* edited, retried or sent back (verdict-completion.policy.ts                *)
(* isVerdictHalted, workflow-runner.service.ts next).                        *)
THEOREM HaltedVerdictsHold == Spec => []HaltedVerdictHoldsBackWork
<1>1. RunInv => HaltedVerdictHoldsBackWork
  BY DEF RunInv, Good, HaltHolds, isVerdictHalted, Active, HaltedVerdictHoldsBackWork
<1>2. QED
  BY <1>1, RunInvariant, PTL
-----------------------------------------------------------------------------
(* What the decisions of humans and reviewers rest on, for every plan, with  *)
(* crashes and edits.                                                        *)


(* An approved gate names the content it approved. *)
ApprovalGiven ==
    \A g \in Step : IsGate(g) /\ steps[g].status = "complete" => steps[g].approval # Nil

(* What active work recorded as an input, an earlier step declares. *)
InputsHaveSources ==
    \A i \in Step, a \in Artifact :
        Active(steps, i) /\ steps[i].inputs[a] # Nil
        => \E p \in Step : p < i /\ IsWork(p) /\ Plan[p].artifact = a

(* Until somebody edits a file, the approvals next checked still hold. *)
Checked ==
    call = "start" => \A i \in Step : Opened(i) /\ i \notin slipped => PreflightPasses

DecisionInv ==
    ApprovalGiven /\ InputsHaveSources /\ ApprovalCoversConsumers /\ SkippedBehindReview

(* Review r ended the cycle of step i. *)
EndsCycle(s, r, i) ==
    /\ r < i /\ IsReview(r) /\ Plan[r].cycle = Plan[i].cycle
    /\ s[r].status = "complete"
    /\ s[r].verdict # "CHANGES_REQUESTED"

(* Gate g and step i are a pair that ApprovalCoversConsumers speaks of, when *)
(* the steps in S saw an edit.                                               *)
Covered(s, S, g, i) ==
    /\ IsGate(g) /\ s[g].status = "complete"
    /\ Active(s, i) /\ i \notin S
    /\ Plan[i].artifact # Plan[g].artifact
    /\ \A p \in Producers(s, Plan[g].artifact) : p <= i

-----------------------------------------------------------------------------
(* How a step may leave one entry of the table without touching a decision:  *)
(* what the decisions rest on is the same; or the entry was not complete and *)
(* is not active now.  A step of a cycle is skipped only with a reason.      *)
Same(j) ==
    /\ steps'[j].status = steps[j].status
    /\ steps'[j].inputs = steps[j].inputs
    /\ steps'[j].verdict = steps[j].verdict
    /\ steps'[j].approval = steps[j].approval
    /\ steps'[j].output = Nil <=> steps[j].output = Nil

Rests(j) ==
    /\ steps[j].status # "complete"
    /\ steps'[j].status \notin {"complete", "in_progress"}

SkipExplained(j) ==
    steps'[j].status = "skipped" /\ IsAgent(j) /\ Plan[j].cycle > 0
    => steps[j].status = "skipped" \/ \E r \in Step : EndsCycle(steps', r, j)

Calm(j) == (Same(j) \/ Rests(j)) /\ SkipExplained(j)

(* Work that starts or completes on inputs the decisions agree with.         *)
Fits(i) ==
    /\ IsWork(i)
    /\ steps[i].status # "complete"
    /\ steps'[i].status \in {"complete", "in_progress"}
    /\ \A a \in Artifact : steps'[i].inputs[a] # Nil
         => \E p \in Step : p < i /\ IsWork(p) /\ Plan[p].artifact = a
    /\ \A g \in Step :
         /\ IsGate(g) /\ steps[g].status = "complete"
         /\ Plan[i].artifact # Plan[g].artifact
         /\ \A p \in Producers(steps, Plan[g].artifact) : p <= i
         /\ i \notin slipped'
         => steps'[i].inputs[Plan[g].artifact] \in {Nil, steps[g].approval}

(* A step that is calm everywhere but at one entry that fits keeps every     *)
(* decision.                                                                 *)
LEMMA CalmKeeps ==
  ASSUME DecisionInv, NEW i, i \in Step => Fits(i),
         \A j \in Step : j # i => Calm(j),
         \A j \in Step : Active(steps', j) /\ j \notin slipped' => j \notin slipped
  PROVE  DecisionInv'
<1>1. \A g \in Step : IsGate(g) => g # i \/ i \notin Step
  BY DEF Fits, IsWork
<1>2. \A g \in Step : IsGate(g) /\ steps'[g].status = "complete"
                      => steps[g].status = "complete" /\ steps'[g].approval = steps[g].approval
  BY <1>1 DEF Calm, Same, Rests
<1>3. ApprovalGiven'
  BY <1>2 DEF DecisionInv, ApprovalGiven, IsGate
<1>4. \A j \in Step : j # i /\ Active(steps', j)
                      => Active(steps, j) /\ steps'[j].inputs = steps[j].inputs
  BY DEF Calm, Same, Rests, Active
<1>5. InputsHaveSources'
  <2> SUFFICES ASSUME NEW j \in Step, NEW a \in Artifact,
                      Active(steps', j), steps'[j].inputs[a] # Nil
               PROVE  \E p \in Step : p < j /\ IsWork(p) /\ Plan[p].artifact = a
    BY DEF InputsHaveSources, Active, IsWork, IsGate
  <2>1. CASE j = i
    BY <2>1 DEF Fits
  <2>2. CASE j # i
    BY <1>4, <2>2 DEF DecisionInv, InputsHaveSources
  <2>3. QED
    BY <2>1, <2>2
<1>6. \A p \in Step : steps[p].status = "complete" /\ steps[p].output # Nil
        => p = i \/ (steps'[p].status = "complete" /\ steps'[p].output # Nil)
  BY DEF Calm, Same, Rests
<1>7. \A a : Producers(steps, a) \subseteq Producers(steps', a)
  <2>1. i \in Step => steps[i].status # "complete"
    BY DEF Fits
  <2>2. QED
    BY <1>6, <2>1 DEF Producers
<1>8. ApprovalCoversConsumers'
  <2> SUFFICES ASSUME NEW g \in Step, NEW j \in Step, Covered(steps', slipped', g, j)
               PROVE  steps'[j].inputs[Plan[g].artifact] \in {Nil, steps'[g].approval}
    BY DEF ApprovalCoversConsumers, Covered, Active, IsWork, IsGate, Producers
  <2>1. steps[g].status = "complete" /\ steps'[g].approval = steps[g].approval
    BY <1>2 DEF Covered
  <2>2. \A p \in Producers(steps, Plan[g].artifact) : p <= j
    BY <1>7 DEF Covered
  <2>3. CASE j = i
    BY <2>1, <2>2, <2>3 DEF Fits, Covered
  <2>4. CASE j # i
    BY <1>4, <2>1, <2>2, <2>4
       DEF DecisionInv, ApprovalCoversConsumers, Covered, Active
  <2>5. QED
    BY <2>3, <2>4
<1>9. SkippedBehindReview'
  <2> SUFFICES ASSUME NEW j \in Step, IsAgent(j), Plan[j].cycle > 0, steps'[j].status = "skipped"
               PROVE  \E r \in Step : EndsCycle(steps', r, j)
    BY DEF SkippedBehindReview, EndsCycle, IsAgent, IsReview
  <2>1. j # i
    BY DEF Fits
  <2>2. CASE steps[j].status = "skipped"
    <3>1. PICK r \in Step : EndsCycle(steps, r, j)
      BY <2>2 DEF DecisionInv, SkippedBehindReview, EndsCycle
    <3>2. r # i
      BY <3>1 DEF EndsCycle, Fits
    <3>3. Same(r)
      BY <3>1, <3>2 DEF EndsCycle, Calm, Rests
    <3>4. EndsCycle(steps', r, j)
      BY <3>1, <3>3 DEF EndsCycle, Same
    <3>5. QED
      BY <3>4
  <2>3. CASE steps[j].status # "skipped"
    BY <2>1, <2>3 DEF Calm, SkipExplained
  <2>4. QED
    BY <2>2, <2>3
<1>10. QED
  BY <1>3, <1>5, <1>8, <1>9 DEF DecisionInv

(* Sending everything from step t on back keeps every decision in front of   *)
(* it: a gate has all producers of its artifact before it.                   *)
LEMMA CutKeeps ==
  ASSUME DecisionInv, slipped' = slipped, NEW t \in Step,
         \A j \in Step : j < t => steps'[j] = steps[j],
         \A j \in Step : ~(j < t) => steps'[j].status \notin {"complete", "in_progress", "skipped"}
  PROVE  DecisionInv'
<1>1. \A j \in Step : steps'[j].status \in {"complete", "in_progress", "skipped"}
                      => j < t /\ steps'[j] = steps[j]
  OBVIOUS
<1>2. ApprovalGiven'
  BY <1>1 DEF DecisionInv, ApprovalGiven, IsGate
<1>3. InputsHaveSources'
  BY <1>1 DEF DecisionInv, InputsHaveSources, Active, IsWork, IsGate
<1>4. ApprovalCoversConsumers'
  <2> SUFFICES ASSUME NEW g \in Step, NEW j \in Step, Covered(steps', slipped', g, j)
               PROVE  steps'[j].inputs[Plan[g].artifact] \in {Nil, steps'[g].approval}
    BY DEF ApprovalCoversConsumers, Covered, Active, IsWork, IsGate, Producers
  <2>1. g < t /\ steps'[g] = steps[g] /\ steps'[j] = steps[j]
    BY <1>1 DEF Covered, Active
  <2>2. \A p \in Producers(steps, Plan[g].artifact) : p < t
    <3>1. \A p \in Producers(steps, Plan[g].artifact) : p \in Step /\ p < g
      BY PlanAssumption DEF Producers, Covered
    <3>2. \A x, y, z \in Step : x < y /\ y < z => x < z
      BY PlanFacts
    <3>3. QED
      BY <2>1, <3>1, <3>2
  <2>3. Producers(steps, Plan[g].artifact) \subseteq Producers(steps', Plan[g].artifact)
    BY <2>2 DEF Producers
  <2>4. Covered(steps, slipped, g, j)
    BY <2>1, <2>3 DEF Covered, Active
  <2>5. QED
    BY <2>1, <2>4 DEF DecisionInv, ApprovalCoversConsumers, Covered, Active
<1>5. SkippedBehindReview'
  <2> SUFFICES ASSUME NEW j \in Step, IsAgent(j), Plan[j].cycle > 0, steps'[j].status = "skipped"
               PROVE  \E r \in Step : EndsCycle(steps', r, j)
    BY DEF SkippedBehindReview, EndsCycle, IsAgent, IsReview
  <2>1. j < t /\ steps[j].status = "skipped"
    BY <1>1
  <2>2. PICK r \in Step : EndsCycle(steps, r, j)
    BY <2>1 DEF DecisionInv, SkippedBehindReview, EndsCycle
  <2>3. r < t
    BY <2>1, <2>2, PlanFacts DEF EndsCycle
  <2>4. QED
    BY <2>2, <2>3 DEF EndsCycle
<1>6. QED
  BY <1>2, <1>3, <1>4, <1>5 DEF DecisionInv

-----------------------------------------------------------------------------
(* A table that is as it was is calm. *)
LEMMA StillCalm ==
  ASSUME NEW j \in Step, steps'[j] = steps[j]
  PROVE  Calm(j)
BY DEF Calm, Same, SkipExplained

(* A step that changes no entry keeps every decision. *)
LEMMA StillKeeps ==
  ASSUME DecisionInv, UNCHANGED steps, slipped \subseteq slipped'
  PROVE  DecisionInv'
<1>1. \A j \in Step : Calm(j)
  BY StillCalm
<1>2. 0 \notin Step
  BY DEF Step
<1>3. \A j \in Step : Active(steps', j) /\ j \notin slipped' => j \notin slipped
  OBVIOUS
<1>4. QED
  BY <1>1, <1>2, <1>3, CalmKeeps

(* What next passes over is calm: a step of a cycle has no condition.        *)
LEMMA PassedCalm ==
  ASSUME RunInv, NEW i, Reached(i), NEW j \in Step, steps'[j] = Passed(i)[j]
  PROVE  Calm(j)
<1>1. CASE ~(j < i /\ ~Done(steps, j))
  BY <1>1, PassedFacts, StillCalm
<1>2. CASE j < i /\ ~Done(steps, j)
  <2>1. Skippable(j)
    BY <1>2 DEF Reached
  <2>2. ~(Plan[j].cycle > 0)
    BY <2>1, PlanAssumption DEF Skippable
  <2>3. steps'[j].status = "skipped"
    <3>1. Passed(i)[j] = [steps[j] EXCEPT !.status = "skipped"]
      BY <1>2 DEF Passed
    <3>2. steps[j] \in StepState
      BY DEF RunInv, Good, Table
    <3>3. QED
      BY <3>1, <3>2, StatusType DEF Status
  <2>4. steps[j].status = "pending"
    BY <2>1 DEF Skippable
  <2>5. QED
    BY <2>2, <2>3, <2>4 DEF Calm, Rests, SkipExplained
<1>3. QED
  BY <1>1, <1>2

(* next: the end, a gate, a failed step, a step under way. *)
LEMMA NextDecides ==
  ASSUME RunInv, DecisionInv, NextBlocked \/ NextComplete
         \/ \E i \in Step : NextGate(i) \/ NextFailed(i) \/ NextInProgress(i)
  PROVE  DecisionInv'
<1>0. 0 \notin Step /\ slipped' = slipped
  <2>1. 0 \notin Step
    BY DEF Step
  <2>2. slipped' = slipped
    BY DEF NextBlocked, NextComplete, NextGate, NextFailed, NextInProgress
  <2>3. QED
    BY <2>1, <2>2
<1>1. CASE NextBlocked
  BY <1>0, <1>1, StillKeeps DEF NextBlocked
<1>2. CASE NextComplete
  <2>1. \A j \in Step : Calm(j)
    BY <1>2, PassedCalm DEF NextComplete
  <2>2. QED
    BY <1>0, <2>1, CalmKeeps
<1>3. ASSUME NEW i \in Step, NextFailed(i) \/ NextInProgress(i)
      PROVE  DecisionInv'
  <2>1. Reached(i) /\ steps' = Passed(i)
    BY <1>3 DEF NextFailed, NextInProgress
  <2>2. \A j \in Step : Calm(j)
    BY <2>1, PassedCalm
  <2>3. QED
    BY <1>0, <2>2, CalmKeeps
<1>4. ASSUME NEW i \in Step, NextGate(i)
      PROVE  DecisionInv'
  <2>1. /\ Reached(i) /\ steps[i].status # "complete" /\ ~IsAgent(i)
        /\ steps' = [Passed(i) EXCEPT ![i] = Reasked(@)]
    BY <1>4 DEF NextGate, Reached, Done, IsGate, IsAgent, Reasked
  <2> DEFINE q == Passed(i)
  <2>2. q \in Table
    BY <2>1, PassedFacts DEF Good
  <2> HIDE DEF q
  <2>3. steps' = [q EXCEPT ![i] = Reasked(q[i])] /\ Reasked(q[i]).status = "pending"
    <3>1. q[i] \in StepState
      BY <2>2 DEF Table
    <3>2. QED
      BY <2>1, <3>1, ReaskedType DEF q
  <2>4. steps'[i].status = "pending" /\ \A j \in Step : j # i => steps'[j] = q[j]
    BY <2>2, <2>3 DEF Table
  <2>5. \A j \in Step : j # i => Calm(j)
    BY <2>1, <2>4, PassedCalm DEF q
  <2>6. Calm(i)
    BY <2>1, <2>4 DEF Calm, Rests, SkipExplained
  <2>7. \A j \in Step : Calm(j)
    BY <2>5, <2>6
  <2>8. QED
    BY <1>0, <2>7, CalmKeeps
<1>5. QED
  BY <1>1, <1>2, <1>3, <1>4

(* What a step is handed is there because an earlier step completed it.      *)
LEMMA InputSources ==
  ASSUME NEW i \in Step, NEW a \in InputArtifacts(i)
  PROVE  \E p \in Step : p < i /\ IsWork(p) /\ Plan[p].artifact = a
BY DEF InputArtifacts, Producers

(* next opens a step. *)
LEMMA OpenDecides ==
  ASSUME RunInv, DecisionInv, NEW i \in Step, NextOpens(i)
  PROVE  DecisionInv'
<1> DEFINE q == Passed(i)
           r == Reopened(steps[i])
<1>1. /\ Reached(i) /\ IsWork(i) /\ steps[i].status \in {"pending", "stale"}
      /\ steps' = [q EXCEPT ![i] = r] /\ slipped' = slipped \ {i}
  BY DEF NextOpens
<1>2. q \in Table
  BY <1>1, PassedFacts DEF Good
<1>3. r \in StepState /\ r.status = "pending"
  BY <1>1, ReopenedType DEF RunInv, Good, Table
<1> HIDE DEF q, r
<1>4. steps'[i] = r /\ \A j \in Step : j # i => steps'[j] = q[j]
  BY <1>1, <1>2 DEF Table
<1>5. \A j \in Step : Calm(j)
  <2>1. Calm(i)
    BY <1>1, <1>3, <1>4 DEF Calm, Rests, SkipExplained
  <2>2. \A j \in Step : j # i => Calm(j)
    BY <1>1, <1>4, PassedCalm DEF q
  <2>3. QED
    BY <2>1, <2>2
<1>6. \A j \in Step : Active(steps', j) /\ j \notin slipped' => j \notin slipped
  BY <1>1, <1>3, <1>4 DEF Active
<1>7. 0 \notin Step
  BY DEF Step
<1>8. QED
  BY <1>5, <1>6, <1>7, CalmKeeps

(* next starts work: unless a file was edited since next checked the         *)
(* approvals, it is handed the approved content of every artifact that has   *)
(* an approved gate.                                                         *)
LEMMA StartDecides ==
  ASSUME RunInv, DecisionInv, Checked, NEW i \in Step, NextStarts(i)
  PROVE  DecisionInv'
<1> DEFINE f == initializeIfAbsent(i)
           h == inputArtifactHashes(i, f)
           started == [steps[i] EXCEPT !.status = "in_progress", !.inputs = h]
<1>1. /\ Opened(i) /\ slipped' = slipped
      /\ UNCHANGED steps \/ steps' = [steps EXCEPT ![i] = started]
  BY DEF NextStarts
<1>2. IsWork(i) /\ call = "start" /\ steps[i].status = "pending"
  BY <1>1, OpenedFacts
<1>3. CASE UNCHANGED steps
  BY <1>1, <1>3, StillKeeps
<1>4. CASE steps' = [steps EXCEPT ![i] = started]
  <2>1. \A a \in Artifact : a # Plan[i].artifact => f[a] = files[a]
    BY DEF initializeIfAbsent, RunInv, Typed
  <2>2. \A a \in Artifact : h[a] = IF a \in InputArtifacts(i) THEN f[a] ELSE Nil
    BY DEF inputArtifactHashes
  <2> HIDE DEF f, h
  <2>3. started.status = "in_progress" /\ started.inputs = h
    BY DEF RunInv, Good, Table, StepState
  <2> HIDE DEF started
  <2>4. steps'[i] = started /\ \A j \in Step : j # i => steps'[j] = steps[j]
    BY <1>4 DEF RunInv, Good, Table
  <2>5. \A a \in Artifact : h[a] # Nil => \E p \in Step : p < i /\ IsWork(p) /\ Plan[p].artifact = a
    BY <2>2, InputSources
  <2>6. ASSUME NEW g \in Step, IsGate(g), steps[g].status = "complete",
               Plan[i].artifact # Plan[g].artifact, i \notin slipped
        PROVE  h[Plan[g].artifact] \in {Nil, steps[g].approval}
    <3>1. ~Broken(g) /\ steps[g].approval # Nil
      BY <1>1, <1>2, <2>6 DEF Checked, PreflightPasses, DecisionInv, ApprovalGiven
    <3>2. files[Plan[g].artifact] = steps[g].approval
      BY <2>6, <3>1 DEF Broken
    <3>3. QED
      BY <2>1, <2>2, <2>6, <3>2, PlanArtifact
  <2>7. Fits(i)
    BY <1>1, <1>2, <2>3, <2>4, <2>5, <2>6 DEF Fits
  <2>8. \A j \in Step : j # i => Calm(j)
    BY <2>4, StillCalm
  <2>9. QED
    BY <1>1, <2>7, <2>8, CalmKeeps
<1>5. QED
  BY <1>1, <1>3, <1>4

-----------------------------------------------------------------------------
(* A completion: the step keeps the inputs it was given when it started, and *)
(* a review skips the rest of its cycle only without changes requested.      *)
LEMMA CompletesDecides ==
  ASSUME RunInv, DecisionInv, NEW i \in Step, steps[i].status = "in_progress",
         NEW f \in [Artifact -> Content \cup {Nil}], NEW b, Completes(i, f, b)
  PROVE  DecisionInv'
<1> DEFINE c == f[Plan[i].artifact]
           v == readVerdict(i, c)
           e == Exhausted(i, v)
           K == SkippedBy(i, v)
           done == Completed(steps[i], c, v, e)
<1>1. /\ c # Nil
      /\ IsPolicy(i) \/ IsReview(i) => c \in Review
      /\ steps' = [j \in Step |-> IF j = i THEN done
                                  ELSE IF j \in K THEN [steps[j] EXCEPT !.status = "skipped"]
                                  ELSE steps[j]]
  BY DEF Completes, Completed
<1>0. slipped' = slipped
  BY DEF Completes
<1>2. c \in Content
  BY <1>1, PlanArtifact
<1>3. v \in Verdict \cup {Nil}
  BY <1>1, PlanAssumption DEF readVerdict
<1>4. e \in BOOLEAN
  BY DEF Exhausted
<1>5. \A k \in Step : k \in K =>
        /\ steps[k].status = "pending" /\ k > i
        /\ IsReview(i) /\ v # "CHANGES_REQUESTED" /\ Plan[k].cycle = Plan[i].cycle
  BY DEF SkippedBy, LaterCycleSteps
<1> HIDE DEF c, v, e, K
<1>6. steps[i] \in StepState /\ \A j \in Step : steps[j] \in StepState
  BY DEF RunInv, Good, Table
<1>7. done.status = "complete" /\ done.verdict = v /\ done.inputs = steps[i].inputs
  BY <1>6 DEF StepState, Completed
<1> HIDE DEF done
<1>8. steps'[i] = done /\ \A j \in Step : j # i =>
        steps'[j] = IF j \in K THEN [steps[j] EXCEPT !.status = "skipped"] ELSE steps[j]
  BY <1>1
<1>9. ASSUME NEW j \in Step, j # i PROVE Calm(j)
  <2>1. CASE j \in K
    <3>1. steps'[j].status = "skipped"
      <4>1. steps'[j] = [steps[j] EXCEPT !.status = "skipped"]
        BY <1>8, <1>9, <2>1
      <4>2. steps[j] \in StepState /\ "skipped" \in Status
        BY <1>6 DEF Status
      <4>3. QED
        BY <4>1, <4>2, StatusType
    <3>2. EndsCycle(steps', i, j)
      BY <1>5, <1>7, <1>8, <2>1, PlanFacts DEF EndsCycle
    <3>3. QED
      BY <1>5, <2>1, <3>1, <3>2 DEF Calm, Rests, SkipExplained
  <2>2. CASE j \notin K
    BY <1>8, <1>9, <2>2, StillCalm
  <2>3. QED
    BY <2>1, <2>2
<1>10. Fits(i)
  <2>1. IsWork(i) /\ Active(steps, i)
    BY UnderWayFacts DEF RunInv, Active, Done
  <2>2. \A g \in Step :
         /\ IsGate(g) /\ steps[g].status = "complete"
         /\ Plan[i].artifact # Plan[g].artifact
         /\ \A p \in Producers(steps, Plan[g].artifact) : p <= i
         /\ i \notin slipped
         => steps[i].inputs[Plan[g].artifact] \in {Nil, steps[g].approval}
    BY <2>1 DEF DecisionInv, ApprovalCoversConsumers, Active
  <2>3. QED
    BY <1>0, <1>7, <1>8, <2>1, <2>2 DEF Fits, DecisionInv, InputsHaveSources
<1>11. QED
  BY <1>0, <1>9, <1>10, CalmKeeps

(* A completion that fails takes nothing back. *)
LEMMA FailsDecides ==
  ASSUME RunInv, DecisionInv, NEW i \in Step, steps[i].status = "in_progress", NEW f, Fails(i, f)
  PROVE  DecisionInv'
<1> DEFINE r == [steps[i] EXCEPT !.status = "failed"]
<1>1. steps' = [steps EXCEPT ![i] = r] /\ slipped' = slipped
  BY DEF Fails
<1>2. r.status = "failed"
  BY StatusType DEF RunInv, Good, Table, Status
<1> HIDE DEF r
<1>3. steps'[i].status = "failed" /\ \A j \in Step : j # i => steps'[j] = steps[j]
  BY <1>1, <1>2 DEF RunInv, Good, Table
<1>4. Calm(i)
  BY <1>3 DEF Calm, Rests, SkipExplained
<1>5. \A j \in Step : Calm(j)
  BY <1>3, <1>4, StillCalm
<1>6. 0 \notin Step
  BY DEF Step
<1>7. QED
  BY <1>1, <1>5, <1>6, CalmKeeps

(* advance and the author: everything that ends in a completion. *)
LEMMA WorkDecides ==
  ASSUME RunInv, DecisionInv,
         AdvanceReuses \/ AdvanceExecutes \/ AgentReturns \/ AgentFails
         \/ AdvanceStarts \/ AdvanceStops
         \/ \E i \in Step : AuthorWrites(i) \/ CompleteCommand(i) \/ SubmitHostOutput(i)
  PROVE  DecisionInv'
<1>0. \A i \in Step : Written(i) \subseteq Content
  BY WrittenType
<1>1. CASE AdvanceReuses \/ AgentFails
  <2>1. current \in Step /\ steps[current].status = "in_progress"
    BY <1>1 DEF AdvanceReuses, AgentFails, RunInv, HandedOver
  <2>2. PICK b \in {"next", "none"} : Completes(current, files, b) \/ Fails(current, files)
    BY <1>1 DEF AdvanceReuses, AgentFails
  <2>3. files \in [Artifact -> Content \cup {Nil}]
    BY DEF RunInv, Typed
  <2>4. QED
    BY <2>1, <2>2, <2>3, CompletesDecides, FailsDecides
<1>2. CASE AgentReturns
  <2>1. current \in Step /\ steps[current].status = "in_progress"
    BY <1>2 DEF AgentReturns, RunInv, HandedOver
  <2>2. PICK c \in Written(current) :
           \/ \E b \in {"none", "next"} : Completes(current, Publish(current, c), b)
           \/ Fails(current, Publish(current, c))
    BY <1>2 DEF AgentReturns
  <2>3. Publish(current, c) \in [Artifact -> Content \cup {Nil}]
    BY <1>0, <2>1, PublishType
  <2>4. QED
    BY <2>1, <2>2, <2>3, CompletesDecides, FailsDecides
<1>3. CASE AdvanceExecutes \/ AdvanceStarts \/ AdvanceStops
  BY <1>3, StillKeeps DEF AdvanceExecutes, AdvanceStarts, AdvanceStops
<1>4. ASSUME NEW i \in Step, AuthorWrites(i)
      PROVE  DecisionInv'
  BY <1>4, StillKeeps DEF AuthorWrites
<1>5. ASSUME NEW i \in Step, CompleteCommand(i)
      PROVE  DecisionInv'
  <2>1. steps[i].status = "in_progress" /\ (Completes(i, files, "none") \/ Fails(i, files))
    BY <1>5 DEF CompleteCommand, Awaited
  <2>2. files \in [Artifact -> Content \cup {Nil}]
    BY DEF RunInv, Typed
  <2>3. QED
    BY <2>1, <2>2, CompletesDecides, FailsDecides
<1>6. ASSUME NEW i \in Step, SubmitHostOutput(i)
      PROVE  DecisionInv'
  <2>1. steps[i].status = "in_progress"
    BY <1>6 DEF SubmitHostOutput, Awaited
  <2>2. CASE Fails(i, Publish(i, Nil))
    BY <2>1, <2>2, FailsDecides
  <2>3. ASSUME NEW c \in Written(i), Completes(i, Publish(i, c), "none")
        PROVE  DecisionInv'
    <3>1. Publish(i, c) \in [Artifact -> Content \cup {Nil}]
      BY <1>0, PublishType
    <3>2. QED
      BY <2>1, <2>3, <3>1, CompletesDecides
  <2>4. QED
    BY <1>6, <2>2, <2>3 DEF SubmitHostOutput
<1>7. QED
  BY <1>1, <1>2, <1>3, <1>4, <1>5, <1>6

-----------------------------------------------------------------------------
(* invalidateFrom leaves nothing complete, under way or skipped from its     *)
(* source on.                                                                *)
LEMMA InvalidateClears ==
  ASSUME NEW source \in Step, NEW keep, NEW i \in Step, ~(i < source), i # keep, steps \in Table
  PROVE  invalidateFrom(steps, source, keep)[i].status \notin {"complete", "in_progress", "skipped"}
<1>1. steps[i] \in StepState
  BY DEF Table
<1>2. Outdate(steps[i]).status = "stale" /\ Reset(steps[i]).status = "pending"
  BY <1>1, OutdateType, ResetType
<1>3. QED
  BY <1>2 DEF invalidateFrom

(* The preflight and a refused approval send back everything from a step on. *)
LEMMA WithdrawnDecides ==
  ASSUME RunInv, DecisionInv, PreflightRefuses \/ \E g \in Step : ApproveRefused(g)
  PROVE  DecisionInv'
<1>0. steps \in Table /\ \A i \in Step : i # 0
  BY DEF RunInv, Good, Step
<1>s. slipped' = slipped
  BY DEF PreflightRefuses, ApproveRefused
<1>1. ASSUME NEW g \in Step, ApproveRefused(g) PROVE DecisionInv'
  <2> DEFINE out == consumersWithOutdatedInput(Plan[g].artifact)
             t == FirstOf(out)
  <2>1. out # {} /\ steps' = invalidateFrom(steps, t, 0)
    BY <1>1 DEF ApproveRefused
  <2>2. t \in Step
    <3>1. out \subseteq 1 .. Len(Plan)
      BY DEF consumersWithOutdatedInput, Step
    <3> HIDE DEF out
    <3>2. t \in out
      BY <2>1, <3>1, FirstExists, PlanFacts
    <3>3. QED
      BY <3>1, <3>2 DEF Step
  <2> HIDE DEF out, t
  <2>3. \A j \in Step : j < t => steps'[j] = steps[j]
    BY <1>0, <2>1, <2>2, InvalidateFacts
  <2>4. \A j \in Step : ~(j < t) => steps'[j].status \notin {"complete", "in_progress", "skipped"}
    BY <1>0, <2>1, <2>2, InvalidateClears
  <2>5. QED
    BY <1>s, <2>2, <2>3, <2>4, CutKeeps
<1>2. CASE PreflightRefuses
  <2>1. PICK g \in Step :
          /\ Broken(g)
          /\ steps' = IF Producers(steps, Plan[g].artifact) = {} THEN steps
                      ELSE [invalidateFrom(steps, producerForArtifact(steps, Plan[g].artifact), 0)
                              EXCEPT ![g] = Outdate(@)]
    BY <1>2 DEF PreflightRefuses
  <2>2. CASE Producers(steps, Plan[g].artifact) = {}
    BY <1>s, <2>1, <2>2, StillKeeps
  <2>3. CASE Producers(steps, Plan[g].artifact) # {}
    <3> DEFINE p == producerForArtifact(steps, Plan[g].artifact)
               inv == invalidateFrom(steps, p, 0)
    <3>1. p \in Step /\ IsWork(p) /\ Plan[p].artifact = Plan[g].artifact
      BY <2>3, ProducerFacts
    <3>2. p < g
      BY <2>1, <3>1, PlanAssumption DEF Broken
    <3> HIDE DEF p
    <3>3. /\ inv \in Table
          /\ \A j \in Step : j < p => inv[j] = steps[j]
          /\ \A j \in Step : ~(j < p) => inv[j].status \notin {"complete", "in_progress", "skipped"}
      BY <1>0, <3>1, InvalidateFacts, InvalidateClears
    <3>4. steps' = [inv EXCEPT ![g] = Outdate(inv[g])]
      BY <2>1, <2>3 DEF inv, p
    <3> HIDE DEF inv
    <3>5. /\ steps'[g].status = "stale"
          /\ \A j \in Step : j # g => steps'[j] = inv[j]
      BY <3>3, <3>4, OutdateType DEF Table
    <3>6. \A j \in Step : j < p => j # g
      BY <3>1, <3>2, PlanFacts
    <3>7. \A j \in Step : j < p => steps'[j] = steps[j]
      BY <3>3, <3>5, <3>6
    <3>8. \A j \in Step : ~(j < p) => steps'[j].status \notin {"complete", "in_progress", "skipped"}
      BY <3>3, <3>5
    <3>9. QED
      BY <1>s, <3>1, <3>7, <3>8, CutKeeps
  <2>4. QED
    BY <2>2, <2>3
<1>3. QED
  BY <1>1, <1>2

(* request-changes: the producer is pending, everything behind it goes back. *)
LEMMA RequestChangesDecides ==
  ASSUME RunInv, DecisionInv, NEW g \in Step, RequestChanges(g)
  PROVE  DecisionInv'
<1> DEFINE p == producerForArtifact(steps, Plan[g].artifact)
           inv == invalidateFrom(steps, p, p)
<1>1. /\ IsGate(g) /\ Producers(steps, Plan[g].artifact) # {}
      /\ steps' = [inv EXCEPT ![p] = Reset(@), ![g] = Reasked(@)]
      /\ slipped' = slipped
  BY DEF RequestChanges, Reasked
<1>2. p \in Step /\ IsWork(p) /\ Plan[p].artifact = Plan[g].artifact
  BY <1>1, ProducerFacts
<1>3. p < g
  BY <1>1, <1>2, PlanAssumption
<1>4. p # g
  BY <1>1, <1>2 DEF IsWork
<1> HIDE DEF p
<1>5. /\ inv \in Table
      /\ \A j \in Step : j < p => inv[j] = steps[j]
      /\ \A j \in Step : ~(j < p) /\ j # p => inv[j].status \notin {"complete", "in_progress", "skipped"}
  BY <1>2, InvalidateFacts, InvalidateClears DEF RunInv, Good
<1> HIDE DEF inv
<1>6. /\ steps'[p] = Reset(inv[p]) /\ steps'[g] = Reasked(inv[g])
      /\ \A j \in Step : j \notin {p, g} => steps'[j] = inv[j]
  BY <1>1, <1>2, <1>4, <1>5 DEF Table
<1>7. steps'[p].status = "pending" /\ steps'[g].status = "pending"
  BY <1>2, <1>5, <1>6, ResetType, ReaskedType DEF Table
<1>8. \A j \in Step : j < p => j \notin {p, g}
  BY <1>2, <1>3, PlanFacts
<1>9. \A j \in Step : j < p => steps'[j] = steps[j]
  BY <1>5, <1>6, <1>8
<1>10. \A j \in Step : ~(j < p) => steps'[j].status \notin {"complete", "in_progress", "skipped"}
  BY <1>5, <1>6, <1>7
<1>11. QED
  BY <1>1, <1>2, <1>9, <1>10, CutKeeps

(* The retry of a policy step: its target is pending, all behind it goes     *)
(* back.                                                                     *)
LEMMA VerdictRetryDecides ==
  ASSUME RunInv, DecisionInv, ApplyVerdictRetry
  PROVE  DecisionInv'
<1> DEFINE t == Plan[current].retryFrom
           inv == invalidateFrom(steps, t, 0)
           q == ReopenedFrom(t)
           counted == [q[current] EXCEPT !.retries = @ + 1]
<1>1. call = "retry" /\ steps' = [q EXCEPT ![current] = counted] /\ slipped' = slipped
  BY DEF ApplyVerdictRetry, Applies
<1>2. /\ current \in Step /\ IsPolicy(current)
      /\ steps[current].retries < Plan[current].budget
  BY <1>1 DEF RunInv, RetryPending
<1>3. steps[current].retries \in Nat /\ Plan[current].budget \in Nat /\ current \in Nat
  BY <1>2, PlanFacts DEF RunInv, Good, Table, StepState
<1>4. t \in Step /\ t < current
  <2>1. t \in 1 .. current - 1
    BY <1>2, <1>3, PlanAssumption
  <2>2. QED
    BY <1>2, <1>3, <2>1, PlanFacts DEF Step
<1> HIDE DEF t
<1>5. steps \in Table /\ \A i \in Step : i # 0
  BY DEF RunInv, Good, Step
<1>6. /\ inv \in Table
      /\ \A j \in Step : j < t => inv[j] = steps[j]
      /\ \A j \in Step : ~(j < t) => inv[j].status \notin {"complete", "in_progress", "skipped"}
  BY <1>4, <1>5, InvalidateFacts, InvalidateClears
<1>7. \A j \in Step : j < t => ~(inv[j].status = "stale" /\ steps[j].status # "stale") /\ j # t
  BY <1>4, <1>6, PlanFacts
<1>8. q = [j \in Step |->
             IF j \in {k \in Step : IsAgent(k) /\ inv[k].status = "stale" /\ steps[k].status # "stale"}
                      \cup {t}
             THEN Reset(inv[j]) ELSE inv[j]]
  BY DEF ReopenedFrom
<1> HIDE DEF inv, q
<1>9. \A j \in Step : Reset(inv[j]) \in StepState /\ Reset(inv[j]).status = "pending"
  BY <1>6, ResetType DEF Table
<1>10. \A j \in Step : q[j] \in {inv[j], Reset(inv[j])}
  BY <1>8
<1>11. /\ q \in Table
       /\ \A j \in Step : j < t => q[j] = steps[j]
       /\ \A j \in Step : ~(j < t) => q[j].status \notin {"complete", "in_progress", "skipped"}
  <2>1. q \in Table
    BY <1>6, <1>8, <1>9 DEF Table
  <2>2. \A j \in Step : j < t => q[j] = steps[j]
    BY <1>6, <1>7, <1>8
  <2>3. \A j \in Step : ~(j < t) => q[j].status \notin {"complete", "in_progress", "skipped"}
    BY <1>6, <1>9, <1>10
  <2>4. QED
    BY <2>1, <2>2, <2>3
<1>12. counted.status = q[current].status
  BY <1>2, <1>11 DEF Table, StepState
<1> HIDE DEF counted
<1>13. steps'[current] = counted /\ \A j \in Step : j # current => steps'[j] = q[j]
  BY <1>1, <1>2, <1>11 DEF Table
<1>14. \A j \in Step : j < t => steps'[j] = steps[j]
  <2>1. \A j \in Step : j < t => j # current
    BY <1>3, <1>4, PlanFacts
  <2>2. QED
    BY <1>11, <1>13, <2>1
<1>15. \A j \in Step : ~(j < t) => steps'[j].status \notin {"complete", "in_progress", "skipped"}
  BY <1>11, <1>12, <1>13
<1>16. QED
  BY <1>1, <1>4, <1>14, <1>15, CutKeeps

-----------------------------------------------------------------------------
(* approve: nothing is under way in front of the gate or behind it, and the  *)
(* completed consumers were just checked.                                    *)
LEMMA ApproveDecides ==
  ASSUME RunInv, DecisionInv, NEW g \in Step, Approve(g)
  PROVE  DecisionInv'
<1> DEFINE a == Plan[g].artifact
           c == files[a]
           p == producerForArtifact(steps, a)
           s1 == [steps EXCEPT ![p] = [@ EXCEPT !.output = c]]
<1>1. /\ IsGate(g) /\ steps[g].status = "pending" /\ DoneBefore(steps, g)
      /\ Producers(steps, a) # {} /\ c # Nil
      /\ consumersWithOutdatedInput(a) = {}
      /\ slipped' = slipped
  BY DEF Approve, Approvable
<1>2. p \in Step /\ p # g /\ steps[p].status = "complete"
  BY <1>1, ProducerFacts DEF IsWork
<1>3. p \in Producers(steps, a)
  <2>1. Producers(steps, a) \subseteq 1 .. Len(Plan)
    BY DEF Producers, Step
  <2>2. QED
    BY <1>1, <2>1, LastExists, PlanFacts DEF producerForArtifact
<1>4. c \in Content
  BY <1>1, PlanArtifact DEF RunInv, Typed
<1> HIDE DEF p, c
<1>5. steps' = [s1 EXCEPT ![g] = Approved(s1[g], c)]
  <2>1. steps' = [steps EXCEPT ![p].output = c, ![g].status = "complete", ![g].approval = c]
    BY DEF Approve, p, c
  <2>2. s1[g] = steps[g]
    BY <1>2 DEF RunInv, Good, Table
  <2>3. QED
    BY <1>2, <2>1, <2>2 DEF Approved, RunInv, Good, Table
<1>6. \A j \in Step : steps[j] \in StepState
  BY DEF RunInv, Good, Table
<1> DEFINE w == [steps[p] EXCEPT !.output = c]
<1>7. /\ w.status = steps[p].status /\ w.inputs = steps[p].inputs /\ w.verdict = steps[p].verdict
      /\ w.approval = steps[p].approval /\ w.output = c
  BY <1>2, <1>6 DEF StepState
<1> HIDE DEF w
<1>8. s1[p] = w /\ \A j \in Step : j # p => s1[j] = steps[j]
  BY <1>2 DEF w, RunInv, Good, Table
<1>9. s1 \in [Step -> {s1[j] : j \in Step}]
  BY DEF RunInv, Good, Table
<1> HIDE DEF s1
<1>10. /\ steps'[g] = Approved(steps[g], c)
       /\ \A j \in Step : j # g => steps'[j] = s1[j]
  BY <1>2, <1>5, <1>8, <1>9
<1>11. Approved(steps[g], c).status = "complete" /\ Approved(steps[g], c).approval = c
  BY <1>6 DEF Approved, StepState
<1>12. \A j \in Step : j # g => Same(j)
  <2>1. steps[p].output # Nil /\ c # Nil
    BY <1>1, <1>3 DEF Producers, c
  <2>2. Same(p)
    BY <1>2, <1>7, <1>8, <1>10, <2>1 DEF Same
  <2>3. \A j \in Step : j # g /\ j # p => Same(j)
    BY <1>8, <1>10 DEF Same
  <2>4. QED
    BY <2>2, <2>3
<1>13. \A x : Producers(steps', x) = Producers(steps, x)
  <2>1. ~IsWork(g)
    BY <1>1 DEF IsWork
  <2>2. QED
    BY <1>12, <2>1 DEF Producers, Same
<1>14. \A j \in Step : Active(steps', j) => j # g /\ Active(steps, j) /\ steps'[j].inputs = steps[j].inputs
  BY <1>1, <1>12 DEF Active, IsWork, Same
<1>15. ApprovalGiven'
  <2>1. steps'[g].approval # Nil
    BY <1>1, <1>10, <1>11 DEF c
  <2>2. QED
    BY <1>12, <2>1 DEF DecisionInv, ApprovalGiven, Same, IsGate
<1>16. InputsHaveSources'
  <2> SUFFICES ASSUME NEW j \in Step, NEW x \in Artifact,
                      Active(steps', j), steps'[j].inputs[x] # Nil
               PROVE  \E k \in Step : k < j /\ IsWork(k) /\ Plan[k].artifact = x
    BY DEF InputsHaveSources, Active, IsWork, IsGate
  <2>1. QED
    BY <1>14 DEF DecisionInv, InputsHaveSources
<1>17. ApprovalCoversConsumers'
  <2> SUFFICES ASSUME NEW h \in Step, NEW j \in Step, Covered(steps', slipped', h, j)
               PROVE  steps'[j].inputs[Plan[h].artifact] \in {Nil, steps'[h].approval}
    BY DEF ApprovalCoversConsumers, Covered, Active, IsWork, IsGate, Producers
  <2>1. j # g /\ Active(steps, j) /\ steps'[j].inputs = steps[j].inputs
    BY <1>14 DEF Covered
  <2>2. CASE h = g
    <3>1. steps[j].status # "in_progress"
      <4>1. CASE j < g
        BY <1>1, <4>1 DEF DoneBefore, Done
      <4>2. CASE g < j
        BY <1>1, <2>1, <4>2 DEF RunInv, Good, Ordered, Done
      <4>3. QED
        BY <2>1, <4>1, <4>2, PlanFacts
    <3>2. j \notin consumersWithOutdatedInput(a)
      BY <1>1
    <3>3. steps[j].inputs[a] \in {Nil, files[a]}
      BY <1>13, <2>1, <2>2, <3>1, <3>2 DEF consumersWithOutdatedInput, Covered, Active
    <3>4. QED
      BY <1>10, <1>11, <2>1, <2>2, <3>3 DEF c
  <2>3. CASE h # g
    <3>1. Same(h)
      BY <1>12, <2>3
    <3>2. Covered(steps, slipped, h, j)
      BY <1>1, <1>13, <2>1, <3>1 DEF Covered, Same
    <3>3. QED
      BY <2>1, <3>1, <3>2 DEF DecisionInv, ApprovalCoversConsumers, Covered, Active, Same
  <2>4. QED
    BY <2>2, <2>3
<1>18. SkippedBehindReview'
  <2> SUFFICES ASSUME NEW j \in Step, IsAgent(j), Plan[j].cycle > 0, steps'[j].status = "skipped"
               PROVE  \E r \in Step : EndsCycle(steps', r, j)
    BY DEF SkippedBehindReview, EndsCycle, IsAgent, IsReview
  <2>1. steps[j].status = "skipped"
    BY <1>10, <1>11, <1>12 DEF Same
  <2>2. PICK r \in Step : EndsCycle(steps, r, j)
    BY <2>1 DEF DecisionInv, SkippedBehindReview, EndsCycle
  <2>3. r # g
    BY <1>1, <2>2 DEF EndsCycle
  <2>4. EndsCycle(steps', r, j)
    BY <1>12, <2>2, <2>3 DEF EndsCycle, Same
  <2>5. QED
    BY <2>4
<1>19. QED
  BY <1>15, <1>16, <1>17, <1>18 DEF DecisionInv

(* retry of a halted verdict withdraws no approval: nothing behind the step  *)
(* is active, and nothing in front of it can have read what only it writes.  *)
LEMMA RetryDecides ==
  ASSUME RunInv, DecisionInv, NEW i \in Step, Retry(i)
  PROVE  DecisionInv'
<1>1. /\ IsWork(i) /\ (steps[i].status \in {"stale", "failed"} \/ isVerdictHalted(steps, i))
      /\ steps' = IF IsAgent(i) THEN [steps EXCEPT ![i] = Retried(steps[i])] ELSE steps
      /\ slipped' = slipped
  BY DEF Retry, Retried
<1>2. CASE ~IsAgent(i)
  BY <1>1, <1>2, StillKeeps
<1>3. CASE IsAgent(i)
  <2>1. steps'[i].status = "pending" /\ \A j \in Step : j # i => steps'[j] = steps[j]
    BY <1>1, <1>3, RetriedType DEF RunInv, Good, Table
  <2>2. CASE steps[i].status \in {"stale", "failed"}
    <3>1. Calm(i)
      BY <2>1, <2>2 DEF Calm, Rests, SkipExplained
    <3>2. \A j \in Step : Calm(j)
      BY <2>1, <3>1, StillCalm
    <3>3. 0 \notin Step
      BY DEF Step
    <3>4. QED
      BY <1>1, <3>2, <3>3, CalmKeeps
  <2>3. CASE isVerdictHalted(steps, i)
    <3>1. IsPolicy(i) /\ IsWork(i) /\ ~IsReview(i)
      BY <2>3 DEF isVerdictHalted, IsPolicy, IsReview, IsWork, IsGate, IsAgent
    <3>2. \A j \in Step : Active(steps', j) => j # i /\ Active(steps, j) /\ steps'[j] = steps[j]
      BY <2>1 DEF Active
    <3>3. ApprovalGiven'
      BY <2>1, <3>1 DEF DecisionInv, ApprovalGiven, IsGate, IsWork
    <3>4. InputsHaveSources'
      <4> SUFFICES ASSUME NEW j \in Step, NEW x \in Artifact,
                          Active(steps', j), steps'[j].inputs[x] # Nil
                   PROVE  \E k \in Step : k < j /\ IsWork(k) /\ Plan[k].artifact = x
        BY DEF InputsHaveSources, Active, IsWork, IsGate
      <4>1. QED
        BY <3>2 DEF DecisionInv, InputsHaveSources
    <3>5. ApprovalCoversConsumers'
      <4> SUFFICES ASSUME NEW g \in Step, NEW j \in Step, Covered(steps', slipped', g, j)
                   PROVE  steps'[j].inputs[Plan[g].artifact] \in {Nil, steps'[g].approval}
        BY DEF ApprovalCoversConsumers, Covered, Active, IsWork, IsGate, Producers
      <4>1. j # i /\ Active(steps, j) /\ steps'[j] = steps[j]
        BY <3>2 DEF Covered
      <4>2. g # i /\ steps'[g] = steps[g]
        BY <2>1, <3>1 DEF Covered, IsWork
      <4>3. CASE Plan[i].artifact = Plan[g].artifact
        <5>1. j < i
          BY <2>3, <4>1, PlanFacts DEF RunInv, Good, HaltHolds
        <5>2. \A k \in Step : IsWork(k) /\ Plan[k].artifact = Plan[g].artifact => k = i
          BY <3>1, <4>3, PlanAssumption
        <5>3. ~\E k \in Step : k < j /\ IsWork(k) /\ Plan[k].artifact = Plan[g].artifact
          BY <5>1, <5>2, PlanFacts
        <5>4. steps[j].inputs[Plan[g].artifact] = Nil
          BY <4>1, <5>3, PlanArtifact DEF DecisionInv, InputsHaveSources
        <5>5. QED
          BY <4>1, <5>4
      <4>4. CASE Plan[i].artifact # Plan[g].artifact
        <5>1. Producers(steps, Plan[g].artifact) \subseteq Producers(steps', Plan[g].artifact)
          BY <2>1, <4>4 DEF Producers
        <5>2. Covered(steps, slipped, g, j)
          BY <1>1, <4>1, <4>2, <5>1 DEF Covered
        <5>3. QED
          BY <4>1, <4>2, <5>2 DEF DecisionInv, ApprovalCoversConsumers, Covered, Active
      <4>5. QED
        BY <4>3, <4>4
    <3>6. SkippedBehindReview'
      <4> SUFFICES ASSUME NEW j \in Step, IsAgent(j), Plan[j].cycle > 0, steps'[j].status = "skipped"
                   PROVE  \E r \in Step : EndsCycle(steps', r, j)
        BY DEF SkippedBehindReview, EndsCycle, IsAgent, IsReview
      <4>1. steps[j].status = "skipped"
        BY <2>1
      <4>2. PICK r \in Step : EndsCycle(steps, r, j)
        BY <4>1 DEF DecisionInv, SkippedBehindReview, EndsCycle
      <4>3. EndsCycle(steps', r, j)
        BY <2>1, <3>1, <4>2 DEF EndsCycle
      <4>4. QED
        BY <4>3
    <3>7. QED
      BY <3>3, <3>4, <3>5, <3>6 DEF DecisionInv
  <2>4. QED
    BY <1>1, <2>2, <2>3
<1>4. QED
  BY <1>2, <1>3

(* acknowledge changes nothing a decision rests on. *)
LEMMA AcknowledgeDecides ==
  ASSUME RunInv, DecisionInv, NEW i \in Step, Acknowledge(i)
  PROVE  DecisionInv'
<1> DEFINE r == Acked(steps[i])
<1>1. steps' = [steps EXCEPT ![i] = r] /\ steps[i].status = "complete" /\ slipped' = slipped
  BY DEF Acknowledge, Acked, isVerdictHalted
<1>2. /\ r.status = steps[i].status /\ r.inputs = steps[i].inputs /\ r.verdict = steps[i].verdict
      /\ r.approval = steps[i].approval /\ r.output = steps[i].output
  BY DEF Acked, RunInv, Good, Table, StepState
<1> HIDE DEF r
<1>3. steps'[i] = r /\ \A j \in Step : j # i => steps'[j] = steps[j]
  BY <1>1 DEF RunInv, Good, Table
<1>4. Calm(i)
  BY <1>1, <1>2, <1>3 DEF Calm, Same, SkipExplained
<1>5. \A j \in Step : Calm(j)
  BY <1>3, <1>4, StillCalm
<1>6. 0 \notin Step
  BY DEF Step
<1>7. QED
  BY <1>1, <1>5, <1>6, CalmKeeps

-----------------------------------------------------------------------------
(* What next checked when it opened a step holds until it starts it. *)
LEMMA CheckedStep ==
  ASSUME RunInv, Checked, [Next]_vars
  PROVE  Checked'
<1>1. CASE call' # "start"
  BY <1>1 DEF Checked
<1>2. ASSUME NEW i \in Step, NextOpens(i)
      PROVE  Checked'
  <2> SUFFICES ASSUME NEW g \in Step, Broken(g)' PROVE FALSE
    BY DEF Checked, PreflightPasses
  <2> DEFINE q == Passed(i)
             r == Reopened(steps[i])
  <2>1. /\ Reached(i) /\ IsWork(i) /\ steps[i].status \in {"pending", "stale"}
        /\ steps' = [q EXCEPT ![i] = r] /\ UNCHANGED files
    BY <1>2 DEF NextOpens
  <2>2. /\ q \in Table /\ r.status = "pending"
        /\ \A j \in Step : q[j].status # "skipped" => q[j] = steps[j]
    BY <2>1, PassedFacts, ReopenedType DEF RunInv, Good, Table
  <2>3. \A j \in Step : ~(j < i /\ ~Done(steps, j)) => q[j] = steps[j]
    BY <2>1, PassedFacts
  <2> HIDE DEF q, r
  <2>4. steps'[i] = r /\ \A j \in Step : j # i => steps'[j] = q[j]
    BY <2>1, <2>2 DEF Table
  <2>5. \A j \in Step : steps'[j].status = "complete" => steps'[j] = steps[j]
    BY <2>2, <2>4
  <2>6. \A j \in Step : steps[j].status = "complete" => steps'[j] = steps[j]
    BY <2>1, <2>3, <2>4 DEF Done
  <2>7. Producers(steps, Plan[g].artifact) \subseteq Producers(steps', Plan[g].artifact)
    BY <2>6 DEF Producers
  <2>8. Broken(g)
    BY <2>1, <2>5, <2>7 DEF Broken, IsGate, Producers, IsWork
  <2>9. QED
    BY <2>1, <2>8 DEF Reached, PreflightPasses
<1>3. ASSUME NEW a \in Artifact, Edit(a)
      PROVE  Checked'
  <2>1. UNCHANGED <<steps, call>> /\ slipped' = slipped \cup {i \in Step : Opened(i)}
    BY <1>3 DEF Edit
  <2>2. \A i \in Step : Opened(i)' => i \in slipped'
    BY <2>1 DEF Opened, DoneBefore, Done
  <2>3. QED
    BY <2>2 DEF Checked
<1>4. CASE UNCHANGED vars
  <2>1. UNCHANGED <<steps, files, call, slipped>>
    BY <1>4 DEF vars
  <2>2. \A i \in Step : Opened(i)' => Opened(i)
    BY <2>1 DEF Opened, DoneBefore, Done
  <2>3. PreflightPasses => PreflightPasses'
    BY <2>1 DEF PreflightPasses, Broken, Producers, IsGate, IsWork
  <2>4. QED
    BY <2>1, <2>2, <2>3 DEF Checked
<1>5. call' = "start" => \/ \E i \in Step : NextOpens(i)
                         \/ \E a \in Artifact : Edit(a)
                         \/ UNCHANGED vars
  <2>1. CASE NextBlocked \/ NextComplete \/ PreflightRefuses \/ ApplyVerdictRetry \/ RetryLost
             \/ AdvanceReuses \/ AdvanceExecutes \/ AgentReturns \/ AgentFails
             \/ AdvanceStarts \/ AdvanceStops \/ Crash
    BY <2>1 DEF NextBlocked, NextComplete, PreflightRefuses, ApplyVerdictRetry, Applies, RetryLost,
            AdvanceReuses, AdvanceExecutes, AgentReturns, AgentFails, AdvanceStarts, AdvanceStops,
            Crash, Completes, Fails, RunInv, Typed
  <2>2. ASSUME NEW i \in Step, NextGate(i) \/ NextFailed(i) \/ NextInProgress(i) \/ NextStarts(i)
        PROVE  call' # "start"
    BY <2>2 DEF NextGate, NextFailed, NextInProgress, NextStarts, HandsOver
  <2>3. ASSUME NEW i \in Step, \/ AuthorWrites(i) \/ CompleteCommand(i) \/ SubmitHostOutput(i)
                               \/ Approve(i) \/ ApproveRefused(i) \/ RequestChanges(i)
                               \/ Retry(i) \/ Acknowledge(i)
        PROVE  call' # "start"
    BY <2>3 DEF AuthorWrites, CompleteCommand, SubmitHostOutput, Awaited, Completes, Fails, Approve,
            ApproveRefused, Approvable, RequestChanges, Retry, Acknowledge
  <2>4. QED
    BY <2>1, <2>2, <2>3 DEF Next, Machine, Human, NextStep
<1>6. QED
  BY <1>1, <1>2, <1>3, <1>4, <1>5

(* DecisionInv is inductive relative to RunInv. *)
LEMMA DecisionStep ==
  ASSUME RunInv, DecisionInv, Checked, [Next]_vars
  PROVE  DecisionInv'
<1>1. CASE NextStep
  BY <1>1, NextDecides, OpenDecides, StartDecides DEF NextStep
<1>2. CASE PreflightRefuses \/ ApplyVerdictRetry
  BY <1>2, WithdrawnDecides, VerdictRetryDecides
<1>3. CASE AdvanceReuses \/ AdvanceExecutes \/ AgentReturns \/ AgentFails
           \/ AdvanceStarts \/ AdvanceStops
  BY <1>3, WorkDecides
<1>4. ASSUME NEW i \in Step, AuthorWrites(i) \/ CompleteCommand(i) \/ SubmitHostOutput(i)
      PROVE  DecisionInv'
  BY <1>4, WorkDecides
<1>5. ASSUME NEW i \in Step, Approve(i) \/ ApproveRefused(i) \/ RequestChanges(i)
                             \/ Retry(i) \/ Acknowledge(i)
      PROVE  DecisionInv'
  BY <1>5, ApproveDecides, WithdrawnDecides, RequestChangesDecides, RetryDecides, AcknowledgeDecides
<1>6. CASE UNCHANGED steps /\ slipped \subseteq slipped'
  BY <1>6, StillKeeps
<1>7. CASE (\E a \in Artifact : Edit(a)) \/ RetryLost \/ Crash \/ UNCHANGED vars
  BY <1>6, <1>7 DEF Edit, RetryLost, Crash, vars
<1>8. QED
  BY <1>1, <1>2, <1>3, <1>4, <1>5, <1>7 DEF Next, Machine, Human

(* Nothing is decided about a run that was just created. *)
LEMMA DecisionInit ==
  ASSUME Init
  PROVE  DecisionInv /\ Checked
<1>1. \A i \in Step : steps[i].status = "pending"
  BY DEF Init, NewStep
<1>2. QED
  BY <1>1 DEF Init, Checked, DecisionInv, ApprovalGiven, InputsHaveSources, ApprovalCoversConsumers,
              SkippedBehindReview, Active

(* DecisionInv holds of every behaviour. *)
LEMMA DecisionInvariant == Spec => []DecisionInv
<1>1. RunInv /\ DecisionInv /\ Checked /\ [Next]_vars => DecisionInv' /\ Checked'
  BY DecisionStep, CheckedStep
<1>2. QED
  BY DecisionInit, <1>1, RunInvariant, PTL DEF Spec

(* Behind an approved gate, whatever read the approved artifact and is not   *)
(* superseded read the approved content: for every plan, with edits behind   *)
(* the run, retries and crashes (stale-invalidation.service.ts).             *)
THEOREM ApprovalsCover == Spec => []ApprovalCoversConsumers
<1>1. DecisionInv => ApprovalCoversConsumers
  BY DEF DecisionInv
<1>2. QED
  BY <1>1, DecisionInvariant, PTL

(* No step of a review cycle is left out once the review that ended the      *)
(* cycle is withdrawn, for any number of cycles and iterations               *)
(* (verdict-completion.policy.ts evaluateCycleReview, step-invalidation.ts). *)
THEOREM SkipsStandBehindReviews == Spec => []SkippedBehindReview
<1>1. DecisionInv => SkippedBehindReview
  BY DEF DecisionInv
<1>2. QED
  BY <1>1, DecisionInvariant, PTL
=============================================================================
