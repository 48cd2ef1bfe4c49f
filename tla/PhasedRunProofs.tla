-------------------------- MODULE PhasedRunProofs --------------------------
(***************************************************************************)
(* What holds of every run whose plan grows, for all plans, manifests and   *)
(* contents: types, the order of the work, the step the command in the lock *)
(* serves, what was announced to the host, and what approvals, amendments   *)
(* and manifests still mean later.  A step of the run does one of five things   *)
(* to its entries: nothing (Kept), one entry that is not past changes       *)
(* (Changed), a step and all behind it are sent back (Cut), a gate is       *)
(* approved (Approves), or a manifest is materialized (Grows).              *)
(***************************************************************************)
EXTENDS PhasedPlanProofs

Active(d, r) ==
    \/ Works(d) /\ r.taken = FALSE /\ r.status \in {"complete", "in_progress"}
    \/ d.kind = "phases" /\ r.status = "complete"
Halts(r) == r.status = "complete" /\ ~r.acked /\ (r.verdict = "BLOCKED" \/ r.exhausted)
Passed(r) == r.status = "complete" /\ ~Halts(r)

(* Behind an unfinished or halted entry nothing is active but what was put  *)
(* under way by hand.                                                       *)
Ordered(p, s) == \A i, j \in DOMAIN p : i < j /\ Active(p[j], s[j]) => Passed(s[i])

(* What every entry satisfies. *)
Sound(d, r) ==
    /\ d.kind = "gate" => /\ r.status \in {"pending", "complete", "stale"}
                          /\ r.status = "complete" => r.approval # Nil
    /\ d.kind = "phases" => /\ r.status \in {"pending", "complete"}
                            /\ r.status = "complete" => r.manifest \in Manifest
    /\ Works(d) /\ r.status = "complete" => r.output # Nil
    /\ ~Works(d) => r.output = Nil /\ r.verdict = Nil /\ r.exhausted = FALSE
    /\ d.kind = "host-handoff" =>
         /\ r.prepared => r.status \in {"in_progress", "complete", "failed"}
         /\ \A x \in r.seen : x[1] \in d.inputs
         /\ \A x, y \in r.seen : x[1] = y[1] => x = y
         /\ r.prepared /\ r.status \in {"in_progress", "complete"} => r.announced = r.seen
    /\ r.ran => d.kind = "agent"
    /\ r.taken = TRUE => d.kind = "agent"
AllSound(p, s) == \A i \in DOMAIN p : Sound(p[i], s[i])

(* A command serves the step under way that next arrived at.                 *)
ServedAt(p, s, i) ==
    /\ s[i].status = "in_progress"
    /\ \A j \in DOMAIN p : j < i => Passed(s[j])

Serves(p, s, c, k) ==
    /\ k \in {"dispatch", "spawn", "agent"} =>
         \E i \in DOMAIN p : p[i].kind = "agent" /\ ServedAt(p, s, i)
    /\ k = "prepare" =>
         \E i \in DOMAIN p : p[i].kind = "host-handoff" /\ ServedAt(p, s, i)
    /\ k = "retry" =>
         \E i \in DOMAIN p : /\ p[i].id = c /\ p[i].policy
                             /\ s[i].status = "complete" /\ s[i].retries < p[i].budget
    /\ k = "materialize" => \A i \in DOMAIN p : ~Halts(s[i])

(* No agent ran without its event, unless the log lost it in a broken line.  *)
Logged(p, s, e, l) == \A i \in DOMAIN p : s[i].ran => p[i].id \in e \/ l = "broken"
SpawnLogged(p, s, k, e, l) ==
    k = "spawn" => \A i \in DOMAIN p : ServedAt(p, s, i) => p[i].id \in e \/ l = "broken"

(* Nothing behind a placeholder that still waits was ever amended.           *)
Untouched(p, s) ==
    \A i, j \in DOMAIN p :
        p[i].kind = "phases" /\ s[i].status = "pending" /\ i < j => s[j].amendments = << >>

RunInv ==
    /\ TypeOK
    /\ PlanOk(plan, successors, steps)
    /\ Ordered(plan, steps)
    /\ AllSound(plan, steps)
    /\ Serves(plan, steps, current, call)
    /\ Logged(plan, steps, started, log)
    /\ SpawnLogged(plan, steps, call, started, log)
    /\ Untouched(plan, steps)

-----------------------------------------------------------------------------
(* What a step of the run does to its entries *)

Kept == UNCHANGED <<plan, successors, steps, current>>

ChangedTo(i, r) ==
    /\ Frozen
    /\ r \in StepState
    /\ steps' = [steps EXCEPT ![i] = r]
    /\ Sound(plan[i], r)
    /\ ~Passed(steps[i])
    /\ ~IsPhases(i)
    /\ Active(plan[i], r) => \A j \in Step : j < i => Passed(steps[j])
    /\ IsGate(i) => r.status # "complete"
    /\ IsHandoff(i) /\ steps[i].status = "complete" => r.status = "complete" /\ r.output = steps[i].output
    /\ IsHandoff(i) /\ r.status = "complete" /\ steps[i].status # "complete"
         => r.output = files'[plan[i].artifact]
    /\ r.amendments = steps[i].amendments
    /\ r.ran => steps[i].ran \/ plan[i].id \in started \/ log = "broken"
Changed(i) == \E r : ChangedTo(i, r)

Cut(i) ==
    /\ Frozen
    /\ IsWork(i)
    /\ steps' \in [Step -> StepState]
    /\ \A j \in Step : j < i => steps'[j] = steps[j]
    /\ \A j \in Step : j >= i =>
         /\ steps'[j].status \notin {"complete", "in_progress"}
         /\ Sound(plan[j], steps'[j])
         /\ IsPhases(j) => steps[j].status = "pending"
         /\ steps'[j].ran = steps[j].ran
    /\ \A j \in Step : \/ steps'[j].amendments = steps[j].amendments
                       \/ j = i /\ Amend(i)

Approves(g) == Approve(g)

Grows(i) ==
    LET m == files[plan[i].artifact]
        new == Generated[plan[i]][m]
    IN  /\ IsPhases(i) /\ steps[i].status = "pending"
        /\ \A j \in Step : j < i => Passed(steps[j])
        /\ ApprovedAsRead(i) /\ m \in Manifest
        /\ plan' = GrownPlan(i, new)
        /\ steps' = GrownTable(i, new, m)
        /\ successors' = Spliced(i, new)

Does == Kept \/ \E i \in Step : Changed(i) \/ Cut(i) \/ Approves(i) \/ Grows(i)

(* The rest of the state: its types, and the command that holds the lock.    *)
Rest ==
    /\ current' \in Id \cup {Nil}
    /\ files' \in [Artifact -> Content \cup {Nil}]
    /\ archive' \in [Handoff -> [1 .. MaxAmendments -> Content \cup {Nil}]]
    /\ log' \in {"whole", "torn", "broken"} /\ (log = "broken" => log' = "broken")
    /\ started' \subseteq Id /\ started \subseteq started'
    /\ call' \in Call
    /\ Serves(plan', steps', current', call')
    /\ SpawnLogged(plan', steps', call', started', log')

-----------------------------------------------------------------------------
(* The definitions of steps are what the assumptions say they are. *)
LEMMA StepDefFacts ==
  ASSUME NEW d \in StepDef
  PROVE  /\ d.kind \in {"agent", "host-handoff", "gate", "phases"}
         /\ d.id \in Id /\ d.artifact \in Artifact /\ d.inputs \subseteq Artifact
         /\ d.budget \in Nat
         /\ d.kind = "host-handoff" => d.id \in Handoff
         /\ d.patch \in BOOLEAN /\ (d.patch => d.kind = "agent")
<1>1. d.id \in Id /\ d.artifact \in Artifact
  BY DEF Id, Artifact
<1>2. CASE d \in Planned
  <2>1. /\ d.kind \in {"agent", "host-handoff", "gate", "phases"}
        /\ d.inputs \subseteq Artifact /\ d.budget \in Nat
        /\ d.patch \in BOOLEAN /\ (d.patch => d.kind = "agent")
    BY <1>2, PhasesAssumption
  <2>2. d.kind = "host-handoff" => d.id \in Handoff
    BY <1>2 DEF Handoff
  <2>3. QED
    BY <1>1, <2>1, <2>2
<1>3. ASSUME NEW e \in Placeholders, NEW m \in Manifest, d \in ToSet(Generated[e][m])
      PROVE  /\ d.kind \in {"agent", "gate"} /\ d.inputs = {} /\ d.budget \in Nat
             /\ d.patch \in BOOLEAN /\ (d.patch => d.kind = "agent")
  <2> DEFINE g == Generated[e][m]
  <2>1. Shaped(e, g)
    BY GeneratedGroup DEF Group
  <2> HIDE DEF g
  <2>2. PICK k \in DOMAIN g : d = g[k]
    BY <1>3 DEF g, ToSet
  <2>3. g \in Seq(Made) /\ k \in 1 .. Len(g)
    BY <2>1, <2>2, LenProperties DEF Shaped
  <2>4. d \in Made
    BY <2>2, <2>3, ElementOfSeq
  <2>5. d.patch => d.kind = "agent"
    BY <2>1, <2>2, <2>3 DEF Shaped
  <2>6. QED
    BY <2>4, <2>5 DEF Made
<1>4. QED
  BY <1>1, <1>2, <1>3 DEF StepDef

(* The steps of a run, and those behind one of them. *)
LEMMA StepFacts ==
  ASSUME TypeOK, PlanOk(plan, successors, steps)
  PROVE  /\ Len(plan) \in Nat /\ Step = 1 .. Len(plan)
         /\ \A i \in Step : plan[i] \in StepDef /\ steps[i] \in StepState
         /\ \A i, j \in Step : plan[i].id = plan[j].id => i = j
         /\ \A i \in Step : Behind(i) = {j \in Step : j > i}
<1>1. plan \in Seq(StepDef) /\ steps \in [Step -> StepState]
  BY DEF TypeOK
<1>2. Len(plan) \in Nat /\ Step = 1 .. Len(plan)
  BY <1>1, LenProperties DEF Step
<1>3. \A i \in Step : plan[i] \in StepDef /\ steps[i] \in StepState
  BY <1>1, <1>2, ElementOfSeq
<1>4. Conforms(plan) /\ Chained(plan, successors)
  BY DEF PlanOk
<1>5. \A i, j \in Step : plan[i].id = plan[j].id => i = j
  BY <1>4 DEF Conforms, Step
<1>6. \A i \in Step : Behind(i) = {j \in Step : j > i}
  BY <1>2, <1>4, BehindLinked
<1>7. QED
  BY <1>2, <1>3, <1>5, <1>6

(* The index of a step is that of its id. *)
LEMMA IndexFacts ==
  ASSUME TypeOK, PlanOk(plan, successors, steps), NEW i \in Step
  PROVE  IndexOf(plan[i].id) = i
<1>1. \A j \in Step : plan[j].id = plan[i].id => j = i
  BY StepFacts
<1>2. QED
  BY <1>1 DEF IndexOf

-----------------------------------------------------------------------------
(* A step that is outdated or reset keeps what holds of its entry.           *)
LEMMA OutdateFacts ==
  ASSUME NEW r \in StepState, NEW d, d.kind # "phases", Sound(d, r)
  PROVE  /\ Outdate(r) \in StepState /\ Sound(d, Outdate(r))
         /\ Outdate(r).status = "stale" /\ Outdate(r).ran = r.ran
         /\ Outdate(r).amendments = r.amendments /\ Outdate(r).retries = r.retries
         /\ Outdate(r).taken = FALSE
<1>1. /\ Outdate(r) \in StepState
      /\ Outdate(r).status = "stale" /\ Outdate(r).ran = r.ran
      /\ Outdate(r).amendments = r.amendments /\ Outdate(r).retries = r.retries
      /\ Outdate(r).output = r.output /\ Outdate(r).seen = r.seen
      /\ Outdate(r).prepared = FALSE /\ Outdate(r).verdict = Nil /\ Outdate(r).exhausted = FALSE
      /\ Outdate(r).taken = FALSE
  BY DEF StepState, Outdate
<1>2. Sound(d, Outdate(r))
  <2> HIDE DEF Outdate
  <2> QED
    BY <1>1 DEF Sound
<1>3. QED
  BY <1>1, <1>2

LEMMA ResetFacts ==
  ASSUME NEW r \in StepState, NEW d, d.kind # "phases", Sound(d, r)
  PROVE  /\ Reset(r) \in StepState /\ Sound(d, Reset(r))
         /\ Reset(r).status = "pending" /\ Reset(r).ran = r.ran
         /\ Reset(r).amendments = r.amendments /\ Reset(r).retries = r.retries
         /\ Reset(r).output = Nil /\ Reset(r).seen = {} /\ Reset(r).prepared = FALSE
         /\ Reset(r).approval = r.approval /\ Reset(r).announced = r.announced
         /\ Reset(r).verdict = Nil /\ Reset(r).exhausted = FALSE /\ Reset(r).taken = FALSE
<1>1. /\ Reset(r) \in StepState
      /\ Reset(r).status = "pending" /\ Reset(r).ran = r.ran
      /\ Reset(r).amendments = r.amendments /\ Reset(r).retries = r.retries
      /\ Reset(r).output = Nil /\ Reset(r).seen = {} /\ Reset(r).prepared = FALSE
      /\ Reset(r).approval = r.approval /\ Reset(r).announced = r.announced
      /\ Reset(r).verdict = Nil /\ Reset(r).exhausted = FALSE /\ Reset(r).taken = FALSE
  BY DEF StepState, Reset
<1>2. Sound(d, Reset(r))
  BY <1>1 DEF Sound
<1>3. QED
  BY <1>1, <1>2

-----------------------------------------------------------------------------
(* What holds of the entries alone. *)
EntriesOk ==
    /\ steps \in [Step -> StepState]
    /\ PlanOk(plan, successors, steps)
    /\ Ordered(plan, steps)
    /\ AllSound(plan, steps)
    /\ Logged(plan, steps, started, log)
    /\ Untouched(plan, steps)

(* The table of a linked plan has an entry for every step and names steps.   *)
LEMMA TableType ==
  ASSUME NEW p, NEW t, Chained(p, t)
  PROVE  DOMAIN t = {p[i].id : i \in DOMAIN p} /\ \A id \in DOMAIN t : t[id] \subseteq DOMAIN t
<1>1. /\ DOMAIN t = {p[i].id : i \in DOMAIN p}
      /\ \A i \in DOMAIN p : t[p[i].id] = {p[j].id : j \in {j \in DOMAIN p : j = i + 1}}
  BY DEF Chained
<1>2. \A i \in DOMAIN p : t[p[i].id] \subseteq {p[j].id : j \in DOMAIN p}
  BY <1>1
<1>3. QED
  BY <1>1, <1>2

LEMMA RestOfInv ==
  ASSUME EntriesOk', Rest
  PROVE  RunInv'
<1>1. plan' \in Seq(StepDef) /\ Chained(plan', successors')
  BY DEF EntriesOk, PlanOk
<1>2. DOMAIN successors' = {plan'[i].id : i \in DOMAIN plan'}
      /\ \A id \in DOMAIN successors' : successors'[id] \subseteq DOMAIN successors'
  BY <1>1, TableType
<1>3. TypeOK'
  BY <1>1, <1>2 DEF TypeOK, EntriesOk, Rest, Step
<1>4. QED
  BY <1>3 DEF RunInv, EntriesOk, Rest

LEMMA KeptOk ==
  ASSUME RunInv, Rest, Kept
  PROVE  EntriesOk'
<1>1. plan' = plan /\ successors' = successors /\ steps' = steps /\ current' = current
  BY DEF Kept
<1>2. steps' \in [Step' -> StepState]
  BY <1>1 DEF RunInv, TypeOK, Step
<1>3. /\ PlanOk(plan', successors', steps') /\ Ordered(plan', steps') /\ AllSound(plan', steps')
      /\ Untouched(plan', steps')
  BY <1>1 DEF RunInv
<1>4. Logged(plan', steps', started', log')
  BY <1>1 DEF RunInv, Logged, Rest
<1>5. QED
  BY <1>2, <1>3, <1>4 DEF EntriesOk

(* Materialized placeholders stay so: the plan is as good as before.         *)
LEMMA StillPlanOk ==
  ASSUME NEW p, NEW t, NEW s, NEW u, PlanOk(p, t, s),
         \A i \in DOMAIN p : p[i].kind = "phases" /\ s[i].status = "complete" => u[i].status = "complete"
  PROVE  PlanOk(p, t, u)
<1>1. Rooted(p, u)
  <2>1. PICK o \in Plans : \A j \in DOMAIN p :
        \/ p[j] \in ToSet(o)
        \/ /\ p[j].kind \in {"agent", "gate"}
           /\ \E e \in DOMAIN p : /\ p[e].kind = "phases" /\ s[e].status = "complete"
                                  /\ Continues(p[j].id, p[e])
           /\ \E e \in DOMAIN p : p[j].artifact = p[e].id
    BY DEF PlanOk, Rooted
  <2>2. \A j \in DOMAIN p :
        \/ p[j] \in ToSet(o)
        \/ /\ p[j].kind \in {"agent", "gate"}
           /\ \E e \in DOMAIN p : /\ p[e].kind = "phases" /\ u[e].status = "complete"
                                  /\ Continues(p[j].id, p[e])
           /\ \E e \in DOMAIN p : p[j].artifact = p[e].id
    BY <2>1
  <2>3. QED
    BY <2>2 DEF Rooted
<1>2. QED
  BY <1>1 DEF PlanOk

(* One entry that is not past changes. *)
LEMMA ChangedOk ==
  ASSUME RunInv, Rest, NEW i \in Step, Changed(i)
  PROVE  EntriesOk'
<1>1. PICK r : ChangedTo(i, r)
  BY DEF Changed
<1>2. plan' = plan /\ successors' = successors /\ Step' = Step /\ r \in StepState
  BY <1>1 DEF ChangedTo, Frozen, Step
<1>3. steps \in [Step -> StepState] /\ Step = DOMAIN plan
  BY DEF RunInv, TypeOK, Step
<1>4. steps' \in [Step -> StepState] /\ steps'[i] = r /\ \A j \in Step : j # i => steps'[j] = steps[j]
  BY <1>1, <1>2, <1>3 DEF ChangedTo
<1>5. ~Passed(steps[i]) /\ plan[i].kind # "phases" /\ Sound(plan[i], r)
      /\ (Active(plan[i], r) => \A j \in Step : j < i => Passed(steps[j]))
  BY <1>1 DEF ChangedTo, IsPhases
<1>6. \A j, k \in Step : j < k /\ Active(plan[k], steps[k]) => Passed(steps[j])
  BY <1>3 DEF RunInv, Ordered
<1>7. PlanOk(plan, successors, steps')
  <2>1. PlanOk(plan, successors, steps)
    BY DEF RunInv
  <2>2. QED
    BY <1>3, <1>4, <1>5, <2>1, StillPlanOk
<1>8. Ordered(plan, steps')
  <2> SUFFICES ASSUME NEW j \in Step, NEW k \in Step, j < k, Active(plan[k], steps'[k])
               PROVE  Passed(steps'[j])
    BY <1>3 DEF Ordered
  <2>1. Len(plan) \in Nat /\ Step = 1 .. Len(plan)
    BY StepFacts DEF RunInv
  <2>2. CASE k = i
    BY <2>1, <2>2, <1>4, <1>5
  <2>3. CASE k # i
    BY <2>3, <1>4, <1>5, <1>6
  <2>4. QED
    BY <2>2, <2>3
<1>9. AllSound(plan, steps')
  BY <1>3, <1>4, <1>5 DEF RunInv, AllSound
<1>11. Logged(plan, steps', started', log')
  <2> SUFFICES ASSUME NEW k \in Step, steps'[k].ran PROVE plan[k].id \in started' \/ log' = "broken"
    BY <1>3 DEF Logged
  <2>1. \A j \in Step : steps[j].ran => plan[j].id \in started \/ log = "broken"
    BY <1>3 DEF RunInv, Logged
  <2>2. steps[k].ran \/ plan[k].id \in started \/ log = "broken"
    BY <1>1, <1>4 DEF ChangedTo
  <2>3. started \subseteq started' /\ (log = "broken" => log' = "broken")
    BY DEF Rest
  <2>4. QED
    BY <2>1, <2>2, <2>3
<1>12. Untouched(plan, steps')
  <2>1. \A j \in Step : steps'[j].amendments = steps[j].amendments
    BY <1>1, <1>4 DEF ChangedTo
  <2>2. \A j \in Step : plan[j].kind = "phases" => steps'[j] = steps[j]
    BY <1>4, <1>5
  <2>3. QED
    BY <1>3, <2>1, <2>2 DEF RunInv, Untouched
<1>13. QED
  BY <1>2, <1>4, <1>7, <1>8, <1>9, <1>11, <1>12 DEF EntriesOk

(* A step and all behind it are sent back.                                   *)
LEMMA CutOk ==
  ASSUME RunInv, Rest, NEW i \in Step, Cut(i)
  PROVE  EntriesOk'
<1>1. plan' = plan /\ successors' = successors /\ Step' = Step /\ steps' \in [Step -> StepState]
  BY DEF Cut, Frozen, Step
<1>2. steps \in [Step -> StepState] /\ Step = DOMAIN plan /\ \A j \in Step : j \in Nat
  BY StepFacts DEF RunInv, TypeOK, Step
<1>3. i \in Nat /\ \A j \in Step : j \in Nat
  BY <1>2
<1>4. \A j \in Step : j < i => steps'[j] = steps[j]
  BY DEF Cut
<1>5. \A j \in Step : ~(j < i) =>
         /\ steps'[j].status \notin {"complete", "in_progress"}
         /\ Sound(plan[j], steps'[j])
         /\ plan[j].kind = "phases" => steps[j].status = "pending"
         /\ steps'[j].ran = steps[j].ran
  <2> SUFFICES ASSUME NEW j \in Step, ~(j < i)
               PROVE  /\ steps'[j].status \notin {"complete", "in_progress"}
                      /\ Sound(plan[j], steps'[j])
                      /\ plan[j].kind = "phases" => steps[j].status = "pending"
                      /\ steps'[j].ran = steps[j].ran
    OBVIOUS
  <2>1. j >= i
    BY <1>3
  <2>2. QED
    BY <2>1 DEF Cut, IsPhases
<1>6. \A j, k \in Step : j < k /\ Active(plan[k], steps[k]) => Passed(steps[j])
  BY <1>2 DEF RunInv, Ordered
<1>7. PlanOk(plan, successors, steps')
  <2>1. PlanOk(plan, successors, steps)
    BY DEF RunInv
  <2>2. \A j \in Step : plan[j].kind = "phases" /\ steps[j].status = "complete"
                          => steps'[j].status = "complete"
    BY <1>4, <1>5
  <2>3. QED
    BY <1>2, <2>1, <2>2, StillPlanOk
<1>9. Ordered(plan, steps')
  <2> SUFFICES ASSUME NEW j \in Step, NEW k \in Step, j < k, Active(plan[k], steps'[k])
               PROVE  Passed(steps'[j])
    BY <1>2 DEF Ordered
  <2>1. k < i
    BY <1>5 DEF Active
  <2>2. j < i
    BY <2>1, <1>2
  <2>3. Passed(steps[j])
    BY <2>1, <1>4, <1>6
  <2>4. QED
    BY <2>2, <2>3, <1>4
<1>10. AllSound(plan, steps')
  <2>1. \A j \in Step : Sound(plan[j], steps[j])
    BY <1>2 DEF RunInv, AllSound
  <2>2. QED
    BY <2>1, <1>2, <1>4, <1>5 DEF AllSound
<1>12. Logged(plan, steps', started', log')
  <2>1. \A j \in Step : steps'[j].ran = steps[j].ran
    BY <1>4, <1>5
  <2>2. started \subseteq started' /\ (log = "broken" => log' = "broken")
    BY DEF Rest
  <2>3. QED
    BY <1>2, <2>1, <2>2 DEF RunInv, Logged
<1>13. Untouched(plan, steps')
  <2> SUFFICES ASSUME NEW j \in Step, NEW k \in Step, plan[j].kind = "phases",
                      steps'[j].status = "pending", j < k
               PROVE  steps'[k].amendments = << >>
    BY <1>2 DEF Untouched
  <2>1. steps[j].status = "pending"
    BY <1>4, <1>5
  <2>2. steps[k].amendments = << >>
    BY <2>1, <1>2 DEF RunInv, Untouched
  <2>3. k = i => ~Amend(i)
    <3>1. ASSUME k = i, Amend(i) PROVE FALSE
      <4>1. IsHandoff(i) /\ steps[i].status = "complete"
        BY <3>1 DEF Amend, Amendable
      <4>2. Sound(plan[i], steps[i]) /\ steps[i] \in StepState
        BY StepFacts, <1>2 DEF RunInv, AllSound
      <4>3. steps[i].taken = FALSE
        BY <4>1, <4>2 DEF Sound, StepState, IsHandoff
      <4>4. Active(plan[i], steps[i])
        BY <4>1, <4>3 DEF Active, Works, IsHandoff
      <4>5. QED
        BY <2>1, <3>1, <4>4, <1>6 DEF Passed
    <3>2. QED
      BY <3>1
  <2>4. steps'[k].amendments = steps[k].amendments
    BY <2>3 DEF Cut
  <2>5. QED
    BY <2>2, <2>4
<1>14. QED
  BY <1>1, <1>7, <1>9, <1>10, <1>12, <1>13 DEF EntriesOk

-----------------------------------------------------------------------------
(* A nonempty set of steps has a last one and a first one. *)
LEMMA LastStep ==
  ASSUME NEW n \in Nat, NEW S, S \subseteq 1 .. n, S # {}
  PROVE  LastOf(S) \in S /\ \A j \in S : j <= LastOf(S)
<1> DEFINE HasLast(Q) == \E i \in Q : \A j \in Q : j <= i
           T == {m \in Nat : \A Q \in SUBSET (1 .. m) : Q # {} => HasLast(Q)}
<1>1. 0 \in T
  <2>1. \A Q \in SUBSET (1 .. 0) : Q = {}
    OBVIOUS
  <2> HIDE DEF HasLast
  <2>2. QED
    BY <2>1
<1>2. \A m \in Nat : m \in T => m + 1 \in T
  <2> SUFFICES ASSUME NEW m \in Nat, m \in T, NEW Q \in SUBSET (1 .. m + 1), Q # {}
               PROVE  HasLast(Q)
    <3> HIDE DEF HasLast
    <3> QED
      OBVIOUS
  <2>1. CASE m + 1 \in Q
    BY <2>1
  <2>2. CASE m + 1 \notin Q
    <3>1. Q \in SUBSET (1 .. m)
      BY <2>2
    <3> HIDE DEF HasLast
    <3>2. QED
      BY <3>1
  <2>3. QED
    BY <2>1, <2>2
<1>3. HasLast(S)
  <2>1. n \in T
    BY <1>1, <1>2, NatSteps
  <2> HIDE DEF HasLast
  <2>2. QED
    BY <2>1
<1>4. QED
  BY <1>3 DEF LastOf

LEMMA FirstStep ==
  ASSUME NEW n \in Nat, NEW S, S \subseteq 1 .. n, S # {}
  PROVE  FirstOf(S) \in S /\ \A j \in S : FirstOf(S) <= j
<1> DEFINE HasFirst(Q) == \E i \in Q : \A j \in Q : i <= j
           T == {m \in Nat : \A Q \in SUBSET (1 .. m) : Q # {} => HasFirst(Q)}
<1>1. 0 \in T
  <2>1. \A Q \in SUBSET (1 .. 0) : Q = {}
    OBVIOUS
  <2> HIDE DEF HasFirst
  <2>2. QED
    BY <2>1
<1>2. \A m \in Nat : m \in T => m + 1 \in T
  <2> SUFFICES ASSUME NEW m \in Nat, m \in T, NEW Q \in SUBSET (1 .. m + 1), Q # {}
               PROVE  HasFirst(Q)
    <3> HIDE DEF HasFirst
    <3> QED
      OBVIOUS
  <2> DEFINE L == Q \cap (1 .. m)
  <2>1. CASE L # {}
    <3>1. HasFirst(L)
      <4> HIDE DEF HasFirst
      <4> QED
        BY <2>1
    <3>2. PICK i \in L : \A j \in L : i <= j
      BY <3>1
    <3>3. \A j \in Q : j \in L \/ j = m + 1
      OBVIOUS
    <3>4. QED
      BY <3>2, <3>3
  <2>2. CASE L = {}
    <3>1. \A j \in Q : j = m + 1
      BY <2>2
    <3>2. QED
      BY <3>1
  <2>3. QED
    BY <2>1, <2>2
<1>3. HasFirst(S)
  <2>1. n \in T
    BY <1>1, <1>2, NatSteps
  <2> HIDE DEF HasFirst
  <2>2. QED
    BY <2>1
<1>4. QED
  BY <1>3 DEF FirstOf

(* The producer of an artifact is a complete work step with an output.       *)
LEMMA ProducerFacts ==
  ASSUME TypeOK, PlanOk(plan, successors, steps), NEW a, Producers(a) # {},
         NEW p, p = producerForArtifact(a)
  PROVE  /\ p \in Step /\ IsWork(p) /\ plan[p].artifact = a
         /\ steps[p].status = "complete" /\ steps[p].output # Nil
         /\ \A j \in Producers(a) : j <= p
<1>1. Producers(a) \subseteq 1 .. Len(plan) /\ Len(plan) \in Nat
  BY StepFacts DEF Producers
<1>2. p \in Producers(a) /\ \A j \in Producers(a) : j <= p
  BY <1>1, LastStep DEF producerForArtifact
<1>3. QED
  BY <1>2 DEF Producers

(* An approval completes the gate and records the text with its producer.    *)
ApprovedEntries(g, p, c) ==
    /\ p \in Step /\ IsWork(p) /\ plan[p].artifact = plan[g].artifact
    /\ p \in Producers(plan[g].artifact)
    /\ \A j \in Producers(plan[g].artifact) : j <= p
    /\ steps[p].status = "complete" /\ p # g
    /\ c \in Content
    /\ steps' \in [Step -> StepState]
    /\ steps'[p] = [steps[p] EXCEPT !.output = c]
    /\ steps'[g] = [steps[g] EXCEPT !.status = "complete", !.approval = c]
    /\ \A j \in Step : j # p /\ j # g => steps'[j] = steps[j]

LEMMA ApproveEntries ==
  ASSUME TypeOK, PlanOk(plan, successors, steps), NEW g \in Step, Approve(g)
  PROVE  ApprovedEntries(g, producerForArtifact(plan[g].artifact), files[plan[g].artifact])
<1> DEFINE a == plan[g].artifact
           p == producerForArtifact(a)
           c == files[a]
<1>1. Approvable(g)
  BY DEF Approve
<1>2. /\ p \in Step /\ IsWork(p) /\ plan[p].artifact = a
      /\ steps[p].status = "complete" /\ steps[p].output # Nil
      /\ \A j \in Producers(a) : j <= p
  <2>1. Producers(a) # {}
    BY <1>1 DEF Approvable
  <2>2. QED
    BY <2>1, ProducerFacts
<1>3. p \in Producers(a)
  BY <1>2 DEF Producers
<1>4. p # g
  BY <1>1, <1>2 DEF Approvable, IsGate, IsWork, IsAgent, IsHandoff
<1>5. c \in Content
  <2>1. a \in Artifact
    BY StepFacts, StepDefFacts
  <2>2. c \in Content \cup {Nil}
    BY <2>1 DEF TypeOK
  <2>3. QED
    BY <1>1, <2>2 DEF Approvable
<1>6. steps' = [steps EXCEPT ![p].output = c, ![g].status = "complete", ![g].approval = c]
  BY DEF Approve
<1> HIDE DEF p, c
<1>7. steps \in [Step -> StepState] /\ steps[p] \in StepState /\ steps[g] \in StepState
  BY <1>2 DEF TypeOK
<1>8. [steps[p] EXCEPT !.output = c] \in StepState
      /\ [steps[g] EXCEPT !.status = "complete", !.approval = c] \in StepState
  <2> DEFINE s == steps[p]
             t == steps[g]
  <2>1. s \in StepState /\ t \in StepState
    BY <1>7
  <2> HIDE DEF s, t
  <2>2. [s EXCEPT !.output = c] \in StepState
    BY <2>1, <1>5 DEF StepState
  <2>3. [t EXCEPT !.status = "complete", !.approval = c] \in StepState
    BY <2>1, <1>5 DEF StepState
  <2>4. QED
    BY <2>2, <2>3 DEF s, t
<1>9. /\ steps'[p] = [steps[p] EXCEPT !.output = c]
      /\ steps'[g] = [steps[g] EXCEPT !.status = "complete", !.approval = c]
      /\ DOMAIN steps' = Step
      /\ \A j \in Step : j # p /\ j # g => steps'[j] = steps[j]
  BY <1>2, <1>4, <1>6, <1>7
<1>10. steps' \in [Step -> StepState]
  <2>1. steps' = [j \in Step |-> steps'[j]]
    BY <1>6, <1>7
  <2>2. \A j \in Step : steps'[j] \in StepState
    BY <1>7, <1>8, <1>9
  <2>3. QED
    BY <2>1, <2>2
<1>11. QED
  BY <1>2, <1>3, <1>4, <1>5, <1>9, <1>10 DEF ApprovedEntries, p, c

LEMMA ApproveOk ==
  ASSUME RunInv, Rest, NEW g \in Step, Approve(g)
  PROVE  EntriesOk'
<1>1. plan' = plan /\ successors' = successors /\ Step' = Step /\ current' = current
  BY DEF Approve, Frozen, Step
<1>2. PICK p, c : ApprovedEntries(g, p, c)
  BY ApproveEntries DEF RunInv
<1>3. /\ p \in Step /\ IsWork(p) /\ steps[p].status = "complete" /\ p # g /\ c \in Content
      /\ steps' \in [Step -> StepState]
      /\ steps'[p] = [steps[p] EXCEPT !.output = c]
      /\ steps'[g] = [steps[g] EXCEPT !.status = "complete", !.approval = c]
      /\ \A j \in Step : j # p /\ j # g => steps'[j] = steps[j]
  BY <1>2 DEF ApprovedEntries
<1>4. steps \in [Step -> StepState] /\ Step = DOMAIN plan
  BY DEF RunInv, TypeOK, Step
<1>5. /\ steps'[p].status = "complete" /\ steps'[p].output = c
      /\ steps'[p].acked = steps[p].acked /\ steps'[p].verdict = steps[p].verdict
      /\ steps'[p].exhausted = steps[p].exhausted
      /\ steps'[p].seen = steps[p].seen /\ steps'[p].announced = steps[p].announced
      /\ steps'[p].prepared = steps[p].prepared /\ steps'[p].taken = steps[p].taken
      /\ steps'[p].ran = steps[p].ran /\ steps'[p].amendments = steps[p].amendments
  <2>1. steps[p] \in StepState
    BY <1>3, <1>4
  <2>2. QED
    BY <2>1, <1>3 DEF StepState
<1>6. /\ steps'[g].status = "complete" /\ steps'[g].approval = c
      /\ steps'[g].output = steps[g].output
      /\ steps'[g].verdict = steps[g].verdict /\ steps'[g].exhausted = steps[g].exhausted
      /\ steps'[g].ran = steps[g].ran /\ steps'[g].amendments = steps[g].amendments
      /\ steps'[g].taken = steps[g].taken
  <2>1. steps[g] \in StepState
    BY <1>4
  <2>2. QED
    BY <2>1, <1>3 DEF StepState
<1>7. plan[g].kind = "gate" /\ steps[g].status = "pending" /\ Works(plan[p])
  BY <1>3 DEF Approve, Approvable, IsGate, Works, IsWork, IsAgent, IsHandoff
<1>8. c # Nil
  BY <1>3, PhasesAssumption
<1>9. \A j \in Step : j # g => steps'[j].status = steps[j].status
  BY <1>3, <1>5
<1>10. PlanOk(plan, successors, steps')
  <2>1. PlanOk(plan, successors, steps)
    BY DEF RunInv
  <2>2. \A j \in Step : plan[j].kind = "phases" /\ steps[j].status = "complete"
                          => steps'[j].status = "complete"
    BY <1>7, <1>9
  <2>3. QED
    BY <1>4, <2>1, <2>2, StillPlanOk
<1>11. Ordered(plan, steps')
  <2> SUFFICES ASSUME NEW j \in Step, NEW k \in Step, j < k, Active(plan[k], steps'[k])
               PROVE  Passed(steps'[j])
    BY <1>4 DEF Ordered
  <2>1. k # g
    BY <1>7 DEF Active, Works
  <2>2. Active(plan[k], steps[k])
    <3>1. steps'[k].status = steps[k].status /\ steps'[k].taken = steps[k].taken
      BY <2>1, <1>3, <1>5, <1>9
    <3>2. QED
      BY <3>1 DEF Active
  <2>3. Passed(steps[j])
    BY <2>2, <1>4 DEF RunInv, Ordered
  <2>4. CASE j = p
    BY <2>3, <2>4, <1>5 DEF Passed, Halts
  <2>5. CASE j = g
    BY <2>3, <2>5, <1>7 DEF Passed
  <2>6. CASE j # p /\ j # g
    BY <2>3, <2>6, <1>3
  <2>7. QED
    BY <2>4, <2>5, <2>6
<1>12. AllSound(plan, steps')
  <2>1. \A j \in Step : Sound(plan[j], steps[j])
    BY <1>4 DEF RunInv, AllSound
  <2>2. Sound(plan[p], steps'[p])
    <3>1. Sound(plan[p], steps[p])
      BY <2>1, <1>3
    <3>2. QED
      BY <3>1, <1>3, <1>5, <1>7, <1>8 DEF Sound, Works
  <2>3. Sound(plan[g], steps'[g])
    <3>1. Sound(plan[g], steps[g])
      BY <2>1
    <3>2. QED
      BY <3>1, <1>6, <1>7, <1>8 DEF Sound, Works
  <2>4. QED
    BY <2>1, <2>2, <2>3, <1>3, <1>4 DEF AllSound
<1>14. Logged(plan, steps', started', log')
  <2> SUFFICES ASSUME NEW k \in Step, steps'[k].ran PROVE plan[k].id \in started' \/ log' = "broken"
    BY <1>4 DEF Logged
  <2>1. steps[k].ran
    BY <1>3, <1>5, <1>6
  <2>2. plan[k].id \in started \/ log = "broken"
    BY <2>1, <1>4 DEF RunInv, Logged
  <2>3. QED
    BY <2>2 DEF Rest
<1>15. Untouched(plan, steps')
  <2> SUFFICES ASSUME NEW j \in Step, NEW k \in Step, plan[j].kind = "phases",
                      steps'[j].status = "pending", j < k
               PROVE  steps'[k].amendments = << >>
    BY <1>4 DEF Untouched
  <2>1. steps[j].status = "pending"
    BY <1>6, <1>9
  <2>2. steps[k].amendments = << >>
    BY <2>1, <1>4 DEF RunInv, Untouched
  <2>3. QED
    BY <2>2, <1>3, <1>5, <1>6
<1>16. QED
  BY <1>1, <1>3, <1>10, <1>11, <1>12, <1>14, <1>15 DEF EntriesOk

(* Where the entries of the grown run come from.                             *)
GrownEntries(i, m, new, N, n) ==
    /\ N \in Nat /\ n \in Nat /\ Step = 1 .. N /\ Step' = 1 .. N + n /\ N = Len(plan)
    /\ m \in Manifest /\ new = Generated[plan[i]][m] /\ n = Len(new)
    /\ Group(plan[i], new)
    /\ plan[i] \in Placeholders
    /\ \A j \in Step : Shift(i, n, j) \in Step' /\ plan'[Shift(i, n, j)] = plan[j]
    /\ \A j \in Step : j # i => steps'[Shift(i, n, j)] = steps[j]
    /\ Shift(i, n, i) = i /\ steps'[i] = Made1(i, m)
    /\ \A k \in 1 .. n : i + k \in Step' /\ plan'[i + k] = new[k] /\ steps'[i + k] = NewStep
    /\ \A k \in 1 .. n : new[k] \in StepDef
    /\ \A j, l \in Step : Shift(i, n, j) < Shift(i, n, l) <=> j < l
    /\ \A y \in Step' : \/ \E j \in Step : y = Shift(i, n, j)
                        \/ \E k \in 1 .. n : y = i + k
    /\ steps' \in [Step' -> StepState]
    /\ PlanOk(plan', successors', steps')

LEMMA GrowsEntries ==
  ASSUME TypeOK, PlanOk(plan, successors, steps), NEW i \in Step, Grows(i)
  PROVE  GrownEntries(i, files[plan[i].artifact], Generated[plan[i]][files[plan[i].artifact]],
                      Len(plan), Len(Generated[plan[i]][files[plan[i].artifact]]))
<1> DEFINE m == files[plan[i].artifact]
           new == Generated[plan[i]][m]
           N == Len(plan)
           n == Len(new)
<1>1. /\ IsPhases(i) /\ steps[i].status = "pending" /\ m \in Manifest
      /\ plan' = GrownPlan(i, new) /\ steps' = GrownTable(i, new, m)
      /\ successors' = Spliced(i, new)
  BY DEF Grows
<1>2. N \in Nat /\ Step = 1 .. N
  BY StepFacts
<1>3. plan \in Seq(StepDef) /\ steps \in [Step -> StepState]
  BY DEF TypeOK
<1> HIDE DEF m
<1>4. /\ Group(plan[i], new)
      /\ plan[i] \in Placeholders
      /\ \A k \in 1 .. Len(new) : new[k] \in StepDef
      /\ Grown(plan, GrownPlan(i, new), i, new)
      /\ GrownSteps(steps, GrownTable(i, new, m), Len(plan), i, Len(new), Made1(i, m))
      /\ GrownTable(i, new, m) \in [DOMAIN GrownPlan(i, new) -> StepState]
      /\ PlanOk(GrownPlan(i, new), Spliced(i, new), GrownTable(i, new, m))
  BY <1>1, <1>3, Materialized
<1> HIDE DEF new
<1>5. n \in Nat
  BY <1>4 DEF Group, Shaped
<1>6. Covered(plan, plan', i, new, N, n)
  <2>1. Grown(plan, plan', i, new) /\ i \in 1 .. N
    BY <1>1, <1>2, <1>4
  <2>2. QED
    BY <2>1, <1>2, <1>3, <1>5, GrownPlaces
<1>7. PlacesOf(N, n, i)
  BY <1>2, <1>5, Places
<1> HIDE DEF N, n
<1>8. Step' = 1 .. N + n
  BY <1>6 DEF Covered, Step
<1>9. /\ \A j \in Step : Shift(i, n, j) \in Step' /\ plan'[Shift(i, n, j)] = plan[j]
      /\ \A k \in 1 .. n : i + k \in Step' /\ plan'[i + k] = new[k]
      /\ \A y \in Step' : \/ \E j \in Step : y = Shift(i, n, j)
                          \/ \E k \in 1 .. n : y = i + k
  BY <1>2, <1>6, <1>8 DEF Covered
<1>10. /\ Shift(i, n, i) = i
       /\ \A j, l \in Step : Shift(i, n, j) < Shift(i, n, l) <=> j < l
  BY <1>2, <1>7 DEF PlacesOf
<1>11. /\ \A j \in Step : j # i => steps'[Shift(i, n, j)] = steps[j]
       /\ steps'[i] = Made1(i, m)
       /\ \A k \in 1 .. n : steps'[i + k] = NewStep
  BY <1>1, <1>2, <1>4 DEF GrownSteps, N, n
<1>12. steps' \in [Step' -> StepState] /\ PlanOk(plan', successors', steps')
  BY <1>1, <1>4 DEF Step
<1>13. \A k \in 1 .. n : new[k] \in StepDef
  BY <1>4 DEF n
<1>14. m \in Manifest /\ Group(plan[i], new) /\ plan[i] \in Placeholders
  BY <1>1, <1>4
<1>15. QED
  BY <1>2, <1>5, <1>8, <1>9, <1>10, <1>11, <1>12, <1>13, <1>14 DEF GrownEntries, m, new, N, n

(* A manifest is materialized. *)
LEMMA GrowsOk ==
  ASSUME RunInv, Rest, NEW i \in Step, Grows(i)
  PROVE  EntriesOk'
<1>1. PICK m, new, N, n : GrownEntries(i, m, new, N, n)
  BY GrowsEntries DEF RunInv
<1>2. /\ plan[i].kind = "phases" /\ steps[i].status = "pending"
      /\ \A j \in Step : j < i => Passed(steps[j])
  BY DEF Grows, IsPhases
<1>3. /\ \A j \in Step : Shift(i, n, j) \in Step' /\ plan'[Shift(i, n, j)] = plan[j]
      /\ \A j \in Step : j # i => steps'[Shift(i, n, j)] = steps[j]
      /\ Shift(i, n, i) = i /\ steps'[i] = Made1(i, m)
      /\ \A k \in 1 .. n : i + k \in Step' /\ plan'[i + k] = new[k] /\ steps'[i + k] = NewStep
      /\ \A j, l \in Step : Shift(i, n, j) < Shift(i, n, l) <=> j < l
      /\ \A y \in Step' : \/ \E j \in Step : y = Shift(i, n, j)
                          \/ \E k \in 1 .. n : y = i + k
      /\ steps' \in [Step' -> StepState]
      /\ PlanOk(plan', successors', steps')
  BY <1>1 DEF GrownEntries
<1>4. Step = 1 .. N /\ N \in Nat /\ n \in Nat /\ Step' = 1 .. N + n /\ m \in Manifest
      /\ Group(plan[i], new) /\ n = Len(new)
  BY <1>1 DEF GrownEntries
<1>5. steps \in [Step -> StepState] /\ Step = DOMAIN plan /\ Step' = DOMAIN plan'
  BY DEF RunInv, TypeOK, Step
<1>6. /\ steps'[i].status = "complete" /\ steps'[i].manifest = m
      /\ steps'[i].output = steps[i].output /\ steps'[i].ran = steps[i].ran
      /\ steps'[i].verdict = steps[i].verdict /\ steps'[i].exhausted = steps[i].exhausted
      /\ steps'[i].amendments = steps[i].amendments /\ steps'[i].taken = steps[i].taken
  <2>1. steps[i] \in StepState /\ m \in Manifest /\ steps'[i] = Made1(i, m)
    BY <1>3, <1>4, <1>5
  <2>2. QED
    BY <2>1, PlaceholderType
<1>7. /\ NewStep.status = "pending" /\ NewStep.output = Nil /\ NewStep.ran = FALSE
      /\ NewStep.verdict = Nil /\ NewStep.exhausted = FALSE
      /\ NewStep.amendments = << >> /\ NewStep.taken = FALSE
  BY DEF NewStep
<1>8. \A k \in 1 .. n : plan'[i + k].kind \in {"agent", "gate"}
  <2> SUFFICES ASSUME NEW k \in 1 .. n PROVE new[k].kind \in {"agent", "gate"}
    BY <1>3
  <2>1. new[k] \in Made
    BY <1>4, ElementOfSeq DEF Group, Shaped
  <2>2. QED
    BY <2>1 DEF Made
<1>9. \A j, k \in Step : j < k /\ Active(plan[k], steps[k]) => Passed(steps[j])
  BY <1>5 DEF RunInv, Ordered
<1>10. ASSUME NEW y \in 1 .. i - 1
       PROVE  y \in Step /\ Shift(i, n, y) = y /\ y # i /\ steps'[y] = steps[y]
  <2>1. y \in Step /\ Shift(i, n, y) = y /\ y # i
    BY <1>4 DEF Shift
  <2>2. QED
    BY <2>1, <1>3
<1>11. ASSUME NEW z \in Step', Active(plan'[z], steps'[z])
       PROVE  z <= i
  <2>1. ASSUME NEW k \in 1 .. n, z = i + k PROVE FALSE
    BY <1>3, <1>7, <1>8, <1>11, <2>1 DEF Active
  <2>2. ASSUME NEW j \in Step, z = Shift(i, n, j), j # i PROVE z <= i
    <3>1. Active(plan[j], steps[j])
      BY <1>3, <1>11, <2>2
    <3>2. ~(i < j)
      BY <3>1, <1>2, <1>9 DEF Passed
    <3>3. QED
      BY <2>2, <3>2, <1>4 DEF Shift
  <2>3. ASSUME NEW j \in Step, z = Shift(i, n, j), j = i PROVE z <= i
    BY <2>3, <1>3, <1>4
  <2>4. QED
    BY <1>3, <2>1, <2>2, <2>3
<1>12. Ordered(plan', steps')
  <2> SUFFICES ASSUME NEW y \in Step', NEW z \in Step', y < z, Active(plan'[z], steps'[z])
               PROVE  Passed(steps'[y])
    BY <1>5 DEF Ordered
  <2>1. z <= i
    BY <1>11
  <2>2. y \in 1 .. i - 1 /\ y < i
    BY <2>1, <1>4
  <2>3. QED
    BY <2>2, <1>2, <1>10
<1>13. \A j \in Step : Sound(plan[j], steps[j])
  BY <1>5 DEF RunInv, AllSound
<1>14. Sound(plan[i], steps'[i])
  <2>1. Sound(plan[i], steps[i])
    BY <1>13
  <2>2. QED
    BY <2>1, <1>2, <1>4, <1>6 DEF Sound, Works
<1>15. ASSUME NEW k \in 1 .. n PROVE Sound(plan'[i + k], NewStep)
  BY <1>7, <1>8 DEF Sound
<1>16. AllSound(plan', steps')
  <2> SUFFICES ASSUME NEW y \in Step' PROVE Sound(plan'[y], steps'[y])
    BY <1>5 DEF AllSound
  <2>1. ASSUME NEW j \in Step, y = Shift(i, n, j) PROVE Sound(plan'[y], steps'[y])
    BY <2>1, <1>3, <1>13, <1>14
  <2>2. ASSUME NEW k \in 1 .. n, y = i + k PROVE Sound(plan'[y], steps'[y])
    BY <2>2, <1>3, <1>15
  <2>3. QED
    BY <1>3, <2>1, <2>2
<1>18. Logged(plan', steps', started', log')
  <2> SUFFICES ASSUME NEW y \in Step', steps'[y].ran PROVE plan'[y].id \in started' \/ log' = "broken"
    BY <1>5 DEF Logged
  <2>1. ASSUME NEW j \in Step, y = Shift(i, n, j) PROVE plan'[y].id \in started' \/ log' = "broken"
    <3>1. steps[j].ran
      BY <2>1, <1>3, <1>6
    <3>2. plan[j].id \in started \/ log = "broken"
      BY <3>1, <1>5 DEF RunInv, Logged
    <3>3. QED
      BY <2>1, <3>2, <1>3 DEF Rest
  <2>2. ASSUME NEW k \in 1 .. n, y = i + k PROVE FALSE
    BY <2>2, <1>3, <1>7
  <2>3. QED
    BY <1>3, <2>1, <2>2
<1>19. Untouched(plan', steps')
  <2> SUFFICES ASSUME NEW y \in Step', NEW z \in Step', plan'[y].kind = "phases",
                      steps'[y].status = "pending", y < z
               PROVE  steps'[z].amendments = << >>
    BY <1>5 DEF Untouched
  <2>1. PICK j \in Step : y = Shift(i, n, j)
    <3>1. ASSUME NEW k \in 1 .. n, y = i + k PROVE FALSE
      BY <3>1, <1>8
    <3>2. QED
      BY <3>1, <1>3
  <2>2. plan[j].kind = "phases" /\ steps[j].status = "pending"
    BY <2>1, <1>3, <1>6
  <2>3. ASSUME NEW l \in Step, z = Shift(i, n, l) PROVE steps'[z].amendments = << >>
    <3>1. j < l
      BY <2>1, <2>3, <1>3
    <3>2. steps[l].amendments = << >>
      BY <2>2, <3>1, <1>5 DEF RunInv, Untouched
    <3>3. QED
      BY <2>3, <3>2, <1>3, <1>6
  <2>4. ASSUME NEW k \in 1 .. n, z = i + k PROVE steps'[z].amendments = << >>
    BY <2>4, <1>3, <1>7
  <2>5. QED
    BY <1>3, <2>3, <2>4
<1>20. QED
  BY <1>3, <1>12, <1>16, <1>18, <1>19 DEF EntriesOk

-----------------------------------------------------------------------------
(* The actions, one by one *)

(* A command that ends, or goes on with next, serves no step. *)
LEMMA RestQuiet ==
  ASSUME RunInv, Quiet, current' \in Id \cup {Nil}, call' \in {"none", "next"},
         files' \in [Artifact -> Content \cup {Nil}]
  PROVE  Rest
<1>1. Serves(plan', steps', current', call') /\ SpawnLogged(plan', steps', call', started', log')
  BY DEF Serves, SpawnLogged
<1>2. /\ archive' \in [Handoff -> [1 .. MaxAmendments -> Content \cup {Nil}]]
      /\ log' = log /\ log' \in {"whole", "torn", "broken"}
      /\ started' = started /\ started' \subseteq Id
  BY DEF RunInv, TypeOK, Quiet
<1>3. QED
  BY <1>1, <1>2 DEF Rest, Call

(* Nothing changes but the moment at which the command stands. *)
LEMMA RestKept ==
  ASSUME RunInv, Kept, Quiet, files' \in [Artifact -> Content \cup {Nil}],
         call' \in {"none", "next"}
  PROVE  Does /\ Rest
<1>1. current' \in Id \cup {Nil}
  BY DEF RunInv, TypeOK, Kept
<1>2. QED
  BY <1>1, RestQuiet DEF Does

LEMMA HaltedIs ==
  ASSUME NEW i
  PROVE  isVerdictHalted(i) <=> Halts(steps[i])
  BY DEF isVerdictHalted, Halts

(* Where next arrives, everything in front is passed. *)
LEMMA ReachedFacts ==
  ASSUME RunInv, NEW i \in Step, Reached(i)
  PROVE  /\ \A j \in Step : j < i => Passed(steps[j])
         /\ \A j \in Step : ~Halts(steps[j])
         /\ steps[i].status # "complete" /\ ~Passed(steps[i])
<1>1. \A j \in Step : ~Halts(steps[j])
  BY HaltedIs DEF Reached
<1>2. steps[i].status # "complete" /\ DoneBefore(i)
  BY DEF Reached
<1>3. \A j \in Step : j < i => j \in 1 .. i - 1
  BY StepFacts DEF RunInv
<1>4. QED
  BY <1>1, <1>2, <1>3 DEF Passed, DoneBefore

(* A step under way is an agent or a handoff, and behind passed steps unless  *)
(* it was put there by hand.                                                 *)
LEMMA UnderWay ==
  ASSUME RunInv, NEW i \in Step, steps[i].status = "in_progress"
  PROVE  /\ ~Passed(steps[i]) /\ (IsAgent(i) \/ IsHandoff(i))
         /\ steps[i].taken = FALSE => \A j \in Step : j < i => Passed(steps[j])
<1>1. plan[i].kind \in {"agent", "host-handoff", "gate", "phases"}
  BY StepFacts, StepDefFacts DEF RunInv
<1>2. Sound(plan[i], steps[i])
  BY DEF RunInv, AllSound, Step
<1>3. IsAgent(i) \/ IsHandoff(i)
  BY <1>1, <1>2 DEF Sound, IsAgent, IsHandoff
<1>4. ASSUME steps[i].taken = FALSE PROVE \A j \in Step : j < i => Passed(steps[j])
  <2>1. Active(plan[i], steps[i])
    BY <1>3, <1>4 DEF Active, Works, IsAgent, IsHandoff
  <2>2. QED
    BY <2>1 DEF RunInv, Ordered, Step
<1>5. QED
  BY <1>3, <1>4 DEF Passed

(* The step that next arrived at is the first one not complete.              *)
LEMMA ServedIs ==
  ASSUME TypeOK, PlanOk(plan, successors, steps), NEW i \in Step, ServedAt(plan, steps, i)
  PROVE  Served = i
<1>1. Step \subseteq Nat \ {0}
  BY StepFacts
<1>2. \A j \in Step : j < i => steps[j].status = "complete"
  BY DEF ServedAt, Passed, Step
<1>3. steps[i].status = "in_progress"
  BY DEF ServedAt
<1>4. DoneBefore(i)
  <2>1. \A j \in 1 .. i - 1 : j \in Step /\ j < i
    BY StepFacts
  <2>2. QED
    BY <2>1, <1>2 DEF DoneBefore
<1>5. ASSUME NEW k \in Step, steps[k].status # "complete", DoneBefore(k) PROVE k = i
  <2>1. ~(k < i)
    BY <1>2, <1>5
  <2>2. ~(i < k)
    <3>1. i < k => i \in 1 .. k - 1
      BY <1>1
    <3>2. QED
      BY <3>1, <1>3, <1>5 DEF DoneBefore
  <2>3. QED
    BY <2>1, <2>2, <1>1
<1>6. QED
  BY <1>3, <1>4, <1>5 DEF Served

(* Everything at and behind a step that can be invalidated is taken back.    *)
LEMMA InvalidatedFacts ==
  ASSUME RunInv, NEW p \in Step, Invalidatable(p), NEW keep, keep = 0 \/ keep = p
  PROVE  /\ Invalidated(p, keep) \in [Step -> StepState]
         /\ \A j \in Step :
              LET r == Invalidated(p, keep)[j]
              IN  /\ Sound(plan[j], r) /\ r.ran = steps[j].ran
                  /\ r.amendments = steps[j].amendments /\ r.retries = steps[j].retries
                  /\ j < p \/ j = keep => r = steps[j]
                  /\ j >= p /\ j # keep => r.status \notin {"complete", "in_progress"}
                  /\ j >= p /\ IsPhases(j) => r = steps[j] /\ steps[j].status = "pending"
<1> DEFINE I == Invalidated(p, keep)
           reached == ({p} \cup Behind(p)) \ {keep}
<1>1. Step \subseteq Nat \ {0} /\ Behind(p) = {j \in Step : j > p}
  BY StepFacts DEF RunInv
<1>2. \A j \in Step : j \in reached <=> j >= p /\ j # keep
  BY <1>1
<1>3. I = [j \in Step |-> IF j \in reached /\ steps[j].status \in {"complete", "in_progress"}
                          THEN Outdate(steps[j]) ELSE steps[j]]
  BY DEF Invalidated
<1>4. \A j \in Step : steps[j] \in StepState /\ Sound(plan[j], steps[j])
  BY StepFacts DEF RunInv, AllSound, Step
<1>5. ASSUME NEW j \in Step, j >= p, IsPhases(j) PROVE steps[j].status = "pending"
  <2>1. steps[j].status # "complete"
    BY <1>1, <1>5 DEF Invalidatable
  <2>2. steps[j].status \in {"pending", "complete"}
    BY <1>4, <1>5 DEF Sound, IsPhases
  <2>3. QED
    BY <2>1, <2>2
<1> HIDE DEF reached, I
<1>6. ASSUME NEW j \in Step
      PROVE  /\ I[j] \in StepState
             /\ Sound(plan[j], I[j]) /\ I[j].ran = steps[j].ran
             /\ I[j].amendments = steps[j].amendments /\ I[j].retries = steps[j].retries
             /\ j < p \/ j = keep => I[j] = steps[j]
             /\ j >= p /\ j # keep => I[j].status \notin {"complete", "in_progress"}
             /\ j >= p /\ IsPhases(j) => I[j] = steps[j] /\ steps[j].status = "pending"
  <2>1. CASE j \in reached /\ steps[j].status \in {"complete", "in_progress"}
    <3>1. I[j] = Outdate(steps[j]) /\ j >= p /\ j # keep /\ ~(j < p)
      BY <2>1, <1>1, <1>2, <1>3
    <3>2. ~IsPhases(j) /\ plan[j].kind # "phases"
      BY <2>1, <3>1, <1>5 DEF IsPhases
    <3>3. /\ Outdate(steps[j]) \in StepState /\ Sound(plan[j], Outdate(steps[j]))
          /\ Outdate(steps[j]).status = "stale" /\ Outdate(steps[j]).ran = steps[j].ran
          /\ Outdate(steps[j]).amendments = steps[j].amendments
          /\ Outdate(steps[j]).retries = steps[j].retries
      BY <3>2, <1>4, OutdateFacts
    <3>4. QED
      BY <3>1, <3>2, <3>3
  <2>2. CASE ~(j \in reached /\ steps[j].status \in {"complete", "in_progress"})
    <3>1. I[j] = steps[j]
      BY <2>2, <1>3
    <3>2. QED
      BY <2>2, <3>1, <1>2, <1>4, <1>5
  <2>3. QED
    BY <2>1, <2>2
<1>7. I \in [Step -> StepState]
  BY <1>3, <1>6
<1>8. QED
  BY <1>6, <1>7 DEF I

(* Gates stand behind the work they approve. *)
LEMMA GateBehind ==
  ASSUME TypeOK, PlanOk(plan, successors, steps), NEW g \in Step, IsGate(g),
         NEW p \in Step, IsWork(p), plan[p].artifact = plan[g].artifact
  PROVE  p < g
<1>1. Works(plan[p]) /\ plan[g].kind = "gate"
  BY DEF Works, IsWork, IsAgent, IsHandoff, IsGate
<1>2. QED
  BY <1>1 DEF PlanOk, Conforms, Step

LEMMA PreflightRefusesDoes ==
  ASSUME RunInv, PreflightRefuses
  PROVE  Does /\ Rest
<1>1. /\ call' = "none" /\ Frozen /\ Quiet /\ current' = current /\ files' = files
  BY DEF PreflightRefuses
<1>2. current' \in Id \cup {Nil} /\ files' \in [Artifact -> Content \cup {Nil}]
  BY <1>1 DEF RunInv, TypeOK
<1>3. Rest
  BY <1>1, <1>2, RestQuiet
<1>4. PICK g \in Step :
        /\ Broken(g)
        /\ steps' = IF Producers(plan[g].artifact) # {} /\ Invalidatable(LastOf(Producers(plan[g].artifact)))
                    THEN [Invalidated(LastOf(Producers(plan[g].artifact)), 0) EXCEPT ![g] = Outdate(@)]
                    ELSE steps
  BY DEF PreflightRefuses
<1> DEFINE p == producerForArtifact(plan[g].artifact)
           I == Invalidated(p, 0)
<1>5. CASE Producers(plan[g].artifact) # {} /\ Invalidatable(p)
  <2>1. /\ p \in Step /\ IsWork(p) /\ plan[p].artifact = plan[g].artifact
        /\ steps[p].status = "complete"
    BY <1>5, ProducerFacts DEF RunInv
  <2>2. IsGate(g) /\ p < g
    BY <1>4, <2>1, GateBehind DEF RunInv, Broken
  <2>3. steps' = [I EXCEPT ![g] = Outdate(@)]
    BY <1>4, <1>5 DEF producerForArtifact
  <2>4. Step \subseteq Nat \ {0}
    BY StepFacts DEF RunInv
  <2> HIDE DEF p
  <2>5. /\ I \in [Step -> StepState]
        /\ \A j \in Step :
              /\ Sound(plan[j], I[j]) /\ I[j].ran = steps[j].ran
              /\ I[j].amendments = steps[j].amendments
              /\ j < p => I[j] = steps[j]
              /\ j >= p => I[j].status \notin {"complete", "in_progress"}
              /\ j >= p /\ IsPhases(j) => steps[j].status = "pending"
    BY <1>5, <2>1, <2>4, InvalidatedFacts
  <2> HIDE DEF I
  <2>6. /\ Outdate(I[g]) \in StepState /\ Sound(plan[g], Outdate(I[g]))
        /\ Outdate(I[g]).status = "stale" /\ Outdate(I[g]).ran = I[g].ran
        /\ Outdate(I[g]).amendments = I[g].amendments
    <3>1. plan[g].kind # "phases"
      BY <2>2 DEF IsGate
    <3>2. I[g] \in StepState /\ Sound(plan[g], I[g])
      BY <2>5
    <3>3. QED
      BY <3>1, <3>2, OutdateFacts
  <2>7. /\ steps' \in [Step -> StepState]
        /\ \A j \in Step : j # g => steps'[j] = I[j]
        /\ steps'[g] = Outdate(I[g])
    BY <2>3, <2>5, <2>6
  <2>8. Cut(p)
    <3>1. \A j \in Step : j < p => j # g /\ steps'[j] = steps[j]
      BY <2>2, <2>4, <2>1, <2>5, <2>7
    <3>2. \A j \in Step : j >= p =>
             /\ steps'[j].status \notin {"complete", "in_progress"}
             /\ Sound(plan[j], steps'[j])
             /\ IsPhases(j) => steps[j].status = "pending"
             /\ steps'[j].ran = steps[j].ran
      <4> SUFFICES ASSUME NEW j \in Step, j >= p
                   PROVE  /\ steps'[j].status \notin {"complete", "in_progress"}
                          /\ Sound(plan[j], steps'[j])
                          /\ IsPhases(j) => steps[j].status = "pending"
                          /\ steps'[j].ran = steps[j].ran
        OBVIOUS
      <4>1. CASE j = g
        BY <4>1, <2>5, <2>6, <2>7
      <4>2. CASE j # g
        BY <4>2, <2>5, <2>7
      <4>3. QED
        BY <4>1, <4>2
    <3>3. \A j \in Step : steps'[j].amendments = steps[j].amendments
      BY <2>5, <2>6, <2>7
    <3>4. QED
      BY <1>1, <2>1, <2>7, <3>1, <3>2, <3>3 DEF Cut
  <2>9. QED
    BY <1>3, <2>1, <2>8 DEF Does
<1>6. CASE ~(Producers(plan[g].artifact) # {} /\ Invalidatable(p))
  <2>1. Kept
    BY <1>1, <1>4, <1>6 DEF Kept, Frozen, producerForArtifact
  <2>2. QED
    BY <1>3, <2>1 DEF Does
<1>7. QED
  BY <1>5, <1>6

LEMMA AdvanceStartsDoes ==
  ASSUME RunInv, AdvanceStarts
  PROVE  Does /\ Rest
<1>1. Kept /\ Quiet /\ files' = files /\ call' = "next"
  BY DEF AdvanceStarts, Kept, Frozen
<1>2. QED
  BY <1>1, RestKept DEF RunInv, TypeOK

LEMMA NextStopsDoes ==
  ASSUME RunInv, NextStops
  PROVE  Does /\ Rest
<1>1. Kept /\ Quiet /\ files' = files /\ call' = "none"
  BY DEF NextStops, Kept, Frozen
<1>2. QED
  BY <1>1, RestKept DEF RunInv, TypeOK

LEMMA NextGateDoes ==
  ASSUME RunInv, NEW i \in Step, NextGate(i)
  PROVE  Does /\ Rest
<1>1. Frozen /\ Quiet /\ current' = current /\ files' = files /\ call' = "none"
  BY DEF NextGate
<1>2. Rest
  BY <1>1, RestQuiet DEF RunInv, TypeOK
<1>3. ~Passed(steps[i]) /\ plan[i].kind = "gate"
  BY ReachedFacts DEF NextGate, IsGate
<1>4. steps[i] \in StepState /\ Sound(plan[i], steps[i])
  BY StepFacts DEF RunInv, AllSound, Step
<1> DEFINE r == [steps[i] EXCEPT !.status = "pending", !.approval = Nil]
<1>5. /\ r \in StepState /\ r.status = "pending" /\ r.output = steps[i].output
      /\ r.verdict = steps[i].verdict /\ r.exhausted = steps[i].exhausted
      /\ r.taken = steps[i].taken
      /\ r.ran = steps[i].ran /\ r.amendments = steps[i].amendments
  BY <1>4 DEF StepState
<1>6. steps' = [steps EXCEPT ![i] = r]
  BY DEF NextGate
<1> HIDE DEF r
<1>7. Sound(plan[i], r)
  BY <1>3, <1>4, <1>5 DEF Sound, Works
<1>8. ChangedTo(i, r)
  BY <1>1, <1>3, <1>5, <1>6, <1>7 DEF ChangedTo, Active, Works, IsPhases, IsHandoff
<1>9. QED
  BY <1>2, <1>8 DEF Does, Changed

LEMMA NextPhasesDoes ==
  ASSUME RunInv, NEW i \in Step, NextPhases(i)
  PROVE  Does /\ Rest
<1>1. Kept /\ Quiet /\ files' = files /\ call' = "materialize"
  BY DEF NextPhases, Kept, Frozen
<1>2. plan' = plan /\ steps' = steps /\ current' = current
  BY <1>1 DEF Kept
<1>3. \A j \in Step : ~Halts(steps[j])
  BY ReachedFacts DEF NextPhases
<1>4. Serves(plan', steps', current', call')
  BY <1>1, <1>2, <1>3 DEF Serves, Step
<1>5. Rest
  BY <1>1, <1>2, <1>4 DEF RunInv, TypeOK, Rest, Call, SpawnLogged, Quiet
<1>6. QED
  BY <1>1, <1>5 DEF Does

(* A command that takes up a step under way that next arrived at serves it.  *)
LEMMA HandsOverServes ==
  ASSUME NEW i \in DOMAIN plan', plan'[i].kind = plan[i].kind, steps'[i].status = "in_progress",
         \A j \in DOMAIN plan' : j < i => Passed(steps'[j]), IsAgent(i) \/ IsHandoff(i), HandsOver(i)
  PROVE  Serves(plan', steps', current', call') /\ call' \in Call
         /\ SpawnLogged(plan', steps', call', started', log')
<1>0. ServedAt(plan', steps', i)
  BY DEF ServedAt
<1>1. call' \in {"none", IF IsAgent(i) THEN "dispatch" ELSE "prepare"}
  BY DEF HandsOver
<1>2. CASE call' = "none"
  BY <1>2 DEF Serves, Call, SpawnLogged
<1>3. CASE IsAgent(i) /\ call' = "dispatch"
  BY <1>0, <1>3 DEF Serves, Call, SpawnLogged, IsAgent
<1>4. CASE IsHandoff(i) /\ call' = "prepare"
  BY <1>0, <1>4 DEF Serves, Call, SpawnLogged, IsHandoff
<1>5. QED
  BY <1>1, <1>2, <1>3, <1>4

LEMMA NextInProgressDoes ==
  ASSUME RunInv, NEW i \in Step, NextInProgress(i)
  PROVE  Does /\ Rest
<1>1. /\ Kept /\ Quiet /\ files' = files /\ steps[i].status = "in_progress"
      /\ call' = "none" \/ HandsOver(i)
  BY DEF NextInProgress, Kept, Frozen
<1>2. plan' = plan /\ steps' = steps /\ current' = current
  BY <1>1 DEF Kept
<1>3. (IsAgent(i) \/ IsHandoff(i)) /\ \A j \in Step : j < i => Passed(steps[j])
  BY <1>1, UnderWay, ReachedFacts DEF NextInProgress
<1>4. CASE HandsOver(i)
  <2>1. /\ i \in DOMAIN plan' /\ plan'[i].kind = plan[i].kind
        /\ steps'[i].status = "in_progress" /\ \A j \in DOMAIN plan' : j < i => Passed(steps'[j])
    BY <1>1, <1>2, <1>3 DEF Step
  <2>2. Serves(plan', steps', current', call') /\ call' \in Call
        /\ SpawnLogged(plan', steps', call', started', log')
    BY <2>1, <1>3, <1>4, HandsOverServes
  <2>3. Rest
    BY <1>1, <1>2, <2>2 DEF RunInv, TypeOK, Rest, Quiet
  <2>4. QED
    BY <1>1, <2>3 DEF Does
<1>5. CASE call' = "none"
  BY <1>1, <1>5, RestKept DEF RunInv, TypeOK
<1>6. QED
  BY <1>1, <1>4, <1>5

(* The inputs of a step that starts are those that are there now.            *)
SeenNow(i) == {<<a, files[a]>> : a \in InputArtifacts(i)}

LEMMA StartedFacts ==
  ASSUME RunInv, NEW i \in Step, IsWork(i), NEW r \in StepState, Sound(plan[i], r),
         IsHandoff(i) => r.prepared = FALSE,
         \A a \in InputArtifacts(i) : files[a] # Nil,
         NEW x, x = [r EXCEPT !.status = "in_progress", !.seen = SeenNow(i)]
  PROVE  /\ x \in StepState /\ Sound(plan[i], x) /\ x.status = "in_progress"
         /\ x.ran = r.ran /\ x.amendments = r.amendments
<1> DEFINE S == SeenNow(i)
<1>0. S = {<<a, files[a]>> : a \in InputArtifacts(i)}
  BY DEF SeenNow
<1> HIDE DEF S
<1>1. InputArtifacts(i) \subseteq Artifact
  BY DEF InputArtifacts
<1>2. files \in [Artifact -> Content \cup {Nil}]
  BY DEF RunInv, TypeOK
<1>3. \A a \in InputArtifacts(i) : a \in Artifact /\ files[a] \in Content
  BY <1>1, <1>2
<1>4. S \in SUBSET (Artifact \X Content)
  BY <1>0, <1>3
<1>5. \A y \in S : \E a \in InputArtifacts(i) : y = <<a, files[a]>> /\ y[1] = a
  BY <1>0
<1>6. \A y, z \in S : y[1] = z[1] => y = z
  BY <1>5
<1>7. IsHandoff(i) => \A y \in S : y[1] \in plan[i].inputs
  BY <1>5 DEF InputArtifacts, IsHandoff, IsAgent
<1>8. x = [r EXCEPT !.status = "in_progress", !.seen = S]
  BY DEF S
<1>9. /\ x \in StepState /\ x.status = "in_progress" /\ x.seen = S
      /\ x.ran = r.ran /\ x.amendments = r.amendments /\ x.prepared = r.prepared
      /\ x.taken = r.taken
  BY <1>4, <1>8 DEF StepState
<1>10. Sound(plan[i], x)
  BY <1>6, <1>7, <1>9 DEF Sound, Works, IsWork, IsAgent, IsHandoff
<1>11. QED
  BY <1>9, <1>10

(* A stale step is reopened, or what halts the run is retried.               *)
LEMMA ReopenedFacts ==
  ASSUME NEW s \in StepState, NEW d, d.kind # "phases", Sound(d, s),
         NEW r, r = [Reset(s) EXCEPT !.acked = FALSE]
  PROVE  /\ r \in StepState /\ Sound(d, r) /\ r.prepared = FALSE /\ r.status = "pending"
         /\ r.ran = s.ran /\ r.amendments = s.amendments
<1>1. /\ Reset(s) \in StepState /\ Sound(d, Reset(s)) /\ Reset(s).status = "pending"
      /\ Reset(s).ran = s.ran /\ Reset(s).amendments = s.amendments
      /\ Reset(s).output = Nil /\ Reset(s).seen = {} /\ Reset(s).prepared = FALSE
      /\ Reset(s).verdict = Nil /\ Reset(s).exhausted = FALSE /\ Reset(s).taken = FALSE
  BY ResetFacts
<1> DEFINE q == Reset(s)
<1> HIDE DEF q
<1>2. r = [q EXCEPT !.acked = FALSE] /\ q \in StepState
  BY <1>1 DEF q
<1>3. /\ r \in StepState /\ r.status = q.status /\ r.ran = q.ran /\ r.amendments = q.amendments
      /\ r.output = q.output /\ r.seen = q.seen /\ r.prepared = q.prepared
      /\ r.verdict = q.verdict /\ r.exhausted = q.exhausted /\ r.taken = q.taken
  BY <1>2 DEF StepState
<1>4. /\ r.status = "pending" /\ r.ran = s.ran /\ r.amendments = s.amendments
      /\ r.output = Nil /\ r.seen = {} /\ r.prepared = FALSE
      /\ r.verdict = Nil /\ r.exhausted = FALSE /\ r.taken = FALSE
  BY <1>1, <1>3 DEF q
<1>5. d.kind = "agent" \/ r.ran = FALSE
  BY <1>4 DEF Sound, StepState
<1>6. Sound(d, r)
  BY <1>4, <1>5 DEF Sound
<1>7. QED
  BY <1>3, <1>4, <1>6

LEMMA NextStartsDoes ==
  ASSUME RunInv, NEW i \in Step, NextStarts(i)
  PROVE  Does /\ Rest
<1>1. /\ Frozen /\ Quiet /\ files' = files /\ Reached(i) /\ IsWork(i)
      /\ steps[i].status \in {"pending", "stale"}
  BY DEF NextStarts
<1>2. plan' = plan /\ current \in Id \cup {Nil} /\ plan[i].id \in Id
      /\ files' \in [Artifact -> Content \cup {Nil}]
  BY <1>1, StepFacts, StepDefFacts DEF Frozen, RunInv, TypeOK
<1>3. steps \in [Step -> StepState] /\ steps[i] \in StepState /\ Sound(plan[i], steps[i])
      /\ plan[i].kind # "phases" /\ ~IsPhases(i) /\ ~IsGate(i)
  BY <1>1, StepFacts
     DEF RunInv, TypeOK, AllSound, Step, IsWork, IsAgent, IsHandoff, IsPhases, IsGate
<1>4. ~Passed(steps[i]) /\ \A j \in Step : j < i => Passed(steps[j])
  BY <1>1, ReachedFacts
<1> DEFINE r == IF steps[i].status = "stale" THEN [Reset(steps[i]) EXCEPT !.acked = FALSE] ELSE steps[i]
<1>5. /\ r \in StepState /\ Sound(plan[i], r) /\ r.status = "pending"
      /\ r.ran = steps[i].ran /\ r.amendments = steps[i].amendments
      /\ IsHandoff(i) => r.prepared = FALSE
  <2>1. CASE steps[i].status = "stale"
    <3>1. r = [Reset(steps[i]) EXCEPT !.acked = FALSE]
      BY <2>1
    <3> HIDE DEF r
    <3>2. QED
      BY <3>1, <1>3, ReopenedFacts
  <2>2. CASE steps[i].status = "pending"
    <3>1. r = steps[i]
      BY <2>2
    <3>2. IsHandoff(i) => r.prepared = FALSE
      BY <3>1, <2>2, <1>3 DEF Sound, IsHandoff, StepState
    <3>3. QED
      BY <3>1, <3>2, <2>2, <1>3
  <2>3. QED
    BY <2>1, <2>2, <1>1
<1>6. CASE \A a \in InputArtifacts(i) : files[a] # Nil
  <2> DEFINE x == [r EXCEPT !.status = "in_progress", !.seen = SeenNow(i)]
  <2>1. steps' = [steps EXCEPT ![i] = x] /\ current' = plan[i].id /\ HandsOver(i)
    BY <1>1, <1>6 DEF NextStarts, SeenNow
  <2> HIDE DEF r
  <2>2. /\ x \in StepState /\ Sound(plan[i], x) /\ x.status = "in_progress"
        /\ x.ran = r.ran /\ x.amendments = r.amendments
    <3>1. x = [r EXCEPT !.status = "in_progress", !.seen = SeenNow(i)]
      OBVIOUS
    <3> HIDE DEF x
    <3>2. IsWork(i) /\ r \in StepState /\ Sound(plan[i], r) /\ (IsHandoff(i) => r.prepared = FALSE)
      BY <1>1, <1>5
    <3>3. QED
      BY <3>1, <3>2, <1>6, StartedFacts, ZenonT(40)
  <2> HIDE DEF x
  <2>3. ChangedTo(i, x)
    BY <1>1, <1>3, <1>4, <1>5, <2>1, <2>2 DEF ChangedTo
  <2>4. Serves(plan', steps', current', call') /\ call' \in Call
        /\ SpawnLogged(plan', steps', call', started', log')
    <3>1. /\ i \in DOMAIN plan' /\ plan'[i].kind = plan[i].kind
          /\ steps'[i].status = "in_progress"
          /\ \A j \in DOMAIN plan' : j < i => Passed(steps'[j])
      <4>1. steps'[i] = x /\ \A j \in Step : j # i => steps'[j] = steps[j]
        BY <1>3, <2>1
      <4>2. \A j \in Step : j < i => j # i
        BY StepFacts DEF RunInv
      <4>3. QED
        BY <1>2, <1>4, <2>2, <4>1, <4>2 DEF Step
    <3>2. IsAgent(i) \/ IsHandoff(i)
      BY <1>1 DEF IsWork
    <3>3. QED
      BY <3>1, <3>2, <2>1, HandsOverServes
  <2>5. Rest
    BY <1>1, <1>2, <2>1, <2>4 DEF RunInv, TypeOK, Rest, Quiet
  <2>6. QED
    BY <2>3, <2>5 DEF Does, Changed
<1>7. CASE ~(\A a \in InputArtifacts(i) : files[a] # Nil)
  <2>1. /\ steps' = [steps EXCEPT ![i] = r] /\ call' = "none"
        /\ current' = IF steps[i].status = "stale" /\ current = plan[i].id THEN Nil ELSE current
    BY <1>1, <1>7 DEF NextStarts
  <2> HIDE DEF r
  <2>2. ChangedTo(i, r)
    <3>1. ~Active(plan[i], r)
      BY <1>3, <1>5 DEF Active
    <3>2. steps[i].status # "complete"
      BY <1>1
    <3>3. QED
      BY <1>1, <1>3, <1>4, <1>5, <2>1, <3>1, <3>2 DEF ChangedTo
  <2>3. Rest
    BY <1>1, <1>2, <2>1, RestQuiet
  <2>4. QED
    BY <2>2, <2>3 DEF Does, Changed
<1>8. QED
  BY <1>6, <1>7

LEMMA MaterializeDoes ==
  ASSUME RunInv, NEW i \in Step, Materialize(i)
  PROVE  Does /\ Rest
<1> DEFINE m == files[plan[i].artifact]
           new == Generated[plan[i]][m]
<1>1. /\ Quiet /\ current' = current /\ files' = files /\ call' \in {"none", "next"}
  BY DEF Materialize
<1>2. Rest
  BY <1>1, RestQuiet DEF RunInv, TypeOK
<1>3. \A j \in Step : j < i => Passed(steps[j])
  <2>1. \A j \in Step : ~Halts(steps[j])
    BY DEF RunInv, Serves, Materialize, Step
  <2>2. \A j \in Step : j < i => j \in 1 .. i - 1
    BY StepFacts DEF RunInv
  <2>3. QED
    BY <2>1, <2>2 DEF Materialize, DoneBefore, Passed
<1>4. CASE ApprovedAsRead(i) /\ m \in Manifest
  <2>1. /\ plan' = Before(plan, i) \o <<plan[i]>> \o new \o After(plan, i)
        /\ steps' = Before(steps, i)
                    \o <<[steps[i] EXCEPT !.status = "complete", !.manifest = m]>>
                    \o [k \in DOMAIN new |-> NewStep] \o After(steps, i)
        /\ successors' = Spliced(i, new)
    BY <1>4 DEF Materialize
  <2>2. plan' = GrownPlan(i, new) /\ steps' = GrownTable(i, new, m)
    BY <2>1 DEF GrownPlan, GrownTable, Made1
  <2>3. IsPhases(i) /\ steps[i].status = "pending"
    BY DEF Materialize
  <2>4. Grows(i)
    BY <1>1, <1>3, <1>4, <2>1, <2>2, <2>3 DEF Grows
  <2>5. QED
    BY <1>2, <2>4 DEF Does
<1>5. CASE ~(ApprovedAsRead(i) /\ m \in Manifest)
  <2>1. Kept
    BY <1>1, <1>5 DEF Materialize, Kept, Frozen
  <2>2. QED
    BY <1>2, <2>1 DEF Does
<1>6. QED
  BY <1>4, <1>5

-----------------------------------------------------------------------------
(* The end of the step under way *)

LEMMA CompletesDoes ==
  ASSUME RunInv, NEW i \in Step, steps[i].status = "in_progress",
         NEW f \in [Artifact -> Content \cup {Nil}], NEW b \in {"none", "next"}, Completes(i, f, b)
  PROVE  Does /\ Rest
<1> DEFINE c == f[plan[i].artifact]
           v == IF Policied(i) THEN VerdictOf[c] ELSE Nil
           e == v = "CHANGES_REQUESTED" /\ ~RetryDue(i, v)
           r == [steps[i] EXCEPT !.status = "complete", !.output = c, !.verdict = v,
                                 !.external = FALSE, !.exhausted = e]
<1>1. /\ c # Nil /\ (Policied(i) => c \in DOMAIN VerdictOf)
      /\ steps' = [steps EXCEPT ![i] = r]
      /\ files' = f
      /\ call' = IF Policied(i) /\ RetryDue(i, v) THEN "retry" ELSE b
      /\ Frozen /\ Quiet /\ current' = current
  BY DEF Completes
<1>2. /\ current = plan[i].id /\ ~Passed(steps[i]) /\ IsWork(i)
      /\ steps[i].taken = FALSE => \A j \in Step : j < i => Passed(steps[j])
  BY UnderWay DEF IsWork, Completes
<1>3. c \in Content
  <2>1. plan[i].artifact \in Artifact
    BY StepFacts, StepDefFacts DEF RunInv
  <2>2. QED
    BY <1>1, <2>1
<1>4. v \in {"APPROVED", "CHANGES_REQUESTED", "BLOCKED", Nil}
  BY <1>1, PhasesAssumption
<1>5. e \in BOOLEAN
  OBVIOUS
<1>6. steps \in [Step -> StepState] /\ steps[i] \in StepState /\ Sound(plan[i], steps[i])
  BY StepFacts DEF RunInv, TypeOK, AllSound, Step
<1>0. c = files'[plan[i].artifact]
  BY <1>1
<1> HIDE DEF e, c
<1>7. /\ r \in StepState /\ r.status = "complete" /\ r.output = c /\ r.retries = steps[i].retries
      /\ r.prepared = steps[i].prepared /\ r.seen = steps[i].seen /\ r.announced = steps[i].announced
      /\ r.ran = steps[i].ran /\ r.amendments = steps[i].amendments /\ r.taken = steps[i].taken
  <2> DEFINE s == steps[i]
  <2>1. s \in StepState /\ r = [s EXCEPT !.status = "complete", !.output = c, !.verdict = v,
                                          !.external = FALSE, !.exhausted = e]
    BY <1>6
  <2> HIDE DEF v, r, s
  <2>2. /\ r \in StepState /\ r.status = "complete" /\ r.output = c /\ r.retries = s.retries
        /\ r.prepared = s.prepared /\ r.seen = s.seen /\ r.announced = s.announced
        /\ r.ran = s.ran /\ r.amendments = s.amendments /\ r.taken = s.taken
    BY <2>1, <1>3, <1>4, <1>5 DEF StepState
  <2>3. QED
    BY <2>2 DEF s
<1> HIDE DEF r
<1>8. Sound(plan[i], r)
  BY <1>1, <1>2, <1>6, <1>7 DEF Sound, Works, IsWork, IsAgent, IsHandoff
<1>9. ChangedTo(i, r)
  <2>1. Active(plan[i], r) => \A j \in Step : j < i => Passed(steps[j])
    BY <1>2, <1>7 DEF Active, Works, IsWork, IsAgent, IsHandoff
  <2>2. QED
    BY <1>0, <1>1, <1>2, <1>6, <1>7, <1>8, <2>1 DEF ChangedTo, IsWork, IsAgent, IsHandoff, IsGate, IsPhases
<1>10. plan' = plan /\ steps'[i] = r
  BY <1>1, <1>6 DEF Frozen
<1>11. Serves(plan', steps', current', call') /\ call' \in Call /\ call' # "spawn"
  <2>1. CASE Policied(i) /\ RetryDue(i, v)
    <3>1. call' = "retry"
      BY <1>1, <2>1
    <3>2. /\ i \in DOMAIN plan' /\ plan'[i].id = current' /\ plan'[i].policy
          /\ steps'[i].status = "complete" /\ steps'[i].retries < plan'[i].budget
      BY <1>1, <1>2, <1>7, <1>10, <2>1 DEF Policied, RetryDue, Step
    <3>3. QED
      BY <3>1, <3>2 DEF Serves, Call
  <2>2. CASE ~(Policied(i) /\ RetryDue(i, v))
    <3>1. call' = b
      BY <1>1, <2>2
    <3>2. QED
      BY <3>1 DEF Serves, Call
  <2>3. QED
    BY <2>1, <2>2
<1>12. Rest
  BY <1>1, <1>11 DEF RunInv, TypeOK, Rest, SpawnLogged, Quiet
<1>13. QED
  BY <1>9, <1>12 DEF Does, Changed

LEMMA FailsDoes ==
  ASSUME RunInv, NEW i \in Step, steps[i].status = "in_progress",
         NEW f \in [Artifact -> Content \cup {Nil}], Fails(i, f)
  PROVE  Does /\ Rest
<1> DEFINE r == [steps[i] EXCEPT !.status = "failed", !.taken = FALSE]
<1>1. /\ steps' = [steps EXCEPT ![i] = r]
      /\ files' = f /\ call' = "none"
      /\ Frozen /\ Quiet /\ current' = current
  BY DEF Fails
<1>2. Rest
  BY <1>1, RestQuiet DEF RunInv, TypeOK
<1>3. ~Passed(steps[i]) /\ IsWork(i)
  BY UnderWay DEF IsWork
<1>4. steps[i] \in StepState /\ Sound(plan[i], steps[i])
  BY StepFacts DEF RunInv, TypeOK, AllSound, Step
<1>5. /\ r \in StepState /\ r.status = "failed" /\ r.seen = steps[i].seen /\ r.taken = FALSE
      /\ r.ran = steps[i].ran /\ r.amendments = steps[i].amendments
  BY <1>4 DEF StepState
<1> HIDE DEF r
<1>6. Sound(plan[i], r)
  BY <1>3, <1>4, <1>5 DEF Sound, Works, IsWork, IsAgent, IsHandoff
<1>7. ChangedTo(i, r)
  BY <1>1, <1>3, <1>5, <1>6
     DEF ChangedTo, Active, IsWork, IsAgent, IsHandoff, IsGate, IsPhases
<1>8. QED
  BY <1>2, <1>7 DEF Does, Changed

-----------------------------------------------------------------------------
(* advance executes an agent step *)

(* The step that a command at dispatch, spawn or agent serves. *)
LEMMA ServedFacts ==
  ASSUME RunInv, call \in {"dispatch", "spawn", "agent"}
  PROVE  /\ Served \in Step /\ plan[Served].kind = "agent" /\ steps[Served].status = "in_progress"
         /\ \A j \in Step : j < Served => Passed(steps[j])
<1>1. PICK i \in Step : plan[i].kind = "agent" /\ ServedAt(plan, steps, i)
  BY DEF RunInv, Serves, Step
<1>2. Served = i
  BY <1>1, ServedIs DEF RunInv
<1>3. QED
  BY <1>1, <1>2 DEF ServedAt, Step

LEMMA FilesType ==
  ASSUME TypeOK, NEW a, NEW c \in Content \cup {Nil}
  PROVE  [files EXCEPT ![a] = c] \in [Artifact -> Content \cup {Nil}]
  BY DEF TypeOK

LEMMA WrittenType ==
  ASSUME TypeOK, PlanOk(plan, successors, steps), NEW i \in Step
  PROVE  Writes[plan[i].artifact] \subseteq Content
<1>1. plan[i].artifact \in Artifact
  BY StepFacts, StepDefFacts
<1>2. QED
  BY <1>1, PhasesAssumption

LEMMA AdvanceReusesDoes ==
  ASSUME RunInv, AdvanceReuses
  PROVE  Does /\ Rest
<1>1. call = "dispatch" /\ (Completes(Served, files, "next") \/ Fails(Served, files))
  BY DEF AdvanceReuses
<1>2. Served \in Step /\ steps[Served].status = "in_progress"
  BY <1>1, ServedFacts
<1>3. files \in [Artifact -> Content \cup {Nil}]
  BY DEF RunInv, TypeOK
<1> HIDE DEF Served
<1>4. QED
  BY <1>1, <1>2, <1>3, CompletesDoes, FailsDoes

LEMMA AdvanceLogsDoes ==
  ASSUME RunInv, AdvanceLogs
  PROVE  Does /\ Rest
<1>1. /\ call = "dispatch" /\ Frozen /\ UNCHANGED <<steps, current, files, archive>>
      /\ started' = (IF log = "whole" THEN started \cup {plan[Served].id} ELSE started)
      /\ log' = (IF log = "whole" THEN "whole" ELSE "broken")
      /\ call' = "spawn"
  BY DEF AdvanceLogs
<1>2. Kept
  BY <1>1 DEF Kept, Frozen
<1>3. Served \in Step
  BY <1>1, ServedFacts
<1>4. plan' = plan /\ steps' = steps /\ current' = current
  BY <1>2 DEF Kept
<1>5. Serves(plan', steps', current', call')
  BY <1>1, <1>4 DEF RunInv, Serves
<1>6. plan[Served].id \in Id
  <2>1. plan[Served] \in StepDef
    BY <1>3, StepFacts DEF RunInv
  <2>2. QED
    BY <2>1, StepDefFacts
<1>7. \A i \in Step : ServedAt(plan, steps, i) => i = Served
  BY ServedIs DEF RunInv
<1> HIDE DEF Served
<1>8. /\ started' \subseteq Id /\ started \subseteq started'
      /\ log' \in {"whole", "torn", "broken"} /\ (log = "broken" => log' = "broken")
      /\ plan[Served].id \in started' \/ log' = "broken"
  BY <1>1, <1>6 DEF RunInv, TypeOK
<1>9. SpawnLogged(plan', steps', call', started', log')
  BY <1>4, <1>7, <1>8 DEF SpawnLogged, Step
<1>10. Rest
  BY <1>1, <1>4, <1>5, <1>8, <1>9 DEF RunInv, TypeOK, Rest, Call
<1>11. QED
  BY <1>2, <1>10 DEF Does

LEMMA AdvanceSpawnsDoes ==
  ASSUME RunInv, AdvanceSpawns
  PROVE  Does /\ Rest
<1>1. /\ call = "spawn" /\ Frozen /\ Quiet /\ current' = current /\ files' = files
      /\ steps' = [steps EXCEPT ![Served].ran = TRUE] /\ call' = "agent"
  BY DEF AdvanceSpawns
<1> DEFINE i == Served
           r == [steps[i] EXCEPT !.ran = TRUE]
<1>2. steps' = [steps EXCEPT ![i] = r]
  BY <1>1
<1>3. /\ i \in Step /\ plan[i].kind = "agent" /\ steps[i].status = "in_progress"
      /\ \A j \in Step : j < i => Passed(steps[j])
  BY <1>1, ServedFacts
<1> HIDE DEF i
<1>4. plan[i].id \in started \/ log = "broken"
  <2>1. ServedAt(plan, steps, i)
    BY <1>3 DEF ServedAt, Step
  <2>2. QED
    BY <1>1, <1>3, <2>1 DEF RunInv, SpawnLogged, Step
<1>5. ~Passed(steps[i])
  BY <1>3, UnderWay
<1>6. steps \in [Step -> StepState] /\ steps[i] \in StepState /\ Sound(plan[i], steps[i])
      /\ Step \subseteq Nat
  BY <1>3, StepFacts DEF RunInv, TypeOK, AllSound, Step
<1>7. r \in StepState /\ r.status = "in_progress" /\ r.amendments = steps[i].amendments
  BY <1>3, <1>6 DEF StepState
<1> HIDE DEF r
<1>8. Sound(plan[i], r)
  BY <1>3, <1>7 DEF Sound, Works
<1>9. ChangedTo(i, r)
  BY <1>1, <1>2, <1>3, <1>4, <1>5, <1>7, <1>8 DEF ChangedTo, IsPhases, IsHandoff, IsGate
<1>10. Serves(plan', steps', current', call')
  <2>1. /\ i \in DOMAIN plan' /\ plan'[i].kind = "agent" /\ steps'[i].status = "in_progress"
        /\ \A j \in DOMAIN plan' : j < i => Passed(steps'[j])
    <3>1. plan' = plan /\ \A j \in Step : j < i => j # i
      BY <1>1, <1>3, <1>6 DEF Frozen
    <3>2. steps'[i] = r /\ \A j \in Step : j # i => steps'[j] = steps[j]
      BY <1>2, <1>3, <1>6
    <3>3. QED
      BY <1>3, <1>7, <3>1, <3>2 DEF Step
  <2>2. QED
    BY <2>1, <1>1 DEF Serves, ServedAt
<1>11. Rest
  BY <1>1, <1>10 DEF RunInv, TypeOK, Rest, Call, SpawnLogged, Quiet
<1>12. QED
  BY <1>3, <1>9, <1>11 DEF Does, Changed

LEMMA AgentReturnsDoes ==
  ASSUME RunInv, AgentReturns
  PROVE  Does /\ Rest
<1>1. call = "agent"
  BY DEF AgentReturns
<1>2. Served \in Step /\ steps[Served].status = "in_progress"
  BY <1>1, ServedFacts
<1>3. PICK c \in Writes[plan[Served].artifact] :
         \/ \E b \in {"none", "next"} : Completes(Served, Publish(Served, c), b)
         \/ Fails(Served, Publish(Served, c))
  BY DEF AgentReturns
<1>4. Publish(Served, c) \in [Artifact -> Content \cup {Nil}]
  <2>1. c \in Content
    BY <1>2, <1>3, WrittenType DEF RunInv
  <2>2. [files EXCEPT ![plan[Served].artifact] = c] \in [Artifact -> Content \cup {Nil}]
    BY <2>1, FilesType DEF RunInv
  <2>3. QED
    BY <2>2 DEF Publish
<1> DEFINE f == Publish(Served, c)
<1> HIDE DEF Served
<1>5. f \in [Artifact -> Content \cup {Nil}]
  BY <1>4
<1>6. (\E b \in {"none", "next"} : Completes(Served, f, b)) \/ Fails(Served, f)
  BY <1>3
<1> HIDE DEF f
<1>7. ASSUME NEW b \in {"none", "next"}, Completes(Served, f, b) PROVE Does /\ Rest
  BY <1>2, <1>5, <1>7, CompletesDoes
<1>8. ASSUME Fails(Served, f) PROVE Does /\ Rest
  BY <1>2, <1>5, <1>8, FailsDoes
<1>9. QED
  BY <1>6, <1>7, <1>8

LEMMA AgentFailsDoes ==
  ASSUME RunInv, AgentFails
  PROVE  Does /\ Rest
<1>1. call \in {"dispatch", "spawn", "agent"} /\ Fails(Served, files)
  BY DEF AgentFails
<1>2. Served \in Step /\ steps[Served].status = "in_progress"
  BY <1>1, ServedFacts
<1>3. files \in [Artifact -> Content \cup {Nil}]
  BY DEF RunInv, TypeOK
<1> HIDE DEF Served
<1>4. QED
  BY <1>1, <1>2, <1>3, FailsDoes

-----------------------------------------------------------------------------
(* The retry that a verdict asks for *)

LEMMA CountedFacts ==
  ASSUME NEW s \in StepState, NEW d, Sound(d, s), NEW r, r = [s EXCEPT !.retries = @ + 1]
  PROVE  /\ r \in StepState /\ Sound(d, r) /\ r.status = s.status /\ r.ran = s.ran
         /\ r.amendments = s.amendments
<1>1. /\ r \in StepState /\ r.status = s.status /\ r.ran = s.ran /\ r.amendments = s.amendments
      /\ r.approval = s.approval /\ r.manifest = s.manifest /\ r.output = s.output
      /\ r.prepared = s.prepared /\ r.seen = s.seen /\ r.announced = s.announced
      /\ r.verdict = s.verdict /\ r.exhausted = s.exhausted /\ r.taken = s.taken
  BY DEF StepState
<1>2. Sound(d, r)
  BY <1>1 DEF Sound
<1>3. QED
  BY <1>1, <1>2

(* The step the verdict sends back to is work in front of it. *)
LEMMA RetryTarget ==
  ASSUME RunInv, call = "retry", NEW t, t = IndexOf(plan[Cur].retryFrom)
  PROVE  Cur \in Step /\ t \in Step /\ t < Cur /\ IsWork(t) /\ IsAgent(Cur)
<1>1. PICK i \in Step : /\ plan[i].id = current /\ plan[i].policy
                        /\ steps[i].status = "complete" /\ steps[i].retries < plan[i].budget
  BY DEF RunInv, Serves, Step
<1>2. Cur = i
  BY <1>1, IndexFacts DEF RunInv, Cur
<1>3. plan[i].budget > 0
  <2>1. plan[i].budget \in Nat
    BY StepFacts, StepDefFacts DEF RunInv
  <2>2. steps[i].retries \in Nat
    BY StepFacts DEF RunInv, StepState
  <2>3. QED
    BY <1>1, <2>1, <2>2
<1>4. /\ plan[i].kind = "agent"
      /\ \E j \in 1 .. i - 1 : plan[j].id = plan[i].retryFrom /\ Works(plan[j])
  BY <1>1, <1>3 DEF RunInv, PlanOk, Conforms, Step
<1>5. PICK j \in 1 .. i - 1 : plan[j].id = plan[i].retryFrom /\ Works(plan[j])
  BY <1>4
<1>6. j \in Step /\ j < i
  BY StepFacts DEF RunInv
<1>7. t = j
  BY <1>2, <1>5, <1>6, IndexFacts DEF RunInv
<1>8. QED
  BY <1>2, <1>4, <1>5, <1>6, <1>7 DEF IsWork, IsAgent, IsHandoff, Works

LEMMA RetriedCut ==
  ASSUME RunInv, Frozen, NEW t \in Step, IsWork(t), Invalidatable(t),
         NEW c \in Step, IsAgent(c), t < c, steps' = Retried(t, c)
  PROVE  Cut(t)
<1> DEFINE I == Invalidated(t, 0)
           again(j) == j = t \/ (IsAgent(j) /\ I[j].status = "stale" /\ steps[j].status # "stale")
           R(j) == IF again(j) THEN Reset(I[j]) ELSE I[j]
           A(j) == IF j = c THEN [R(j) EXCEPT !.retries = @ + 1] ELSE R(j)
<1>1. steps' = [j \in Step |-> A(j)]
  BY DEF Retried
<1>2. Step \subseteq Nat \ {0}
  BY StepFacts DEF RunInv
<1>3. /\ I \in [Step -> StepState]
      /\ \A j \in Step :
            /\ Sound(plan[j], I[j]) /\ I[j].ran = steps[j].ran
            /\ I[j].amendments = steps[j].amendments
            /\ j < t => I[j] = steps[j]
            /\ j >= t => I[j].status \notin {"complete", "in_progress"}
            /\ j >= t /\ IsPhases(j) => steps[j].status = "pending"
  BY <1>2, InvalidatedFacts
<1> HIDE DEF I
<1>4. ASSUME NEW j \in Step
      PROVE  /\ R(j) \in StepState /\ Sound(plan[j], R(j)) /\ R(j).ran = steps[j].ran
             /\ R(j).amendments = steps[j].amendments
             /\ j < t => R(j) = steps[j]
             /\ j >= t => R(j).status \notin {"complete", "in_progress"}
  <2>1. I[j] \in StepState /\ j \in Nat /\ t \in Nat
    BY <1>2, <1>3
  <2>2. CASE again(j)
    <3>1. R(j) = Reset(I[j])
      BY <2>2
    <3>2. ~(j < t)
      <4>1. j < t => I[j] = steps[j] /\ j # t
        BY <1>3, <2>1
      <4>2. QED
        BY <2>2, <4>1
    <3>3. plan[j].kind # "phases"
      BY <2>2 DEF IsAgent, IsWork, IsHandoff
    <3>4. Sound(plan[j], I[j])
      BY <1>3
    <3>5. /\ Reset(I[j]) \in StepState /\ Sound(plan[j], Reset(I[j]))
          /\ Reset(I[j]).status = "pending" /\ Reset(I[j]).ran = I[j].ran
          /\ Reset(I[j]).amendments = I[j].amendments
      BY <2>1, <3>3, <3>4, ResetFacts
    <3> HIDE DEF R
    <3>6. QED
      BY <1>3, <3>1, <3>2, <3>5
  <2>3. CASE ~again(j)
    <3>1. R(j) = I[j]
      BY <2>3
    <3> HIDE DEF R
    <3>2. QED
      BY <1>3, <2>1, <3>1
  <2>4. QED
    BY <2>2, <2>3
<1> HIDE DEF R
<1>5. ASSUME NEW j \in Step
      PROVE  /\ A(j) \in StepState /\ Sound(plan[j], A(j)) /\ A(j).ran = steps[j].ran
             /\ A(j).amendments = steps[j].amendments
             /\ j < t => A(j) = steps[j]
             /\ j >= t => A(j).status \notin {"complete", "in_progress"}
  <2>1. CASE j = c
    <3>1. A(j) = [R(j) EXCEPT !.retries = @ + 1]
      BY <2>1
    <3>2. R(j) \in StepState /\ Sound(plan[j], R(j))
      BY <1>4
    <3>3. ~(j < t)
      BY <2>1, <1>2
    <3> HIDE DEF A
    <3>4. /\ A(j) \in StepState /\ Sound(plan[j], A(j)) /\ A(j).status = R(j).status
          /\ A(j).ran = R(j).ran /\ A(j).amendments = R(j).amendments
      BY <3>1, <3>2, CountedFacts
    <3>5. QED
      BY <1>4, <3>3, <3>4
  <2>2. CASE j # c
    <3>1. A(j) = R(j)
      BY <2>2
    <3> HIDE DEF A
    <3>2. QED
      BY <1>4, <3>1
  <2>3. QED
    BY <2>1, <2>2
<1> HIDE DEF A
<1>6. steps' \in [Step -> StepState] /\ \A j \in Step : steps'[j] = A(j)
  BY <1>1, <1>5
<1>7. QED
  BY <1>3, <1>5, <1>6 DEF Cut

LEMMA ApplyVerdictRetryDoes ==
  ASSUME RunInv, ApplyVerdictRetry
  PROVE  Does /\ Rest
<1> DEFINE t == IndexOf(plan[Cur].retryFrom)
<1>1. /\ call = "retry" /\ Frozen /\ Quiet
      /\ files' = [a \in Artifact |->
             IF \E j \in {t} \cup Behind(t) : IsAgent(j) /\ plan[j].internal /\ plan[j].artifact = a
             THEN Nil ELSE files[a]]
      /\ \/ /\ Invalidatable(t)
            /\ steps' = Retried(t, Cur)
            /\ current' = Nil
            /\ call' \in {"none", "next"}
         \/ call' = "none" /\ UNCHANGED <<steps, current>>
  BY DEF ApplyVerdictRetry, RetriesVerdict
<1>2. Cur \in Step /\ t \in Step /\ t < Cur /\ IsWork(t) /\ IsAgent(Cur)
  BY <1>1, RetryTarget
<1> HIDE DEF t
<1>3. files' \in [Artifact -> Content \cup {Nil}]
  <2>1. files \in [Artifact -> Content \cup {Nil}]
    BY DEF RunInv, TypeOK
  <2> DEFINE gone(a) == \E j \in {t} \cup Behind(t) :
                          IsAgent(j) /\ plan[j].internal /\ plan[j].artifact = a
  <2>2. files' = [a \in Artifact |-> IF gone(a) THEN Nil ELSE files[a]]
    BY <1>1
  <2> HIDE DEF gone
  <2>3. QED
    BY <2>1, <2>2
<1>4. Rest
  <2>1. current' \in Id \cup {Nil} /\ call' \in {"none", "next"}
    BY <1>1 DEF RunInv, TypeOK
  <2>2. QED
    BY <1>1, <1>3, <2>1, RestQuiet
<1>5. CASE Invalidatable(t) /\ steps' = Retried(t, Cur)
  <2>1. steps' = Retried(t, Cur)
    BY <1>5
  <2> HIDE DEF Cur
  <2>2. Cut(t)
    BY <1>1, <1>2, <1>5, <2>1, RetriedCut
  <2>3. QED
    BY <1>2, <1>4, <2>2 DEF Does
<1>6. CASE UNCHANGED <<steps, current>>
  <2>1. Kept
    BY <1>1, <1>6 DEF Kept, Frozen
  <2>2. QED
    BY <1>4, <2>1 DEF Does
<1>7. QED
  BY <1>1, <1>5, <1>6

LEMMA RetryLostDoes ==
  ASSUME RunInv, RetryLost
  PROVE  Does /\ Rest
<1>1. Kept /\ Quiet /\ files' = files /\ call' = "none"
  BY DEF RetryLost, Kept, Frozen
<1>2. QED
  BY <1>1, RestKept DEF RunInv, TypeOK

-----------------------------------------------------------------------------
(* Host handoffs *)

LEMMA PrepareHandoffDoes ==
  ASSUME RunInv, PrepareHandoff
  PROVE  Does /\ Rest
<1>1. /\ call = "prepare" /\ call' = "none" /\ Frozen /\ Quiet
      /\ current' = current /\ files' = files
  BY DEF PrepareHandoff
<1>2. files' \in [Artifact -> Content \cup {Nil}] /\ current' \in Id \cup {Nil}
  BY <1>1 DEF RunInv, TypeOK
<1>3. PICK k \in Step : plan[k].kind = "host-handoff" /\ ServedAt(plan, steps, k)
  BY <1>1 DEF RunInv, Serves, Step
<1>4. /\ Served = k /\ ~Passed(steps[k]) /\ \A j \in Step : j < k => Passed(steps[j])
      /\ steps[k].status = "in_progress"
  BY <1>3, ServedIs DEF RunInv, ServedAt, Passed, Step
<1>5. steps \in [Step -> StepState] /\ steps[k] \in StepState /\ Sound(plan[k], steps[k])
  BY StepFacts DEF RunInv, TypeOK, AllSound, Step
<1>6. CASE InputsAsRecorded(k)
  <2> DEFINE G == {<<a, files[a]>> : a \in plan[k].inputs}
             r == [steps[k] EXCEPT !.prepared = TRUE, !.announced = G]
  <2>1. steps' = [steps EXCEPT ![k] = r]
    BY <1>4, <1>6 DEF PrepareHandoff
  <2>2. \A a \in plan[k].inputs : <<a, files[a]>> \in steps[k].seen
    BY <1>6 DEF InputsAsRecorded
  <2>3. G = steps[k].seen
    <3>1. \A x \in steps[k].seen : x[1] \in plan[k].inputs
      BY <1>3, <1>5 DEF Sound
    <3>2. \A x, y \in steps[k].seen : x[1] = y[1] => x = y
      BY <1>3, <1>5 DEF Sound
    <3>3. ASSUME NEW x \in steps[k].seen PROVE x \in G
      <4>1. x[1] \in plan[k].inputs
        BY <3>1
      <4>2. <<x[1], files[x[1]]>> \in steps[k].seen
        BY <2>2, <4>1
      <4>3. <<x[1], files[x[1]]>> = x
        <5> DEFINE y == <<x[1], files[x[1]]>>
        <5>1. y \in steps[k].seen /\ y[1] = x[1]
          BY <4>2
        <5> HIDE DEF y
        <5>2. y = x
          BY <3>2, <5>1
        <5>3. QED
          BY <5>2 DEF y
      <4>4. QED
        BY <4>1, <4>3
    <3>4. \A y \in G : y \in steps[k].seen
      BY <2>2
    <3>5. QED
      BY <3>3, <3>4
  <2> HIDE DEF G
  <2>4. /\ r \in StepState /\ r.status = "in_progress" /\ r.announced = r.seen
        /\ r.seen = steps[k].seen /\ r.ran = steps[k].ran /\ r.amendments = steps[k].amendments
    BY <1>4, <1>5, <2>3 DEF StepState
  <2>0. r.taken = steps[k].taken
    BY <1>5 DEF StepState
  <2> HIDE DEF r
  <2>5. Sound(plan[k], r)
    BY <1>3, <1>4, <1>5, <2>0, <2>4 DEF Sound, Works
  <2>6. ChangedTo(k, r)
    BY <1>1, <1>3, <1>4, <2>1, <2>4, <2>5 DEF ChangedTo, IsPhases, IsGate
  <2>7. QED
    BY <1>1, <1>2, <2>6, RestQuiet DEF Does, Changed
<1>7. CASE ~InputsAsRecorded(k)
  <2>1. Kept
    BY <1>1, <1>4, <1>7 DEF PrepareHandoff, Kept, Frozen
  <2>2. QED
    BY <1>1, <1>2, <2>1, RestKept
<1>8. QED
  BY <1>6, <1>7

LEMMA SubmitsDoes ==
  ASSUME RunInv, NEW i \in Step, Submits(i)
  PROVE  Does /\ Rest
<1>1. call = "none" /\ steps[i].status = "in_progress"
  BY DEF Submits
<1>2. ASSUME NEW c \in Content \cup {Nil} PROVE Publish(i, c) \in [Artifact -> Content \cup {Nil}]
  <2>1. [files EXCEPT ![plan[i].artifact] = c] \in [Artifact -> Content \cup {Nil}]
    BY FilesType DEF RunInv
  <2>2. QED
    BY <2>1 DEF Publish
<1>3. ASSUME NEW c \in Writes[plan[i].artifact], Completes(i, Publish(i, c), "none")
      PROVE  Does /\ Rest
  <2>1. c \in Content
    BY WrittenType DEF RunInv
  <2> DEFINE f == Publish(i, c)
  <2>2. f \in [Artifact -> Content \cup {Nil}] /\ Completes(i, f, "none")
    BY <1>2, <1>3, <2>1
  <2> HIDE DEF f
  <2>3. QED
    BY <1>1, <2>2, CompletesDoes
<1>4. ASSUME NEW c \in Writes[plan[i].artifact],
             files' = Publish(i, c), Frozen, Quiet, UNCHANGED <<steps, current, call>>
      PROVE  Does /\ Rest
  <2>1. c \in Content
    BY WrittenType DEF RunInv
  <2>2. Kept /\ call' = "none"
    BY <1>1, <1>4 DEF Kept, Frozen
  <2>3. files' \in [Artifact -> Content \cup {Nil}]
    BY <1>2, <1>4, <2>1
  <2>4. QED
    BY <1>4, <2>2, <2>3, RestKept
<1>5. ASSUME Fails(i, Publish(i, Nil)) PROVE Does /\ Rest
  <2> DEFINE f == Publish(i, Nil)
  <2>1. f \in [Artifact -> Content \cup {Nil}] /\ Fails(i, f)
    BY <1>2, <1>5
  <2> HIDE DEF f
  <2>2. QED
    BY <1>1, <2>1, FailsDoes
<1>6. QED
  BY <1>3, <1>4, <1>5 DEF Submits

(* A failed patch step is put under way by hand: it is not active by that.   *)
LEMMA PrepareExternalDoes ==
  ASSUME RunInv, NEW i \in Step, PrepareExternal(i)
  PROVE  Does /\ Rest
<1> DEFINE r == [steps[i] EXCEPT !.status = "in_progress", !.external = TRUE, !.taken = TRUE]
<1>1. /\ call = "none" /\ plan[i].patch /\ steps[i].status = "failed"
      /\ steps' = [steps EXCEPT ![i] = r] /\ current' = plan[i].id
      /\ Frozen /\ Quiet /\ files' = files /\ call' = call
  BY DEF PrepareExternal
<1>2. plan[i].id \in Id /\ plan[i].kind = "agent"
  BY <1>1, StepFacts, StepDefFacts DEF RunInv
<1>3. Rest
  BY <1>1, <1>2, RestQuiet DEF RunInv, TypeOK
<1>4. steps[i] \in StepState /\ Sound(plan[i], steps[i]) /\ ~Passed(steps[i])
  BY <1>1, StepFacts DEF RunInv, AllSound, Step, Passed
<1>5. /\ r \in StepState /\ r.status = "in_progress" /\ r.taken = TRUE
      /\ r.ran = steps[i].ran /\ r.amendments = steps[i].amendments
  BY <1>4 DEF StepState
<1> HIDE DEF r
<1>6. Sound(plan[i], r)
  BY <1>2, <1>5 DEF Sound, Works
<1>7. ~Active(plan[i], r)
  BY <1>2, <1>5 DEF Active
<1>8. ChangedTo(i, r)
  BY <1>1, <1>2, <1>4, <1>5, <1>6, <1>7 DEF ChangedTo, IsPhases, IsGate, IsHandoff
<1>9. QED
  BY <1>3, <1>8 DEF Does, Changed

(* Outside a command nothing is served; the archive keeps its type.          *)
LEMMA RestArchived ==
  ASSUME RunInv, NEW i \in Step, IsHandoff(i), steps[i].status = "complete",
         archive' = archive \/ Archived(i),
         call = "none", current' \in Id \cup {Nil},
         files' \in [Artifact -> Content \cup {Nil}], UNCHANGED <<log, started, call>>
  PROVE  Rest
<1>1. plan[i].id \in Handoff
  BY StepFacts, StepDefFacts DEF RunInv, IsHandoff
<1>2. steps[i].output \in Content \cup {Nil}
  BY StepFacts DEF RunInv, StepState
<1>3. archive \in [Handoff -> [1 .. MaxAmendments -> Content \cup {Nil}]]
  BY DEF RunInv, TypeOK
<1>4. archive' \in [Handoff -> [1 .. MaxAmendments -> Content \cup {Nil}]]
  <2>1. CASE archive' = archive
    BY <1>3, <2>1
  <2>2. CASE Archived(i)
    <3> DEFINE h == plan[i].id
               n == Revision(i)
               A == [archive[h] EXCEPT ![n] = steps[i].output]
    <3>1. archive' = [archive EXCEPT ![h] = A]
      BY <2>2 DEF Archived
    <3>2. A \in [1 .. MaxAmendments -> Content \cup {Nil}]
      <4>1. archive[h] \in [1 .. MaxAmendments -> Content \cup {Nil}]
        BY <1>1, <1>3
      <4> HIDE DEF n, h
      <4>2. QED
        BY <1>2, <4>1
    <3> HIDE DEF A, h
    <3>3. QED
      BY <1>3, <3>1, <3>2
  <2>3. QED
    BY <2>1, <2>2
<1>5. Serves(plan', steps', current', call') /\ SpawnLogged(plan', steps', call', started', log')
  BY DEF Serves, SpawnLogged
<1>6. QED
  BY <1>4, <1>5 DEF RunInv, TypeOK, Rest

LEMMA AmendCutOffDoes ==
  ASSUME RunInv, NEW i \in Step, AmendCutOff(i)
  PROVE  Does /\ Rest
<1>1. /\ Amendable(i) /\ Archived(i)
      /\ files' = [files EXCEPT ![plan[i].artifact] = Nil] \/ UNCHANGED files
      /\ Frozen /\ UNCHANGED <<steps, current, log, started, call>>
  BY DEF AmendCutOff
<1>2. files' \in [Artifact -> Content \cup {Nil}] /\ current' \in Id \cup {Nil}
  <2>1. files \in [Artifact -> Content \cup {Nil}]
    BY DEF RunInv, TypeOK
  <2>2. [files EXCEPT ![plan[i].artifact] = Nil] \in [Artifact -> Content \cup {Nil}]
    BY FilesType DEF RunInv
  <2>3. QED
    BY <1>1, <2>1, <2>2 DEF RunInv, TypeOK
<1>3. Kept
  BY <1>1 DEF Kept, Frozen
<1>4. IsHandoff(i) /\ steps[i].status = "complete" /\ call = "none"
  BY <1>1 DEF Amendable
<1>5. Rest
  BY <1>1, <1>2, <1>4, RestArchived
<1>6. QED
  BY <1>3, <1>5 DEF Does

LEMMA AmendDoes ==
  ASSUME RunInv, NEW i \in Step, Amend(i)
  PROVE  Does /\ Rest
<1>1. /\ Amendable(i) /\ Archived(i)
      /\ ~\E j \in Behind(i) : IsPhases(j)
      /\ files' = [files EXCEPT ![plan[i].artifact] = Nil]
      /\ current' = Nil
      /\ Frozen /\ UNCHANGED <<log, started, call>>
  BY DEF Amend
<1>2. IsHandoff(i) /\ steps[i].status = "complete" /\ call = "none" /\ NotExecuted(i) /\ IsWork(i)
  BY <1>1 DEF Amendable, IsWork
<1>3. Rest
  <2>1. files' \in [Artifact -> Content \cup {Nil}]
    BY <1>1, FilesType DEF RunInv
  <2>2. QED
    BY <1>1, <1>2, <2>1, RestArchived
<1>4. Step \subseteq Nat \ {0} /\ Behind(i) = {j \in Step : j > i}
  BY StepFacts DEF RunInv
<1>5. \A j \in Step : steps[j] \in StepState /\ Sound(plan[j], steps[j])
  BY StepFacts DEF RunInv, AllSound, Step
<1>6. \A j \in Step : j >= i => plan[j].kind # "phases"
  BY <1>1, <1>2, <1>4 DEF IsPhases, IsHandoff
<1> DEFINE x == [Reset(steps[i]) EXCEPT !.amendments = Append(@, steps[i].output)]
           y(j) == [Reset(steps[j]) EXCEPT !.approval = Nil, !.external = FALSE]
<1>7. \A j \in Step : j >= i =>
        /\ Reset(steps[j]) \in StepState /\ Sound(plan[j], Reset(steps[j]))
        /\ Reset(steps[j]).status = "pending" /\ Reset(steps[j]).ran = steps[j].ran
        /\ Reset(steps[j]).amendments = steps[j].amendments
        /\ Reset(steps[j]).output = Nil /\ Reset(steps[j]).seen = {}
        /\ Reset(steps[j]).prepared = FALSE
        /\ Reset(steps[j]).verdict = Nil /\ Reset(steps[j]).exhausted = FALSE
        /\ Reset(steps[j]).taken = FALSE
  BY <1>5, <1>6, ResetFacts
<1>8. x \in StepState /\ Sound(plan[i], x) /\ x.status = "pending" /\ x.ran = steps[i].ran
  <2> DEFINE q == Reset(steps[i])
             o == steps[i].output
  <2>1. /\ q \in StepState /\ Sound(plan[i], q) /\ q.status = "pending" /\ q.ran = steps[i].ran
        /\ q.output = Nil /\ q.seen = {} /\ q.prepared = FALSE /\ q.taken = FALSE
    BY <1>4, <1>7
  <2>2. o \in Content
    BY <1>2, <1>5 DEF Sound, Works, IsHandoff, StepState
  <2> HIDE DEF q, o
  <2>3. x = [q EXCEPT !.amendments = Append(@, o)]
    BY DEF q, o
  <2> HIDE DEF x
  <2>4. Append(q.amendments, o) \in Seq(Content)
    BY <2>1, <2>2, AppendProperties DEF StepState
  <2>5. /\ x \in StepState /\ x.status = q.status /\ x.ran = q.ran /\ x.output = q.output
        /\ x.seen = q.seen /\ x.prepared = q.prepared /\ x.taken = q.taken
    BY <2>1, <2>3, <2>4 DEF StepState
  <2>6. plan[i].kind = "host-handoff"
    BY <1>2 DEF IsHandoff
  <2>7. Sound(plan[i], x)
    BY <2>1, <2>5, <2>6 DEF Sound, Works
  <2>8. QED
    BY <2>1, <2>5, <2>7
<1>9. ASSUME NEW j \in Step, j > i
      PROVE  /\ y(j) \in StepState /\ Sound(plan[j], y(j)) /\ y(j).status = "pending"
             /\ y(j).ran = steps[j].ran /\ y(j).amendments = steps[j].amendments
  <2> DEFINE q == Reset(steps[j])
             r == y(j)
  <2>1. /\ q \in StepState /\ Sound(plan[j], q) /\ q.status = "pending" /\ q.ran = steps[j].ran
        /\ q.amendments = steps[j].amendments
        /\ q.output = Nil /\ q.seen = {} /\ q.prepared = FALSE
        /\ q.verdict = Nil /\ q.exhausted = FALSE /\ q.taken = FALSE
    BY <1>4, <1>7, <1>9
  <2>2. r = [q EXCEPT !.approval = Nil, !.external = FALSE]
    OBVIOUS
  <2> HIDE DEF q, r
  <2>3. /\ r \in StepState /\ r.status = q.status /\ r.ran = q.ran /\ r.output = q.output
        /\ r.seen = q.seen /\ r.prepared = q.prepared /\ r.amendments = q.amendments
        /\ r.verdict = q.verdict /\ r.exhausted = q.exhausted /\ r.taken = q.taken
    BY <2>1, <2>2 DEF StepState
  <2>4. plan[j].kind # "phases"
    BY <1>4, <1>6, <1>9
  <2>5. Sound(plan[j], r)
    BY <2>1, <2>3, <2>4 DEF Sound, Works
  <2>6. /\ r \in StepState /\ Sound(plan[j], r) /\ r.status = "pending"
        /\ r.ran = steps[j].ran /\ r.amendments = steps[j].amendments
    BY <2>1, <2>3, <2>5
  <2>7. QED
    BY <2>6 DEF r
<1>0. steps' = [j \in Step |-> IF j = i THEN x ELSE IF j \notin Behind(i) THEN steps[j] ELSE y(j)]
  BY DEF Amend
<1> HIDE DEF x, y
<1>10. /\ steps' = [j \in Step |-> steps'[j]]
       /\ steps'[i] = x
       /\ \A j \in Step : j > i => steps'[j] = y(j)
       /\ \A j \in Step : j < i => steps'[j] = steps[j]
  <2>1. steps' = [j \in Step |-> steps'[j]] /\ steps'[i] = x
    BY <1>0
  <2>2. \A j \in Step : j > i => j # i /\ j \in Behind(i)
    BY <1>4
  <2>3. \A j \in Step : j < i => j # i /\ j \notin Behind(i)
    BY <1>4
  <2>4. QED
    BY <1>0, <2>1, <2>2, <2>3
<1>11. \A j \in Step : j < i \/ j = i \/ j > i
  BY <1>4
<1>12. steps' \in [Step -> StepState]
  <2>1. \A j \in Step : steps'[j] \in StepState
    BY <1>5, <1>8, <1>9, <1>10, <1>11
  <2>2. QED
    BY <1>10, <2>1
<1>13. Cut(i)
  <2>1. \A j \in Step : j >= i =>
          /\ steps'[j].status \notin {"complete", "in_progress"}
          /\ Sound(plan[j], steps'[j])
          /\ IsPhases(j) => steps[j].status = "pending"
          /\ steps'[j].ran = steps[j].ran
    <3> SUFFICES ASSUME NEW j \in Step, j >= i
                 PROVE  /\ steps'[j].status = "pending" /\ Sound(plan[j], steps'[j])
                        /\ ~IsPhases(j) /\ steps'[j].ran = steps[j].ran
      OBVIOUS
    <3>1. ~IsPhases(j)
      BY <1>6 DEF IsPhases
    <3>2. j = i \/ j > i
      BY <1>4
    <3>3. QED
      BY <3>1, <3>2, <1>8, <1>9, <1>10
  <2>2. \A j \in Step : \/ steps'[j].amendments = steps[j].amendments
                        \/ j = i /\ Amend(i)
    BY <1>9, <1>10, <1>11
  <2>3. QED
    BY <1>1, <1>2, <1>10, <1>12, <2>1, <2>2 DEF Cut
<1>14. QED
  BY <1>3, <1>13 DEF Does

-----------------------------------------------------------------------------
(* The decisions of the human *)

LEMMA ApproveDoes ==
  ASSUME RunInv, NEW g \in Step, Approve(g)
  PROVE  Does /\ Rest
<1>1. Quiet /\ current' = current /\ files' = files /\ call' = "none"
  BY DEF Approve, Approvable
<1>2. Rest
  BY <1>1, RestQuiet DEF RunInv, TypeOK
<1>3. QED
  BY <1>2 DEF Does, Approves

LEMMA ApproveRefusedDoes ==
  ASSUME RunInv, NEW g \in Step, ApproveRefused(g)
  PROVE  Does /\ Rest
<1> DEFINE outdated == consumersWithOutdatedInput(plan[g].artifact)
           p == FirstOf(outdated)
           I == Invalidated(p, 0)
<1>1. /\ outdated # {} /\ Invalidatable(p) /\ steps' = I
      /\ Frozen /\ Quiet /\ current' = current /\ files' = files /\ call' = "none"
  BY DEF ApproveRefused, Approvable
<1>2. Rest
  BY <1>1, RestQuiet DEF RunInv, TypeOK
<1>3. p \in Step /\ IsWork(p) /\ steps[p].status = "complete"
  <2>1. outdated \subseteq 1 .. Len(plan) /\ Len(plan) \in Nat
    BY StepFacts DEF RunInv, consumersWithOutdatedInput
  <2>2. p \in outdated
    <3> HIDE DEF outdated
    <3> QED
      BY <1>1, <2>1, FirstStep
  <2>3. QED
    BY <2>2 DEF consumersWithOutdatedInput
<1>4. Step \subseteq Nat \ {0}
  BY StepFacts DEF RunInv
<1> HIDE DEF p
<1>5. /\ I \in [Step -> StepState]
      /\ \A j \in Step :
            /\ Sound(plan[j], I[j]) /\ I[j].ran = steps[j].ran
            /\ I[j].amendments = steps[j].amendments
            /\ j < p => I[j] = steps[j]
            /\ j >= p => I[j].status \notin {"complete", "in_progress"}
            /\ j >= p /\ IsPhases(j) => steps[j].status = "pending"
  BY <1>1, <1>3, <1>4, InvalidatedFacts
<1> HIDE DEF I
<1>6. Cut(p)
  BY <1>1, <1>3, <1>5 DEF Cut
<1>7. QED
  BY <1>2, <1>3, <1>6 DEF Does

LEMMA RequestChangesDoes ==
  ASSUME RunInv, NEW g \in Step, RequestChanges(g)
  PROVE  Does /\ Rest
<1> DEFINE a == plan[g].artifact
           p == producerForArtifact(a)
           I == Invalidated(p, p)
<1>1. /\ call = "none" /\ IsGate(g) /\ Producers(a) # {}
      /\ files' = Discarded(a, plan[p].internal)
      /\ IF Invalidatable(p)
         THEN /\ steps' = [I EXCEPT ![p] = Reset(@),
                                    ![g] = [@ EXCEPT !.status = "pending", !.approval = Nil]]
              /\ current' = IF current = plan[p].id THEN Nil ELSE current
         ELSE UNCHANGED <<steps, current>>
      /\ Frozen /\ Quiet /\ call' = call
  BY DEF RequestChanges
<1>2. /\ p \in Step /\ IsWork(p) /\ plan[p].artifact = a /\ steps[p].status = "complete"
  BY <1>1, ProducerFacts DEF RunInv
<1>3. p < g
  BY <1>1, <1>2, GateBehind DEF RunInv
<1>4. Step \subseteq Nat \ {0}
  BY StepFacts DEF RunInv
<1> HIDE DEF p
<1>5. Rest
  <2>1. files' \in [Artifact -> Content \cup {Nil}]
    <3>1. files \in [Artifact -> Content \cup {Nil}]
      BY DEF RunInv, TypeOK
    <3>2. [files EXCEPT ![a] = Nil] \in [Artifact -> Content \cup {Nil}]
      BY FilesType DEF RunInv
    <3>3. QED
      BY <1>1, <3>1, <3>2 DEF Discarded
  <2>2. current' \in Id \cup {Nil} /\ call' = "none"
    BY <1>1 DEF RunInv, TypeOK
  <2>3. QED
    BY <1>1, <2>1, <2>2, RestQuiet
<1>6. CASE Invalidatable(p)
  <2>1. /\ I \in [Step -> StepState]
        /\ \A j \in Step :
              /\ Sound(plan[j], I[j]) /\ I[j].ran = steps[j].ran
              /\ I[j].amendments = steps[j].amendments
              /\ j < p \/ j = p => I[j] = steps[j]
              /\ j >= p /\ j # p => I[j].status \notin {"complete", "in_progress"}
              /\ j >= p /\ IsPhases(j) => steps[j].status = "pending"
    <3> DEFINE keep == p
    <3>1. Invalidatable(p) /\ p \in Step /\ (keep = 0 \/ keep = p) /\ I = Invalidated(p, keep)
      BY <1>2, <1>6
    <3> HIDE DEF keep, I
    <3>2. /\ I \in [Step -> StepState]
          /\ \A j \in Step :
                /\ Sound(plan[j], I[j]) /\ I[j].ran = steps[j].ran
                /\ I[j].amendments = steps[j].amendments
                /\ j < p \/ j = keep => I[j] = steps[j]
                /\ j >= p /\ j # keep => I[j].status \notin {"complete", "in_progress"}
                /\ j >= p /\ IsPhases(j) => steps[j].status = "pending"
      BY <3>1, InvalidatedFacts
    <3>3. QED
      BY <3>2 DEF keep
  <2> HIDE DEF I
  <2> DEFINE x == Reset(I[p])
             y == [I[g] EXCEPT !.status = "pending", !.approval = Nil]
  <2>2. steps' = [I EXCEPT ![p] = x, ![g] = y]
    BY <1>1, <1>3, <1>4, <1>6, <2>1
  <2>3. /\ x \in StepState /\ Sound(plan[p], x) /\ x.status = "pending"
        /\ x.ran = I[p].ran /\ x.amendments = I[p].amendments
    <3>1. plan[p].kind # "phases" /\ I[p] \in StepState /\ Sound(plan[p], I[p])
      BY <1>2, <2>1 DEF IsWork, IsAgent, IsHandoff
    <3>2. QED
      BY <3>1, ResetFacts
  <2>4. /\ y \in StepState /\ Sound(plan[g], y) /\ y.status = "pending"
        /\ y.ran = I[g].ran /\ y.amendments = I[g].amendments
    <3>1. plan[g].kind = "gate" /\ I[g] \in StepState /\ Sound(plan[g], I[g])
      BY <1>1, <2>1 DEF IsGate
    <3>2. /\ y \in StepState /\ y.status = "pending" /\ y.ran = I[g].ran
          /\ y.amendments = I[g].amendments /\ y.output = I[g].output
          /\ y.verdict = I[g].verdict /\ y.exhausted = I[g].exhausted /\ y.taken = I[g].taken
      BY <3>1 DEF StepState
    <3> HIDE DEF y
    <3>3. QED
      BY <3>1, <3>2 DEF Sound, Works
  <2> HIDE DEF x, y
  <2>5. /\ steps' \in [Step -> StepState]
        /\ steps'[p] = x /\ steps'[g] = y
        /\ \A j \in Step : j # p /\ j # g => steps'[j] = I[j]
    BY <1>2, <1>3, <1>4, <2>1, <2>2, <2>3, <2>4
  <2>6. Cut(p)
    <3>1. \A j \in Step : j < p => steps'[j] = steps[j]
      BY <1>2, <1>3, <1>4, <2>1, <2>5
    <3>2. \A j \in Step : j >= p =>
             /\ steps'[j].status \notin {"complete", "in_progress"}
             /\ Sound(plan[j], steps'[j])
             /\ IsPhases(j) => steps[j].status = "pending"
             /\ steps'[j].ran = steps[j].ran
      <4> SUFFICES ASSUME NEW j \in Step, j >= p
                   PROVE  /\ steps'[j].status \notin {"complete", "in_progress"}
                          /\ Sound(plan[j], steps'[j])
                          /\ IsPhases(j) => steps[j].status = "pending"
                          /\ steps'[j].ran = steps[j].ran
        OBVIOUS
      <4>1. CASE j = p
        BY <4>1, <2>1, <2>3, <2>5
      <4>2. CASE j = g
        BY <4>2, <2>1, <2>4, <2>5
      <4>3. CASE j # p /\ j # g
        BY <4>3, <2>1, <2>5
      <4>4. QED
        BY <4>1, <4>2, <4>3
    <3>3. \A j \in Step : steps'[j].amendments = steps[j].amendments
      BY <2>1, <2>3, <2>4, <2>5
    <3>4. QED
      BY <1>1, <1>2, <2>5, <3>1, <3>2, <3>3 DEF Cut
  <2>7. QED
    BY <1>2, <1>5, <2>6 DEF Does
<1>7. CASE ~Invalidatable(p)
  <2>1. Kept
    BY <1>1, <1>7 DEF Kept, Frozen
  <2>2. QED
    BY <1>5, <2>1 DEF Does
<1>8. QED
  BY <1>6, <1>7

LEMMA RetryDoes ==
  ASSUME RunInv, NEW i \in Step, Retry(i)
  PROVE  Does /\ Rest
<1> DEFINE r == [Reset(steps[i]) EXCEPT !.acked = FALSE]
<1>1. /\ call = "none" /\ call' = call /\ IsWork(i) /\ Frozen /\ Quiet
      /\ steps[i].status \in {"stale", "failed"} \/ isVerdictHalted(i)
      /\ files' = Discarded(plan[i].artifact, plan[i].internal)
      /\ IF IsAgent(i)
         THEN steps' = [steps EXCEPT ![i] = r]
              /\ current' = IF current = plan[i].id THEN Nil ELSE current
         ELSE UNCHANGED <<steps, current>>
  BY DEF Retry
<1>2. Rest
  <2>1. files' \in [Artifact -> Content \cup {Nil}]
    <3>1. files \in [Artifact -> Content \cup {Nil}]
      BY DEF RunInv, TypeOK
    <3>2. [files EXCEPT ![plan[i].artifact] = Nil] \in [Artifact -> Content \cup {Nil}]
      BY FilesType DEF RunInv
    <3>3. QED
      BY <1>1, <3>1, <3>2 DEF Discarded
  <2>2. current' \in Id \cup {Nil} /\ call' = "none"
    BY <1>1 DEF RunInv, TypeOK
  <2>3. QED
    BY <1>1, <2>1, <2>2, RestQuiet
<1>3. CASE IsAgent(i)
  <2>1. ~Passed(steps[i])
    BY <1>1, HaltedIs DEF Passed
  <2>2. /\ r \in StepState /\ Sound(plan[i], r) /\ r.status = "pending"
        /\ r.ran = steps[i].ran /\ r.amendments = steps[i].amendments
    <3>1. steps[i] \in StepState /\ Sound(plan[i], steps[i]) /\ plan[i].kind # "phases"
      BY <1>3, StepFacts DEF RunInv, AllSound, Step, IsAgent
    <3>2. r = [Reset(steps[i]) EXCEPT !.acked = FALSE]
      OBVIOUS
    <3> HIDE DEF r
    <3>3. QED
      BY <3>1, <3>2, ReopenedFacts, ZenonT(40)
  <2> HIDE DEF r
  <2>3. ChangedTo(i, r)
    BY <1>1, <1>3, <2>1, <2>2 DEF ChangedTo, Active, IsAgent, IsPhases, IsGate, IsHandoff
  <2>4. QED
    BY <1>2, <2>3 DEF Does, Changed
<1>4. CASE ~IsAgent(i)
  <2>1. Kept
    BY <1>1, <1>4 DEF Kept, Frozen
  <2>2. QED
    BY <1>2, <2>1 DEF Does
<1>5. QED
  BY <1>3, <1>4

LEMMA AcknowledgeDoes ==
  ASSUME RunInv, NEW i \in Step, Acknowledge(i)
  PROVE  Does /\ Rest
<1> DEFINE r == [steps[i] EXCEPT !.acked = TRUE]
<1>1. /\ call = "none" /\ isVerdictHalted(i) /\ steps' = [steps EXCEPT ![i] = r]
      /\ Frozen /\ Quiet /\ current' = current /\ files' = files /\ call' = call
  BY DEF Acknowledge
<1>2. Rest
  BY <1>1, RestQuiet DEF RunInv, TypeOK
<1>3. Halts(steps[i]) /\ ~Passed(steps[i])
  BY <1>1, HaltedIs DEF Passed
<1>4. steps[i] \in StepState /\ Sound(plan[i], steps[i])
  BY StepFacts DEF RunInv, AllSound, Step
<1>5. Works(plan[i])
  BY <1>3, <1>4, PhasesAssumption DEF Halts, Sound
<1>6. steps[i].taken = FALSE => \A j \in Step : j < i => Passed(steps[j])
  BY <1>3, <1>5 DEF RunInv, Ordered, Active, Halts, Step
<1>7. /\ r \in StepState /\ r.status = "complete" /\ r.output = steps[i].output
      /\ r.prepared = steps[i].prepared /\ r.seen = steps[i].seen /\ r.announced = steps[i].announced
      /\ r.ran = steps[i].ran /\ r.amendments = steps[i].amendments /\ r.taken = steps[i].taken
  BY <1>3, <1>4 DEF StepState, Halts
<1> HIDE DEF r
<1>8. Sound(plan[i], r)
  BY <1>3, <1>4, <1>5, <1>7 DEF Sound, Works, Halts
<1>9. ChangedTo(i, r)
  <2>1. steps[i].status = "complete"
    BY <1>3 DEF Halts
  <2>2. Active(plan[i], r) => \A j \in Step : j < i => Passed(steps[j])
    BY <1>5, <1>6, <1>7 DEF Active, Works
  <2>3. QED
    BY <1>1, <1>3, <1>5, <1>7, <1>8, <2>1, <2>2 DEF ChangedTo, Works, IsPhases, IsGate
<1>10. QED
  BY <1>2, <1>9 DEF Does, Changed

(* The file of an artifact changes behind the run: nothing recorded does.    *)
LEMMA EditDoes ==
  ASSUME RunInv, NEW a \in Artifact, Edit(a)
  PROVE  Does /\ Rest
<1>1. PICK c \in Writes[a] \cup {Nil} : files' = [files EXCEPT ![a] = c]
  BY DEF Edit
<1>2. Frozen /\ Quiet /\ UNCHANGED <<steps, current, call>>
  BY DEF Edit
<1>3. c \in Content \cup {Nil}
  BY PhasesAssumption
<1>4. files' \in [Artifact -> Content \cup {Nil}]
  BY <1>1, <1>3, FilesType DEF RunInv
<1>5. Kept
  BY <1>2 DEF Kept, Frozen
<1>6. Serves(plan', steps', current', call') /\ SpawnLogged(plan', steps', call', started', log')
  BY <1>2 DEF RunInv, Frozen, Quiet
<1>7. Rest
  BY <1>2, <1>4, <1>6 DEF RunInv, TypeOK, Rest, Quiet
<1>8. QED
  BY <1>5, <1>7 DEF Does

LEMMA CrashDoes ==
  ASSUME RunInv, Crash
  PROVE  Does /\ Rest
<1>1. /\ call' = "none" /\ log' \in {log, IF log = "whole" THEN "torn" ELSE log}
      /\ Frozen /\ UNCHANGED <<steps, current, files, archive, started>>
  BY DEF Crash
<1>2. Kept
  BY <1>1 DEF Kept, Frozen
<1>3. Serves(plan', steps', current', call') /\ SpawnLogged(plan', steps', call', started', log')
  BY <1>1 DEF Serves, SpawnLogged
<1>4. Rest
  BY <1>1, <1>3 DEF RunInv, TypeOK, Rest, Call
<1>5. QED
  BY <1>2, <1>4 DEF Does

LEMMA LogGrowsDoes ==
  ASSUME RunInv, LogGrows
  PROVE  Does /\ Rest
<1>1. /\ log' = "broken"
      /\ Frozen /\ UNCHANGED <<steps, current, files, archive, started, call>>
  BY DEF LogGrows
<1>2. Kept
  BY <1>1 DEF Kept, Frozen
<1>3. Serves(plan', steps', current', call') /\ SpawnLogged(plan', steps', call', started', log')
  BY <1>1 DEF RunInv, SpawnLogged, Frozen
<1>4. Rest
  BY <1>1, <1>3 DEF RunInv, TypeOK, Rest
<1>5. QED
  BY <1>2, <1>4 DEF Does

-----------------------------------------------------------------------------
(* Every step of the run is one of the five, and keeps the invariant.        *)
LEMMA StepsDo ==
  ASSUME RunInv, Next
  PROVE  Does /\ Rest
<1>1. ASSUME Machine PROVE Does /\ Rest
  <2>1. ASSUME NEW i \in Step,
               \/ NextGate(i) \/ NextPhases(i) \/ NextInProgress(i) \/ NextStarts(i)
               \/ Materialize(i)
        PROVE  Does /\ Rest
    BY <2>1, NextGateDoes, NextPhasesDoes, NextInProgressDoes, NextStartsDoes, MaterializeDoes
  <2>2. ASSUME \/ AdvanceReuses \/ AdvanceLogs \/ AdvanceSpawns \/ AgentReturns \/ AgentFails
               \/ ApplyVerdictRetry \/ RetryLost \/ PrepareHandoff \/ PreflightRefuses \/ NextStops
        PROVE  Does /\ Rest
    BY <2>2, AdvanceReusesDoes, AdvanceLogsDoes, AdvanceSpawnsDoes, AgentReturnsDoes,
       AgentFailsDoes, ApplyVerdictRetryDoes, RetryLostDoes, PrepareHandoffDoes, PreflightRefusesDoes, NextStopsDoes
  <2>3. QED
    BY <1>1, <2>1, <2>2 DEF Machine
<1>2. ASSUME Human PROVE Does /\ Rest
  <2>1. ASSUME NEW i \in Step,
               \/ SubmitHostOutput(i) \/ PrepareExternal(i) \/ SubmitAgentOutput(i)
               \/ Amend(i) \/ AmendCutOff(i)
               \/ Approve(i) \/ ApproveRefused(i) \/ RequestChanges(i)
               \/ Retry(i) \/ Acknowledge(i)
        PROVE  Does /\ Rest
    BY <2>1, SubmitsDoes, PrepareExternalDoes, AmendDoes, AmendCutOffDoes, ApproveDoes, ApproveRefusedDoes,
       RequestChangesDoes, RetryDoes, AcknowledgeDoes DEF SubmitHostOutput, SubmitAgentOutput
  <2>2. QED
    BY <1>2, <2>1, EditDoes DEF Human
<1>3. QED
  BY <1>1, <1>2, AdvanceStartsDoes, CrashDoes, LogGrowsDoes DEF Next

LEMMA RunInvStep ==
  ASSUME RunInv, [Next]_vars
  PROVE  RunInv'
<1>1. CASE Next
  <2>1. Does /\ Rest
    BY <1>1, StepsDo
  <2>2. EntriesOk'
    BY <2>1, KeptOk, ChangedOk, CutOk, ApproveOk, GrowsOk DEF Does, Approves
  <2>3. QED
    BY <2>1, <2>2, RestOfInv
<1>2. CASE UNCHANGED vars
  <2>1. Kept /\ Rest
    BY <1>2 DEF RunInv, TypeOK, Kept, Rest, vars
  <2>2. EntriesOk'
    BY <2>1, KeptOk
  <2>3. QED
    BY <2>1, <2>2, RestOfInv
<1>3. QED
  BY <1>1, <1>2

(* The table createRunState writes links the frozen plan. *)
LEMMA ChainedAtFirst ==
  ASSUME Init
  PROVE  Chained(plan, successors)
<1>1. plan \in Plans
  BY DEF Init
<1>2. plan \in Seq(Planned) /\ Conforms(plan)
  BY <1>1, PhasesAssumption
<1>3. Len(plan) \in Nat /\ DOMAIN plan = 1 .. Len(plan) /\ Step = DOMAIN plan
  BY <1>2, LenProperties DEF Step
<1> DEFINE next(id) == {plan[i + 1].id : i \in {i \in 1 .. Len(plan) - 1 : plan[i].id = id}}
<1>4. successors = [id \in {plan[i].id : i \in Step} |-> next(id)]
  BY DEF Init
<1>5. ASSUME NEW i \in DOMAIN plan
      PROVE  next(plan[i].id) = {plan[j].id : j \in {j \in DOMAIN plan : j = i + 1}}
  <2>1. \A k \in DOMAIN plan : plan[k].id = plan[i].id => k = i
    BY <1>2 DEF Conforms
  <2>2. \A k \in 1 .. Len(plan) - 1 : plan[k].id = plan[i].id => k = i /\ k + 1 \in DOMAIN plan
    BY <1>3, <2>1
  <2>3. i + 1 \in DOMAIN plan => i \in 1 .. Len(plan) - 1
    BY <1>3
  <2>4. ASSUME NEW x \in next(plan[i].id)
        PROVE  x \in {plan[j].id : j \in {j \in DOMAIN plan : j = i + 1}}
    <3>1. PICK k \in 1 .. Len(plan) - 1 : plan[k].id = plan[i].id /\ x = plan[k + 1].id
      BY <2>4
    <3>2. i + 1 \in DOMAIN plan /\ x = plan[i + 1].id
      BY <2>2, <3>1
    <3>3. QED
      BY <3>2
  <2>5. ASSUME NEW j \in DOMAIN plan, j = i + 1
        PROVE  plan[j].id \in next(plan[i].id)
    BY <2>3, <2>5
  <2>6. QED
    BY <2>4, <2>5
<1> HIDE DEF next
<1>6. \A i \in DOMAIN plan : successors[plan[i].id] = next(plan[i].id)
  BY <1>3, <1>4
<1>7. DOMAIN successors = {plan[i].id : i \in DOMAIN plan}
  BY <1>3, <1>4
<1>8. QED
  BY <1>5, <1>6, <1>7 DEF Chained

LEMMA RunInvInit == Init => RunInv
<1> SUFFICES ASSUME Init PROVE RunInv
  OBVIOUS
<1>1. /\ plan \in Plans /\ steps = [i \in Step |-> NewStep] /\ current = Nil
      /\ files = [a \in Artifact |-> Nil]
      /\ archive = [h \in Handoff |-> [n \in 1 .. MaxAmendments |-> Nil]]
      /\ log = "whole" /\ started = {} /\ call = "none"
  BY DEF Init
<1>2. plan \in Seq(Planned) /\ Conforms(plan)
  BY <1>1, PhasesAssumption
<1>3. plan \in Seq(StepDef)
  <2>1. Planned \subseteq StepDef
    BY DEF StepDef
  <2>2. Len(plan) \in Nat /\ DOMAIN plan = 1 .. Len(plan) /\ plan \in [1 .. Len(plan) -> Planned]
    BY <1>2, LenProperties
  <2>3. plan \in [1 .. Len(plan) -> StepDef]
    BY <2>1, <2>2
  <2>4. QED
    BY <2>2, <2>3, IsASeq
<1>4. Chained(plan, successors)
  BY ChainedAtFirst
<1>5. Rooted(plan, steps)
  <2>1. \A j \in DOMAIN plan : plan[j] \in ToSet(plan)
    BY DEF ToSet
  <2>2. QED
    BY <1>1, <2>1 DEF Rooted
<1>6. NewStep \in StepState
  BY NewStepType
<1>7. /\ NewStep.status = "pending" /\ NewStep.output = Nil /\ NewStep.ran = FALSE
      /\ NewStep.verdict = Nil /\ NewStep.exhausted = FALSE /\ NewStep.prepared = FALSE
      /\ NewStep.seen = {} /\ NewStep.amendments = << >> /\ NewStep.taken = FALSE
  BY DEF NewStep
<1>8. \A i \in Step : steps[i] = NewStep
  BY <1>1
<1>9. TypeOK
  <2>1. steps \in [Step -> StepState]
    BY <1>1, <1>6
  <2>2. /\ DOMAIN successors = {plan[i].id : i \in Step}
        /\ \A id \in DOMAIN successors : successors[id] \subseteq DOMAIN successors
    BY <1>4, TableType DEF Step
  <2>3. QED
    BY <1>1, <1>3, <2>1, <2>2 DEF TypeOK, Call
<1>10. Ordered(plan, steps)
  BY <1>7, <1>8 DEF Ordered, Active, Step
<1>11. AllSound(plan, steps)
  BY <1>7, <1>8 DEF AllSound, Sound, Step
<1>12. Serves(plan, steps, current, call) /\ SpawnLogged(plan, steps, call, started, log)
  BY <1>1 DEF Serves, SpawnLogged
<1>13. Logged(plan, steps, started, log) /\ Untouched(plan, steps)
  BY <1>7, <1>8 DEF Logged, Untouched, Step
<1>14. QED
  BY <1>2, <1>3, <1>4, <1>5, <1>9, <1>10, <1>11, <1>12, <1>13 DEF RunInv, PlanOk

LEMMA RunInvariant == Spec => []RunInv
<1>1. Init => RunInv
  BY RunInvInit
<1>2. RunInv /\ [Next]_vars => RunInv'
  BY RunInvStep
<1>3. QED
  BY <1>1, <1>2, PTL DEF Spec

-----------------------------------------------------------------------------
(* Every variable keeps its type, and the table of successors names the      *)
(* steps of the run and no other, also after manifests were materialized     *)
(* (implementation-phase-materializer.service.ts, run-state.schema.ts).      *)
THEOREM PhasedTypeCorrect == Spec => []TypeOK
<1>1. RunInv => TypeOK
  BY DEF RunInv
<1>2. QED
  BY <1>1, RunInvariant, PTL

(* Work is complete or under way only behind finished steps, whatever was    *)
(* inserted, amended or sent back meanwhile; only a failed patch step that   *)
(* was recovered by hand may be ahead of its turn; for manifests whose       *)
(* generated steps have distinct ids (PhasesAssumption)                      *)
(* (workflow-runner.service.ts, step-invalidation.ts,                        *)
(* external-agent-recovery.service.ts).                                      *)
THEOREM WorkStaysInOrder == Spec => []WorkInOrder
<1>1. RunInv => WorkInOrder
  <2> SUFFICES ASSUME RunInv, NEW i \in Step, IsWork(i), ~steps[i].taken,
                      steps[i].status \in {"complete", "in_progress"}
               PROVE  DoneBefore(i)
    BY DEF WorkInOrder
  <2>0. steps[i].taken = FALSE
    BY StepFacts DEF RunInv, StepState
  <2>1. Active(plan[i], steps[i])
    BY <2>0 DEF Active, Works, IsWork, IsAgent, IsHandoff
  <2>2. \A j \in Step : j < i => Passed(steps[j])
    BY <2>1 DEF RunInv, Ordered, Step
  <2>3. \A j \in 1 .. i - 1 : j \in Step /\ j < i
    BY StepFacts DEF RunInv
  <2>4. QED
    BY <2>2, <2>3 DEF DoneBefore, Passed
<1>2. QED
  BY <1>1, RunInvariant, PTL

(* The hashes a waiting or completed handoff announced to the host are those *)
(* the step recorded of its inputs (HostHandoffService.prepare).             *)
THEOREM AnnouncedInputsRecorded == Spec => []AnnouncedInputsAreRecorded
<1>1. RunInv => AnnouncedInputsAreRecorded
  BY DEF RunInv, AllSound, Sound, AnnouncedInputsAreRecorded, IsHandoff, Step
<1>2. QED
  BY <1>1, RunInvariant, PTL

-----------------------------------------------------------------------------
(* What a decision of the human still means later: approved handoffs stay    *)
(* the completed ones, a materialized sequence stays the one of the approved *)
(* manifest, a handoff is amended before anything behind it ran, and no      *)
(* amended text is lost.                                                     *)

(* What the steps that leave the plan alone do to the entries in front of a  *)
(* materialized placeholder, and to handoffs and gates that are complete.    *)
LEMMA ChangedEntries ==
  ASSUME RunInv, NEW k \in Step, NEW r, ChangedTo(k, r)
  PROVE  /\ plan' = plan /\ Step' = Step /\ steps'[k] = r
         /\ \A j \in Step : j # k => steps'[j] = steps[j]
<1>1. steps \in [Step -> StepState]
  BY DEF RunInv, TypeOK
<1>2. QED
  BY <1>1 DEF ChangedTo, Frozen, Step

(* In front of a materialized placeholder everything is passed. *)
LEMMA FrontPassed ==
  ASSUME RunInv, NEW i \in Step, IsPhases(i), steps[i].status = "complete"
  PROVE  \A j \in Step : j < i => Passed(steps[j])
  BY DEF RunInv, Ordered, Active, IsPhases, Step

(* The approval of a handoff's text: the handoff is the one step that writes *)
(* it, and stands in front of the gate.                                      *)
LEMMA HandoffFacts ==
  ASSUME RunInv, NEW i \in Step, IsHandoff(i)
  PROVE  /\ \A j \in Step : IsWork(j) /\ plan[j].artifact = plan[i].artifact => j = i
         /\ \A g \in Step : IsGate(g) /\ plan[g].artifact = plan[i].artifact => i < g
<1>1. Conforms(plan)
  BY DEF RunInv, PlanOk
<1>2. QED
  BY <1>1 DEF Conforms, Works, IsHandoff, IsWork, IsAgent, IsGate, Step

-----------------------------------------------------------------------------
(* Steps that leave the plan alone keep the approvals of handoffs current.   *)
LEMMA ChangedKeepsHandoffs ==
  ASSUME RunInv, ApprovedHandoffIsCurrent, NEW k \in Step, Changed(k)
  PROVE  ApprovedHandoffIsCurrent'
<1>1. PICK r : ChangedTo(k, r)
  BY DEF Changed
<1>2. /\ plan' = plan /\ Step' = Step /\ steps'[k] = r
      /\ \A j \in Step : j # k => steps'[j] = steps[j]
  BY <1>1, ChangedEntries
<1> SUFFICES ASSUME NEW g \in Step, NEW i \in Step,
                    plan[g].kind = "gate", steps'[g].status = "complete",
                    plan[i].kind = "host-handoff", plan[i].artifact = plan[g].artifact
             PROVE  steps'[i].status = "complete" /\ steps'[i].output = steps'[g].approval
  BY <1>2 DEF ApprovedHandoffIsCurrent, IsGate, IsHandoff
<1>3. g # k
  BY <1>1, <1>2 DEF ChangedTo, IsGate
<1>4. steps[i].status = "complete" /\ steps[i].output = steps[g].approval
  BY <1>2, <1>3 DEF ApprovedHandoffIsCurrent, IsGate, IsHandoff
<1>5. CASE i = k
  BY <1>1, <1>2, <1>3, <1>4, <1>5 DEF ChangedTo, IsHandoff
<1>6. CASE i # k
  BY <1>2, <1>3, <1>4, <1>6
<1>7. QED
  BY <1>5, <1>6

LEMMA CutKeepsHandoffs ==
  ASSUME RunInv, ApprovedHandoffIsCurrent, NEW k \in Step, Cut(k)
  PROVE  ApprovedHandoffIsCurrent'
<1>1. /\ plan' = plan /\ Step' = Step
      /\ \A j \in Step : j < k => steps'[j] = steps[j]
      /\ \A j \in Step : j >= k => steps'[j].status # "complete"
  BY DEF Cut, Frozen, Step
<1> SUFFICES ASSUME NEW g \in Step, NEW i \in Step,
                    plan[g].kind = "gate", steps'[g].status = "complete",
                    plan[i].kind = "host-handoff", plan[i].artifact = plan[g].artifact
             PROVE  steps'[i].status = "complete" /\ steps'[i].output = steps'[g].approval
  BY <1>1 DEF ApprovedHandoffIsCurrent, IsGate, IsHandoff
<1>2. Step \subseteq Nat
  BY StepFacts DEF RunInv
<1>3. g < k
  BY <1>1, <1>2
<1>4. i < k
  <2>1. i < g
    BY HandoffFacts DEF IsHandoff, IsGate
  <2>2. i \in Nat /\ g \in Nat /\ k \in Nat
    BY <1>2
  <2>3. QED
    BY <1>3, <2>1, <2>2
<1>5. QED
  BY <1>1, <1>3, <1>4 DEF ApprovedHandoffIsCurrent, IsGate, IsHandoff

LEMMA ApproveKeepsHandoffs ==
  ASSUME RunInv, ApprovedHandoffIsCurrent, NEW h \in Step, Approve(h)
  PROVE  ApprovedHandoffIsCurrent'
<1> DEFINE c == files[plan[h].artifact]
<1>1. PICK p : ApprovedEntries(h, p, c)
  BY ApproveEntries DEF RunInv
<1>2. plan' = plan /\ Step' = Step
  BY DEF Approve, Frozen, Step
<1>3. /\ p \in Step /\ IsWork(p) /\ plan[p].artifact = plan[h].artifact
      /\ steps[p].status = "complete" /\ p # h
      /\ \A j \in Step : j # p /\ j # h => steps'[j] = steps[j]
      /\ steps'[p] = [steps[p] EXCEPT !.output = c]
      /\ steps'[h] = [steps[h] EXCEPT !.status = "complete", !.approval = c]
  BY <1>1 DEF ApprovedEntries
<1>4. steps[p] \in StepState /\ steps[h] \in StepState
  BY <1>3, StepFacts DEF RunInv
<1>5. /\ steps'[p].status = "complete" /\ steps'[p].output = c
      /\ steps'[h].approval = c
  BY <1>3, <1>4 DEF StepState
<1> SUFFICES ASSUME NEW g \in Step, NEW i \in Step,
                    plan[g].kind = "gate", steps'[g].status = "complete",
                    plan[i].kind = "host-handoff", plan[i].artifact = plan[g].artifact
             PROVE  steps'[i].status = "complete" /\ steps'[i].output = steps'[g].approval
  BY <1>2 DEF ApprovedHandoffIsCurrent, IsGate, IsHandoff
<1>6. g # p /\ i # h
  BY <1>3 DEF IsWork, IsAgent, IsHandoff, Approve, Approvable, IsGate
<1>7. CASE g = h
  <2>1. p = i
    BY <1>3, <1>7, HandoffFacts DEF IsHandoff
  <2>2. QED
    BY <1>5, <1>7, <2>1
<1>8. CASE g # h
  <2>1. steps'[g] = steps[g]
    BY <1>3, <1>6, <1>8
  <2>2. steps[i].status = "complete" /\ steps[i].output = steps[g].approval
    BY <2>1 DEF ApprovedHandoffIsCurrent, IsGate, IsHandoff
  <2>3. CASE i = p
    <3>1. ~Broken(g)
      BY DEF Approve, Approvable, PreflightPasses
    <3>2. Sound(plan[g], steps[g])
      BY DEF RunInv, AllSound, Step
    <3>3. steps[g].approval # Nil
      BY <2>1, <3>2 DEF Sound
    <3>4. files[plan[g].artifact] = steps[g].approval
      BY <2>1, <3>1, <3>3 DEF Broken, IsGate
    <3>5. plan[g].artifact = plan[h].artifact
      BY <1>3, <2>3
    <3>6. c = steps[g].approval
      BY <3>4, <3>5
    <3> HIDE DEF c
    <3>7. QED
      BY <1>5, <2>1, <2>3, <3>6
  <2>4. CASE i # p
    BY <1>3, <1>6, <2>1, <2>2, <2>4
  <2>5. QED
    BY <2>3, <2>4
<1>9. QED
  BY <1>7, <1>8

(* A materialization moves the entries behind the placeholder and adds       *)
(* pending agents and gates.                                                 *)
LEMMA MadeKinds ==
  ASSUME NEW i, NEW m, NEW new, NEW N, NEW n, GrownEntries(i, m, new, N, n)
  PROVE  /\ \A k \in 1 .. n : plan'[i + k].kind \in {"agent", "gate"}
         /\ \A k \in 1 .. n : steps'[i + k].status = "pending"
<1>1. Group(plan[i], new) /\ n = Len(new)
  BY DEF GrownEntries
<1>2. ASSUME NEW k \in 1 .. n PROVE new[k].kind \in {"agent", "gate"}
  <2>1. new[k] \in Made
    BY <1>1, ElementOfSeq DEF Group, Shaped
  <2>2. QED
    BY <2>1 DEF Made
<1>3. NewStep.status = "pending"
  BY DEF NewStep
<1>4. QED
  BY <1>2, <1>3 DEF GrownEntries

LEMMA GrowsKeepsHandoffs ==
  ASSUME RunInv, ApprovedHandoffIsCurrent, NEW h \in Step, Grows(h)
  PROVE  ApprovedHandoffIsCurrent'
<1>1. PICK m, new, N, n : GrownEntries(h, m, new, N, n)
  BY GrowsEntries DEF RunInv
<1>2. /\ \A j \in Step : plan'[Shift(h, n, j)] = plan[j]
      /\ \A j \in Step : j # h => steps'[Shift(h, n, j)] = steps[j]
      /\ \A y \in Step' : \/ \E j \in Step : y = Shift(h, n, j)
                          \/ \E k \in 1 .. n : y = h + k
  BY <1>1 DEF GrownEntries
<1>3. plan[h].kind = "phases"
  BY DEF Grows, IsPhases
<1> SUFFICES ASSUME NEW g \in Step', NEW i \in Step',
                    plan'[g].kind = "gate", steps'[g].status = "complete",
                    plan'[i].kind = "host-handoff", plan'[i].artifact = plan'[g].artifact
             PROVE  steps'[i].status = "complete" /\ steps'[i].output = steps'[g].approval
  BY DEF ApprovedHandoffIsCurrent, IsGate, IsHandoff
<1>4. PICK x \in Step : g = Shift(h, n, x)
  BY <1>1, <1>2, MadeKinds
<1>5. PICK y \in Step : i = Shift(h, n, y)
  BY <1>1, <1>2, MadeKinds
<1>6. /\ plan[x].kind = "gate" /\ plan[y].kind = "host-handoff"
      /\ plan[y].artifact = plan[x].artifact /\ x # h /\ y # h
  BY <1>2, <1>3, <1>4, <1>5
<1>7. steps'[g] = steps[x] /\ steps'[i] = steps[y]
  BY <1>2, <1>4, <1>5, <1>6
<1>8. QED
  BY <1>6, <1>7 DEF ApprovedHandoffIsCurrent, IsGate, IsHandoff

(* An approval of a handoff's text stands only while that text is the        *)
(* completed one (host-handoff-amendment.service.ts,                         *)
(* stale-invalidation.service.ts).                                           *)
THEOREM HandoffApprovalsStayCurrent == Spec => []ApprovedHandoffIsCurrent
<1>1. Init => ApprovedHandoffIsCurrent
  BY DEF Init, ApprovedHandoffIsCurrent, NewStep
<1>2. RunInv /\ ApprovedHandoffIsCurrent /\ [Next]_vars => ApprovedHandoffIsCurrent'
  <2> SUFFICES ASSUME RunInv, ApprovedHandoffIsCurrent, [Next]_vars
               PROVE  ApprovedHandoffIsCurrent'
    OBVIOUS
  <2>1. CASE Next
    <3>1. Does
      BY <2>1, StepsDo
    <3>2. CASE Kept
      BY <3>2 DEF Kept, ApprovedHandoffIsCurrent, IsGate, IsHandoff, Step
    <3>3. QED
      BY <3>1, <3>2, ChangedKeepsHandoffs, CutKeepsHandoffs, ApproveKeepsHandoffs, GrowsKeepsHandoffs
         DEF Does, Approves
  <2>2. CASE UNCHANGED vars
    BY <2>2 DEF vars, ApprovedHandoffIsCurrent, IsGate, IsHandoff, Step
  <2>3. QED
    BY <2>1, <2>2
<1>3. QED
  BY <1>1, <1>2, RunInvariant, PTL DEF Spec

-----------------------------------------------------------------------------
LEMMA GrowsAmendsNothing ==
  ASSUME RunInv, NEW h \in Step, Grows(h), NEW i \in Step
  PROVE  steps'[i].amendments = steps[i].amendments \/ steps'[i].amendments = << >>
<1>1. PICK m, new, N, n : GrownEntries(h, m, new, N, n)
  BY GrowsEntries DEF RunInv
<1>2. /\ \A j \in Step : j # h => steps'[Shift(h, n, j)] = steps[j]
      /\ \A k \in 1 .. n : steps'[h + k] = NewStep
      /\ \A y \in Step' : \/ \E j \in Step : y = Shift(h, n, j)
                          \/ \E k \in 1 .. n : y = h + k
      /\ steps'[h] = Made1(h, m) /\ m \in Manifest /\ Shift(h, n, h) = h
      /\ Step = 1 .. N /\ Step' = 1 .. N + n /\ N \in Nat /\ n \in Nat
  BY <1>1 DEF GrownEntries
<1>3. plan[h].kind = "phases" /\ steps[h].status = "pending" /\ steps[h] \in StepState
  BY StepFacts DEF Grows, IsPhases, RunInv
<1>4. CASE i = h
  <2>1. Made1(h, m).amendments = steps[h].amendments
    BY <1>2, <1>3, PlaceholderType
  <2>2. QED
    BY <1>2, <1>4, <2>1
<1>5. CASE i < h
  <2>1. Shift(h, n, i) = i
    BY <1>2, <1>5 DEF Shift
  <2>2. i # h
    BY <1>2, <1>5
  <2>3. QED
    BY <1>2, <2>1, <2>2
<1>6. CASE i > h
  <2>1. i \in Step'
    BY <1>2
  <2>2. ASSUME NEW k \in 1 .. n, i = h + k PROVE steps'[i].amendments = << >>
    <3>1. NewStep.amendments = << >>
      BY DEF NewStep
    <3>2. QED
      BY <1>2, <2>2, <3>1
  <2>3. ASSUME NEW j \in Step, i = Shift(h, n, j) PROVE steps'[i].amendments = << >>
    <3>1. h < j /\ j # h
      BY <1>2, <1>6, <2>3 DEF Shift
    <3>2. steps[j].amendments = << >>
      BY <1>3, <3>1 DEF RunInv, Untouched, Step
    <3>3. QED
      BY <1>2, <2>3, <3>1, <3>2
  <2>4. QED
    BY <1>2, <2>1, <2>2, <2>3
<1>7. QED
  BY <1>2, <1>4, <1>5, <1>6

(* Nothing behind a handoff that is being amended ever ran or holds anything. *)
LEMMA NothingRan ==
  ASSUME RunInv, NEW i \in Step, NotExecuted(i), NEW j \in Step, j > i
  PROVE  ~steps[j].ran /\ steps[j].status # "complete" /\ steps[j].output = Nil
<1>1. j \in Behind(i)
  BY StepFacts DEF RunInv
<1>2. /\ IsWork(j) => steps[j].output = Nil
      /\ steps[j].status # "complete"
      /\ IsAgent(j) => plan[j].id \notin started
      /\ log # "broken"
  BY <1>1 DEF NotExecuted
<1>3. Sound(plan[j], steps[j])
  BY DEF RunInv, AllSound, Step
<1>4. steps[j].output = Nil
  BY <1>2, <1>3 DEF Sound, Works, IsWork, IsAgent, IsHandoff
<1>5. ~steps[j].ran
  <2>1. steps[j].ran => plan[j].id \in started \/ log = "broken"
    BY DEF RunInv, Logged, Step
  <2>2. steps[j].ran => IsAgent(j)
    BY <1>3 DEF Sound, IsAgent
  <2>3. QED
    BY <1>2, <2>1, <2>2
<1>6. QED
  BY <1>2, <1>4, <1>5

(* A handoff is amended only before any agent behind it was ever started and *)
(* before anything behind it published or was approved                       *)
(* (host-handoff-amendment.service.ts assertDependenciesNotExecuted).        *)
AmendedNow ==
    \A i \in Step : Len(steps'[i].amendments) > Len(steps[i].amendments)
      => \A j \in Step : j > i => ~steps[j].ran /\ steps[j].status # "complete" /\ steps[j].output = Nil

LEMMA AmendsEarly ==
  ASSUME RunInv, Next
  PROVE  AmendedNow
<1> SUFFICES ASSUME NEW i \in Step, Len(steps'[i].amendments) > Len(steps[i].amendments),
                    NEW j \in Step, j > i
             PROVE  ~steps[j].ran /\ steps[j].status # "complete" /\ steps[j].output = Nil
  BY DEF AmendedNow
<1>1. Len(steps[i].amendments) \in Nat
  <2>1. steps[i].amendments \in Seq(Content)
    BY StepFacts DEF RunInv, StepState
  <2>2. QED
    BY <2>1, LenProperties
<1>2. steps'[i].amendments # steps[i].amendments /\ steps'[i].amendments # << >>
  <2>1. Len(<< >>) = 0
    OBVIOUS
  <2>2. QED
    BY <1>1, <2>1
<1>3. Does
  BY StepsDo
<1>4. ~Kept
  BY <1>2 DEF Kept
<1>5. ASSUME NEW k \in Step, Changed(k) PROVE FALSE
  <2>1. PICK r : ChangedTo(k, r)
    BY <1>5 DEF Changed
  <2>2. steps'[k] = r /\ \A l \in Step : l # k => steps'[l] = steps[l]
    BY <2>1, ChangedEntries
  <2>3. QED
    BY <1>2, <2>1, <2>2 DEF ChangedTo
<1>6. ASSUME NEW k \in Step, Approves(k) PROVE FALSE
  <2>1. PICK p, c : ApprovedEntries(k, p, c)
    BY <1>6, ApproveEntries DEF RunInv, Approves
  <2>2. /\ p \in Step
        /\ steps'[p] = [steps[p] EXCEPT !.output = c]
        /\ steps'[k] = [steps[k] EXCEPT !.status = "complete", !.approval = c]
        /\ \A l \in Step : l # p /\ l # k => steps'[l] = steps[l]
    BY <2>1 DEF ApprovedEntries
  <2>3. steps[p] \in StepState /\ steps[k] \in StepState
    BY <2>2, StepFacts DEF RunInv
  <2>4. steps'[p].amendments = steps[p].amendments /\ steps'[k].amendments = steps[k].amendments
    BY <2>2, <2>3 DEF StepState
  <2>5. QED
    BY <1>2, <2>2, <2>4
<1>7. ASSUME NEW k \in Step, Grows(k) PROVE FALSE
  BY <1>2, <1>7, GrowsAmendsNothing
<1>8. ASSUME NEW k \in Step, Cut(k) PROVE NotExecuted(i)
  BY <1>2, <1>8 DEF Cut, Amend, Amendable
<1>9. NotExecuted(i)
  BY <1>3, <1>4, <1>5, <1>6, <1>7, <1>8 DEF Does
<1>10. QED
  BY <1>9, NothingRan

THEOREM AmendmentsComeFirst == Spec => AmendedBeforeAnyReader
<1>1. RunInv /\ [Next]_vars => [AmendedNow]_vars
  BY AmendsEarly
<1>2. AmendedNow <=> \A i \in Step : Len(steps'[i].amendments) > Len(steps[i].amendments)
                       => \A j \in Step : j > i => /\ ~steps[j].ran
                                                   /\ steps[j].status # "complete"
                                                   /\ steps[j].output = Nil
  BY DEF AmendedNow
<1>3. QED
  BY <1>1, <1>2, RunInvariant, PTL DEF Spec, AmendedBeforeAnyReader

-----------------------------------------------------------------------------
(* The sequence of a materialized placeholder *)

(* s stands in p behind index i. *)
Follows(p, i, s) == i + Len(s) <= Len(p) /\ \A k \in 1 .. Len(s) : p[i + k] = s[k]

LEMMA FollowsIsPrefix ==
  ASSUME NEW S, NEW p \in Seq(S), NEW T, NEW s \in Seq(T), NEW i \in 1 .. Len(p)
  PROVE  IsPrefix(s, After(p, i)) <=> Follows(p, i, s)
<1> DEFINE N == Len(p)
           L == Len(s)
           t == SubSeq(p, i + 1, N)
<1>1. N \in Nat /\ L \in Nat /\ (\A j \in 1 .. N : p[j] \in S) /\ (\A k \in 1 .. L : s[k] \in T)
  BY LenProperties, ElementOfSeq
<1>2. t \in Seq(S) /\ Len(t) = N - i /\ \A k \in 1 .. N - i : t[k] = p[i + k]
  <2>1. i + 1 \in Int /\ N \in Int /\ \A j \in (i + 1) .. N : p[j] \in S
    BY <1>1
  <2> HIDE DEF N
  <2>2. /\ t \in Seq(S)
        /\ Len(t) = IF i + 1 <= N THEN N - (i + 1) + 1 ELSE 0
        /\ \A k \in 1 .. N - (i + 1) + 1 : t[k] = p[(i + 1) + k - 1]
    BY <2>1, SubSeqProperties
  <2>3. i \in 1 .. N /\ N \in Nat
    BY <1>1 DEF N
  <2> HIDE DEF t
  <2>4. QED
    BY <2>2, <2>3
<1>3. After(p, i) = t
  BY DEF After
<1> HIDE DEF N, L, t
<1>4. /\ SubSeq(s, 1, L) \in Seq(T) /\ Len(SubSeq(s, 1, L)) = L
      /\ \A k \in 1 .. L : SubSeq(s, 1, L)[k] = s[k]
  <2>1. /\ SubSeq(s, 1, L) \in Seq(T)
        /\ Len(SubSeq(s, 1, L)) = IF 1 <= L THEN L - 1 + 1 ELSE 0
        /\ \A k \in 1 .. L - 1 + 1 : SubSeq(s, 1, L)[k] = s[1 + k - 1]
    BY <1>1, SubSeqProperties
  <2>2. QED
    BY <1>1, <2>1
<1>5. ASSUME L <= N - i
      PROVE  /\ SubSeq(t, 1, L) \in Seq(S) /\ Len(SubSeq(t, 1, L)) = L
             /\ \A k \in 1 .. L : SubSeq(t, 1, L)[k] = p[i + k]
  <2>1. \A k \in 1 .. L : t[k] \in S
    BY <1>1, <1>2, <1>5, ElementOfSeq
  <2>2. /\ SubSeq(t, 1, L) \in Seq(S)
        /\ Len(SubSeq(t, 1, L)) = IF 1 <= L THEN L - 1 + 1 ELSE 0
        /\ \A k \in 1 .. L - 1 + 1 : SubSeq(t, 1, L)[k] = t[1 + k - 1]
    BY <1>1, <2>1, SubSeqProperties
  <2>3. QED
    BY <1>1, <1>2, <1>5, <2>2
<1>6. ASSUME IsPrefix(s, t) PROVE Follows(p, i, s)
  <2>1. L <= N - i /\ SubSeq(s, 1, L) = SubSeq(t, 1, L)
    BY <1>2, <1>6 DEF IsPrefix, L
  <2>2. \A k \in 1 .. L : s[k] = p[i + k]
    BY <1>4, <1>5, <2>1
  <2>3. QED
    BY <1>1, <2>1, <2>2 DEF Follows, L, N
<1>7. ASSUME Follows(p, i, s) PROVE IsPrefix(s, t)
  <2>1. L <= N - i /\ \A k \in 1 .. L : p[i + k] = s[k]
    BY <1>1, <1>7 DEF Follows, L, N
  <2>2. \A k \in 1 .. L : SubSeq(s, 1, L)[k] = SubSeq(t, 1, L)[k]
    BY <1>4, <1>5, <2>1
  <2>3. SubSeq(s, 1, L) = SubSeq(t, 1, L)
    BY <1>4, <1>5, <2>1, <2>2, SeqEqual
  <2>4. QED
    BY <1>2, <2>1, <2>3 DEF IsPrefix, L
<1>8. QED
  BY <1>3, <1>6, <1>7

(* A placeholder of a run is one of the frozen plan. *)
LEMMA PlaceholderIs ==
  ASSUME RunInv, NEW i \in Step, IsPhases(i)
  PROVE  plan[i] \in Placeholders
<1>1. PICK o \in Plans : \A j \in DOMAIN plan :
        \/ plan[j] \in ToSet(o)
        \/ plan[j].kind \in {"agent", "gate"}
  BY DEF RunInv, PlanOk, Rooted
<1>2. plan[i] \in ToSet(o)
  BY <1>1 DEF IsPhases, Step
<1>3. QED
  BY <1>2 DEF Placeholders, Planned, IsPhases

(* What a step of the run leaves of the entries up to index i.               *)
FrontStays(i) ==
    \A j \in 1 .. i : /\ j \in Step' /\ plan'[j] = plan[j]
                      /\ steps'[j].status = steps[j].status
                      /\ steps'[j].approval = steps[j].approval
                      /\ steps'[j].manifest = steps[j].manifest
                      /\ \/ steps'[j].output = steps[j].output
                         \/ \E g \in Step : /\ Approvable(g)
                                            /\ plan[j].artifact = plan[g].artifact
                                            /\ steps'[j].output = files[plan[g].artifact]

LEMMA FrontOfMaterialized ==
  ASSUME RunInv, Next, NEW i \in Step, IsPhases(i), steps[i].status = "complete"
  PROVE  FrontStays(i)
<1>1. \A j \in Step : j < i => Passed(steps[j])
  BY FrontPassed
<1>2. Step \subseteq Nat \ {0} /\ \A j \in 1 .. i : j \in Step /\ (j = i \/ j < i)
  BY StepFacts DEF RunInv
<1>3. Does
  BY <1>2, StepsDo
<1>4. ASSUME \A j \in 1 .. i : j \in Step' /\ plan'[j] = plan[j] /\ steps'[j] = steps[j]
      PROVE  FrontStays(i)
  BY <1>4 DEF FrontStays
<1>5. CASE Kept
  BY <1>2, <1>4, <1>5 DEF Kept, Step
<1>6. ASSUME NEW k \in Step, Changed(k) PROVE FrontStays(i)
  <2>1. PICK r : ChangedTo(k, r)
    BY <1>6 DEF Changed
  <2>2. /\ plan' = plan /\ Step' = Step /\ \A j \in Step : j # k => steps'[j] = steps[j]
    BY <2>1, ChangedEntries
  <2>3. k # i /\ ~(k < i)
    BY <1>1, <2>1 DEF ChangedTo
  <2>4. \A j \in 1 .. i : j # k
    BY <1>2, <2>3
  <2>5. QED
    BY <1>2, <1>4, <2>2, <2>4
<1>7. ASSUME NEW k \in Step, Cut(k) PROVE FrontStays(i)
  <2>1. /\ plan' = plan /\ Step' = Step /\ \A j \in Step : j < k => steps'[j] = steps[j]
        /\ \A j \in Step : j >= k /\ IsPhases(j) => steps[j].status = "pending"
    BY <1>7 DEF Cut, Frozen, Step
  <2>2. ~(i >= k)
    BY <2>1
  <2>3. \A j \in 1 .. i : j < k
    BY <1>2, <2>2
  <2>4. QED
    BY <1>2, <1>4, <2>1, <2>3
<1>8. ASSUME NEW g \in Step, Approve(g) PROVE FrontStays(i)
  <2>1. PICK p : ApprovedEntries(g, p, files[plan[g].artifact])
    BY <1>8, ApproveEntries DEF RunInv
  <2>2. Approvable(g) /\ plan' = plan /\ Step' = Step
    BY <1>8 DEF Approve, Frozen, Step
  <2>3. g # i /\ ~(g < i)
    BY <1>1, <2>2 DEF Approvable, Passed
  <2>4. /\ p \in Step /\ plan[p].artifact = plan[g].artifact
        /\ steps'[p] = [steps[p] EXCEPT !.output = files[plan[g].artifact]]
        /\ \A j \in Step : j # p /\ j # g => steps'[j] = steps[j]
    BY <2>1 DEF ApprovedEntries
  <2>5. steps[p] \in StepState
    BY <2>4, StepFacts DEF RunInv
  <2> DEFINE c == files[plan[g].artifact]
  <2> HIDE DEF c
  <2>6. /\ steps'[p].status = steps[p].status /\ steps'[p].approval = steps[p].approval
        /\ steps'[p].manifest = steps[p].manifest /\ steps'[p].output = c
    <3>1. steps'[p] = [steps[p] EXCEPT !.output = c]
      BY <2>4 DEF c
    <3>2. QED
      BY <2>5, <3>1 DEF StepState
  <2>7. \A j \in 1 .. i : j # g
    BY <1>2, <2>3
  <2> SUFFICES ASSUME NEW j \in 1 .. i
               PROVE  /\ j \in Step' /\ plan'[j] = plan[j]
                      /\ steps'[j].status = steps[j].status
                      /\ steps'[j].approval = steps[j].approval
                      /\ steps'[j].manifest = steps[j].manifest
                      /\ \/ steps'[j].output = steps[j].output
                         \/ \E h \in Step : /\ Approvable(h)
                                            /\ plan[j].artifact = plan[h].artifact
                                            /\ steps'[j].output = files[plan[h].artifact]
    BY DEF FrontStays
  <2>8. CASE j = p
    BY <2>2, <2>4, <2>6, <2>8 DEF c
  <2>9. CASE j # p
    BY <1>2, <2>2, <2>4, <2>7, <2>9
  <2>10. QED
    BY <2>8, <2>9
<1>9. ASSUME NEW k \in Step, Grows(k) PROVE FrontStays(i)
  <2>1. PICK m, new, N, n : GrownEntries(k, m, new, N, n)
    BY <1>9, GrowsEntries DEF RunInv
  <2>2. /\ \A j \in Step : Shift(k, n, j) \in Step' /\ plan'[Shift(k, n, j)] = plan[j]
        /\ \A j \in Step : j # k => steps'[Shift(k, n, j)] = steps[j]
    BY <2>1 DEF GrownEntries
  <2>3. steps[k].status = "pending"
    BY <1>9 DEF Grows
  <2>4. k # i /\ ~(k < i)
    BY <1>1, <2>3 DEF Passed
  <2>5. \A j \in 1 .. i : j < k /\ j # k /\ Shift(k, n, j) = j
    BY <1>2, <2>4 DEF Shift
  <2>6. QED
    BY <1>2, <1>4, <2>2, <2>5
<1>10. QED
  BY <1>3, <1>5, <1>6, <1>7, <1>8, <1>9 DEF Does, Approves

(* What SequenceIsOfApprovedManifest says of one placeholder.                *)
Backed(i) ==
    \E g \in 1 .. i - 1 : /\ IsGate(g) /\ plan[g].artifact = plan[i].artifact
                          /\ steps[g].status = "complete" /\ steps[g].approval = steps[i].manifest
SequencePlaced(i) == Follows(plan, i, Generated[plan[i]][steps[i].manifest])
SequencesStand ==
    \A i \in Step : IsPhases(i) /\ steps[i].status = "complete" => Backed(i) /\ SequencePlaced(i)

LEMMA SequencesStandIs ==
  ASSUME RunInv
  PROVE  SequencesStand <=> SequenceIsOfApprovedManifest
<1>1. ASSUME NEW i \in Step, IsPhases(i), steps[i].status = "complete"
      PROVE  SequencePlaced(i) <=> IsPrefix(Generated[plan[i]][steps[i].manifest], After(plan, i))
  <2> DEFINE s == Generated[plan[i]][steps[i].manifest]
  <2>1. s \in Seq(Made)
    <3>1. plan[i] \in Placeholders
      BY <1>1, PlaceholderIs
    <3>2. steps[i].manifest \in Manifest
      BY <1>1 DEF RunInv, AllSound, Sound, IsPhases, Step
    <3>3. QED
      BY <3>1, <3>2, GeneratedGroup DEF Group, Shaped
  <2>2. plan \in Seq(StepDef) /\ i \in 1 .. Len(plan)
    BY StepFacts DEF RunInv, TypeOK
  <2> HIDE DEF s
  <2>3. IsPrefix(s, After(plan, i)) <=> Follows(plan, i, s)
    BY <2>1, <2>2, FollowsIsPrefix
  <2>4. QED
    BY <2>3 DEF SequencePlaced, s
<1>2. QED
  BY <1>1 DEF SequencesStand, SequenceIsOfApprovedManifest, Backed

(* The gate that stands for a manifest, and its text, are there when the     *)
(* manifest is read.                                                         *)
LEMMA ReadIsBacked ==
  ASSUME RunInv, NEW k \in Step, ApprovedAsRead(k)
  PROVE  \E g \in 1 .. k - 1 : /\ IsGate(g) /\ plan[g].artifact = plan[k].artifact
                               /\ steps[g].status = "complete"
                               /\ steps[g].approval = files[plan[k].artifact]
<1> DEFINE gates == {g \in 1 .. k - 1 :
                       /\ IsGate(g) /\ plan[g].artifact = plan[k].artifact
                       /\ steps[g].status = "complete" /\ steps[g].approval # Nil}
<1>1. gates # {} /\ steps[FirstOf(gates)].approval = files[plan[k].artifact]
  BY DEF ApprovedAsRead
<1>2. k - 1 \in Nat /\ gates \subseteq 1 .. k - 1
  BY StepFacts DEF RunInv
<1>3. FirstOf(gates) \in gates
  <2> HIDE DEF gates
  <2> QED
    BY <1>1, <1>2, FirstStep
<1>4. QED
  BY <1>1, <1>3

(* A materialization puts the sequence of its manifest behind the            *)
(* placeholder, and parts no earlier sequence.                               *)
LEMMA GrowsKeepsSequences ==
  ASSUME RunInv, SequencesStand, NEW k \in Step, Grows(k), Next
  PROVE  SequencesStand'
<1> DEFINE c == files[plan[k].artifact]
<1>1. PICK m, new, N, n : GrownEntries(k, m, new, N, n) /\ m = c
  BY GrowsEntries DEF RunInv
<1>2. /\ \A j \in Step : Shift(k, n, j) \in Step' /\ plan'[Shift(k, n, j)] = plan[j]
      /\ \A j \in Step : j # k => steps'[Shift(k, n, j)] = steps[j]
      /\ Shift(k, n, k) = k /\ steps'[k] = Made1(k, m)
      /\ \A l \in 1 .. n : k + l \in Step' /\ plan'[k + l] = new[l]
      /\ \A y \in Step' : \/ \E j \in Step : y = Shift(k, n, j)
                          \/ \E l \in 1 .. n : y = k + l
      /\ Step = 1 .. N /\ Step' = 1 .. N + n /\ N \in Nat /\ n \in Nat /\ N = Len(plan)
      /\ m \in Manifest /\ new = Generated[plan[k]][m] /\ n = Len(new)
  BY <1>1 DEF GrownEntries
<1>3. Len(plan') = N + n
  <2>1. plan' \in Seq(StepDef)
    BY <1>1 DEF GrownEntries, PlanOk
  <2>2. Len(plan') \in Nat /\ Step' = 1 .. Len(plan')
    BY <2>1, LenProperties DEF Step
  <2>3. QED
    BY <1>2, <2>2
<1>4. steps[k].status = "pending" /\ IsPhases(k) /\ ApprovedAsRead(k)
      /\ \A j \in Step : j < k => Passed(steps[j])
  BY DEF Grows
<1> SUFFICES ASSUME NEW y \in Step', plan'[y].kind = "phases", steps'[y].status = "complete"
             PROVE  /\ \E g \in 1 .. y - 1 : /\ plan'[g].kind = "gate" /\ plan'[g].artifact = plan'[y].artifact
                                             /\ steps'[g].status = "complete"
                                             /\ steps'[g].approval = steps'[y].manifest
                    /\ Follows(plan', y, Generated[plan'[y]][steps'[y].manifest])
  BY DEF SequencesStand, Backed, SequencePlaced, IsGate, IsPhases
<1>5. PICK x \in Step : y = Shift(k, n, x)
  <2>1. \A l \in 1 .. n : plan'[k + l].kind \in {"agent", "gate"}
    BY <1>1, MadeKinds
  <2>2. \A l \in 1 .. n : y # k + l
    BY <2>1
  <2>3. QED
    BY <1>2, <2>2
<1>6. CASE x = k
  <2>1. y = k /\ plan'[y] = plan[k]
    BY <1>2, <1>5, <1>6
  <2>2. steps'[y].manifest = m
    <3>1. steps[k] \in StepState
      BY StepFacts DEF RunInv
    <3>2. QED
      BY <1>2, <2>1, <3>1, PlaceholderType
  <2>3. PICK g \in 1 .. k - 1 : /\ IsGate(g) /\ plan[g].artifact = plan[k].artifact
                                /\ steps[g].status = "complete" /\ steps[g].approval = c
    BY <1>4, ReadIsBacked
  <2>4. g \in Step /\ g # k /\ Shift(k, n, g) = g
    BY <1>2 DEF Shift
  <2>5. plan'[g] = plan[g] /\ steps'[g] = steps[g]
    BY <1>2, <2>4
  <2>6. Follows(plan', y, new)
    BY <1>2, <1>3, <2>1 DEF Follows
  <2>7. Generated[plan'[y]][steps'[y].manifest] = new
    BY <1>2, <2>1, <2>2
  <2>8. QED
    <3>1. g \in 1 .. y - 1
      BY <2>1
    <3>2. /\ plan'[g].kind = "gate" /\ plan'[g].artifact = plan'[y].artifact
          /\ steps'[g].status = "complete" /\ steps'[g].approval = steps'[y].manifest
      BY <1>1, <2>1, <2>2, <2>3, <2>5 DEF IsGate
    <3>3. QED
      BY <2>6, <2>7, <3>1, <3>2
<1>7. CASE x # k
  <2>1. /\ IsPhases(x) /\ steps[x].status = "complete"
        /\ plan'[y] = plan[x] /\ steps'[y] = steps[x]
    BY <1>2, <1>5, <1>7 DEF IsPhases
  <2>2. x < k
    <3>1. \A j \in Step : j < x => Passed(steps[j])
      BY <2>1, FrontPassed
    <3>2. ~(k < x)
      BY <1>4, <3>1 DEF Passed
    <3>3. QED
      BY <1>2, <1>7, <3>2
  <2>3. y = x
    BY <1>2, <1>5, <2>2 DEF Shift
  <2>4. Backed(x) /\ SequencePlaced(x)
    BY <2>1 DEF SequencesStand
  <2>5. PICK g \in 1 .. x - 1 : /\ IsGate(g) /\ plan[g].artifact = plan[x].artifact
                                /\ steps[g].status = "complete" /\ steps[g].approval = steps[x].manifest
    BY <2>4 DEF Backed
  <2>6. plan'[g] = plan[g] /\ steps'[g] = steps[g]
    <3>1. g \in Step /\ g # k /\ Shift(k, n, g) = g
      BY <1>2, <2>2 DEF Shift
    <3>2. QED
      BY <1>2, <3>1
  <2> DEFINE s == Generated[plan[x]][steps[x].manifest]
  <2>7. Follows(plan, x, s)
    BY <2>4 DEF SequencePlaced
  <2>8. s \in Seq(Made) /\ Len(s) \in Nat
    <3>1. plan[x] \in Placeholders
      BY <2>1, PlaceholderIs
    <3>2. steps[x].manifest \in Manifest
      BY <2>1 DEF RunInv, AllSound, Sound, IsPhases, Step
    <3>3. QED
      BY <3>1, <3>2, GeneratedGroup DEF Group, Shaped
  <2> HIDE DEF s
  <2>9. x + Len(s) <= N /\ \A l \in 1 .. Len(s) : plan[x + l] = s[l]
    BY <1>2, <2>7 DEF Follows
  <2>10. ASSUME x + Len(s) >= k PROVE FALSE
    <3>1. k - x \in 1 .. Len(s) /\ x + (k - x) = k
      BY <1>2, <2>2, <2>8, <2>10
    <3>2. plan[k] = s[k - x]
      BY <2>9, <3>1
    <3>3. s[k - x] \in Made
      BY <2>8, <3>1, ElementOfSeq
    <3>4. plan[k].kind \in {"agent", "gate"}
      BY <3>2, <3>3 DEF Made
    <3>5. QED
      BY <1>4, <3>4 DEF IsPhases
  <2>11. ASSUME NEW l \in 1 .. Len(s) PROVE plan'[x + l] = s[l]
    <3>1. x + l \in Step /\ Shift(k, n, x + l) = x + l
      <4>1. k \in Nat /\ x \in 1 .. N /\ k <= N /\ l \in Nat /\ 1 <= l /\ l <= Len(s)
        BY <1>2, <2>8
      <4>2. x + l < k
        BY <2>8, <2>10, <4>1
      <4>3. x + l \in 1 .. N
        BY <1>2, <4>1, <4>2
      <4>4. Step = 1 .. N /\ x + l <= k
        BY <1>2, <4>1, <4>2
      <4>5. x + l \in Step
        BY <4>3, <4>4
      <4>6. Shift(k, n, x + l) = x + l
        BY <4>4 DEF Shift
      <4>7. QED
        BY <4>5, <4>6
    <3>2. plan'[x + l] = plan[x + l]
      <4> DEFINE z == x + l
      <4>1. z \in Step /\ Shift(k, n, z) = z
        BY <3>1
      <4> HIDE DEF z
      <4>2. plan'[z] = plan[z]
        BY <1>2, <4>1
      <4>3. QED
        BY <4>2 DEF z
    <3>3. QED
      BY <2>9, <3>2
  <2>12. Follows(plan', y, s)
    <3>1. x + Len(s) <= N + n
      BY <1>2, <2>8, <2>9
    <3>2. QED
      BY <1>3, <2>3, <2>11, <3>1 DEF Follows
  <2>13. Generated[plan'[y]][steps'[y].manifest] = s
    BY <2>1 DEF s
  <2>14. /\ g \in 1 .. y - 1
         /\ plan'[g].kind = "gate" /\ plan'[g].artifact = plan'[y].artifact
         /\ steps'[g].status = "complete" /\ steps'[g].approval = steps'[y].manifest
    BY <2>1, <2>3, <2>5, <2>6 DEF IsGate
  <2>15. QED
    BY <2>12, <2>13, <2>14
<1>8. QED
  BY <1>6, <1>7

(* Steps that leave the plan alone complete no placeholder.                  *)
LEMMA OtherStepsKeepSequences ==
  ASSUME RunInv, SequencesStand, Next, plan' = plan, Step' = Step,
         \A i \in Step : IsPhases(i) /\ steps'[i].status = "complete" => steps[i].status = "complete"
  PROVE  SequencesStand'
<1> SUFFICES ASSUME NEW i \in Step, IsPhases(i), steps'[i].status = "complete"
             PROVE  /\ \E g \in 1 .. i - 1 : /\ IsGate(g) /\ plan[g].artifact = plan[i].artifact
                                             /\ steps'[g].status = "complete"
                                             /\ steps'[g].approval = steps'[i].manifest
                    /\ Follows(plan, i, Generated[plan[i]][steps'[i].manifest])
  BY DEF SequencesStand, Backed, SequencePlaced, IsGate, IsPhases
<1>1. steps[i].status = "complete"
  OBVIOUS
<1>2. Backed(i) /\ SequencePlaced(i)
  BY <1>1 DEF SequencesStand
<1>3. \A j \in 1 .. i : /\ steps'[j].status = steps[j].status
                        /\ steps'[j].approval = steps[j].approval
                        /\ steps'[j].manifest = steps[j].manifest
  BY <1>1, FrontOfMaterialized DEF FrontStays
<1>4. i \in 1 .. i /\ \A g \in 1 .. i - 1 : g \in 1 .. i
  BY StepFacts DEF RunInv
<1>5. steps'[i].manifest = steps[i].manifest
  BY <1>3, <1>4
<1>6. QED
  BY <1>2, <1>3, <1>4, <1>5 DEF Backed, SequencePlaced

LEMMA SequencesStandStep ==
  ASSUME RunInv, SequencesStand, Next
  PROVE  SequencesStand'
<1>1. Does
  BY StepsDo
<1>2. CASE Kept
  BY <1>2, OtherStepsKeepSequences DEF Kept, Step
<1>3. ASSUME NEW k \in Step, Changed(k) PROVE SequencesStand'
  <2>1. PICK r : ChangedTo(k, r)
    BY <1>3 DEF Changed
  <2>2. plan' = plan /\ Step' = Step /\ \A j \in Step : j # k => steps'[j] = steps[j]
    BY <2>1, ChangedEntries
  <2>3. ~IsPhases(k)
    BY <2>1 DEF ChangedTo
  <2>4. QED
    BY <2>2, <2>3, OtherStepsKeepSequences
<1>4. ASSUME NEW k \in Step, Cut(k) PROVE SequencesStand'
  <2>1. /\ plan' = plan /\ Step' = Step /\ \A j \in Step : j < k => steps'[j] = steps[j]
        /\ \A j \in Step : j >= k => steps'[j].status # "complete"
    BY <1>4 DEF Cut, Frozen, Step
  <2>2. \A j \in Step : j < k \/ j >= k
    BY StepFacts DEF RunInv
  <2>3. QED
    BY <2>1, <2>2, OtherStepsKeepSequences
<1>5. ASSUME NEW g \in Step, Approve(g) PROVE SequencesStand'
  <2>1. PICK p : ApprovedEntries(g, p, files[plan[g].artifact])
    BY <1>5, ApproveEntries DEF RunInv
  <2>2. /\ plan' = plan /\ Step' = Step /\ ~IsPhases(g)
    BY <1>5 DEF Approve, Approvable, Frozen, Step, IsGate, IsPhases
  <2>3. /\ p \in Step /\ steps[p].status = "complete"
        /\ \A j \in Step : j # p /\ j # g => steps'[j] = steps[j]
    BY <2>1 DEF ApprovedEntries
  <2>4. QED
    BY <2>2, <2>3, OtherStepsKeepSequences
<1>6. QED
  BY <1>1, <1>2, <1>3, <1>4, <1>5, GrowsKeepsSequences DEF Does, Approves

LEMMA SequencesInvariant == Spec => []SequencesStand
<1>1. Init => SequencesStand
  BY DEF Init, SequencesStand, NewStep
<1>2. RunInv /\ SequencesStand /\ [Next]_vars => SequencesStand'
  <2>1. ASSUME RunInv, SequencesStand, UNCHANGED vars PROVE SequencesStand'
    BY <2>1 DEF vars, SequencesStand, Backed, SequencePlaced, IsPhases, IsGate, Step
  <2>2. QED
    BY <2>1, SequencesStandStep
<1>3. QED
  BY <1>1, <1>2, RunInvariant, PTL DEF Spec

(* The steps behind a materialized placeholder are those of the manifest a   *)
(* human approved, whose approval still stands                               *)
(* (ImplementationPhaseMaterializerService.materialize).                     *)
THEOREM SequencesOfApprovedManifests == Spec => []SequenceIsOfApprovedManifest
<1>1. RunInv /\ SequencesStand => SequenceIsOfApprovedManifest
  BY SequencesStandIs
<1>2. QED
  BY <1>1, RunInvariant, SequencesInvariant, PTL

-----------------------------------------------------------------------------
(* The texts that amendments replace *)

(* What AmendedTextIsKept says of a handoff d and its entry r.               *)
TextKept(d, r, F, A) ==
    /\ \A n \in DOMAIN r.amendments : A[d.id][n] = r.amendments[n]
    /\ r.status = "complete" /\ F[d.artifact] # r.output
         /\ d.artifact \notin Editable /\ ~d.internal
       => A[d.id][Len(r.amendments) + 1] = r.output
TextsKept(p, s, F, A) == \A i \in DOMAIN p : p[i].kind = "host-handoff" => TextKept(p[i], s[i], F, A)

LEMMA TextsKeptIs == AmendedTextIsKept <=> TextsKept(plan, steps, files, archive)
  BY DEF AmendedTextIsKept, TextsKept, TextKept, IsHandoff, Revision, Step

(* The file of a completed handoff stays, unless somebody may edit it or the *)
(* run may discard it.                                                       *)
Guarded(j) ==
    /\ IsHandoff(j) /\ steps[j].status = "complete"
    /\ plan[j].artifact \notin Editable /\ ~plan[j].internal
FilesStay == archive' = archive /\ \A j \in Step : Guarded(j) => files'[plan[j].artifact] = files[plan[j].artifact]

LEMMA SameFilesStay ==
  ASSUME files' = files, archive' = archive
  PROVE  FilesStay
  BY DEF FilesStay

(* The step under way writes an artifact of its own, or an agent's.          *)
LEMMA PublishedFilesStay ==
  ASSUME RunInv, NEW i \in Step, IsWork(i), steps[i].status # "complete", NEW c,
         files' = Publish(i, c), archive' = archive
  PROVE  FilesStay
<1> SUFFICES ASSUME NEW j \in Step, Guarded(j)
             PROVE  files'[plan[j].artifact] = files[plan[j].artifact]
  BY DEF FilesStay
<1>1. j # i /\ plan[i].artifact # plan[j].artifact
  BY HandoffFacts DEF Guarded
<1>2. files' = [files EXCEPT ![plan[i].artifact] = c]
  BY DEF Publish
<1>3. QED
  BY <1>1, <1>2

LEMMA DiscardedFilesStay ==
  ASSUME RunInv, NEW i \in Step, IsWork(i), files' = Discarded(plan[i].artifact, plan[i].internal),
         archive' = archive
  PROVE  FilesStay
<1> SUFFICES ASSUME NEW j \in Step, Guarded(j)
             PROVE  files'[plan[j].artifact] = files[plan[j].artifact]
  BY DEF FilesStay
<1>1. CASE i = j
  BY <1>1 DEF Guarded, Discarded
<1>2. CASE i # j
  <2>1. plan[i].artifact # plan[j].artifact
    BY <1>2, HandoffFacts DEF Guarded
  <2>2. files' = files \/ files' = [files EXCEPT ![plan[i].artifact] = Nil]
    BY DEF Discarded
  <2>3. CASE files' = files
    BY <2>3
  <2>4. CASE files' = [files EXCEPT ![plan[i].artifact] = Nil]
    BY <2>1, <2>4
  <2>5. QED
    BY <2>2, <2>3, <2>4
<1>3. QED
  BY <1>1, <1>2

LEMMA ServedFilesStay ==
  ASSUME RunInv, AdvanceReuses \/ AgentReturns \/ AgentFails
  PROVE  FilesStay
<1>1. Served \in Step /\ IsWork(Served) /\ steps[Served].status = "in_progress"
  BY ServedFacts DEF AdvanceReuses, AgentReturns, AgentFails, IsWork, IsAgent
<1>2. ASSUME NEW f, NEW b, Completes(Served, f, b) \/ Fails(Served, f)
      PROVE  files' = f /\ archive' = archive
  BY <1>2 DEF Completes, Fails, Quiet
<1>3. CASE AdvanceReuses \/ AgentFails
  BY <1>2, <1>3, SameFilesStay DEF AdvanceReuses, AgentFails
<1>4. CASE AgentReturns
  <2>1. PICK c \in Writes[plan[Served].artifact] :
           \/ \E b \in {"none", "next"} : Completes(Served, Publish(Served, c), b)
           \/ Fails(Served, Publish(Served, c))
    BY <1>4 DEF AgentReturns
  <2>2. files' = Publish(Served, c) /\ archive' = archive
    BY <1>2, <2>1
  <2>3. IsWork(Served) /\ steps[Served].status # "complete"
    BY <1>1
  <2> HIDE DEF Served
  <2>4. QED
    BY <1>1, <2>2, <2>3, PublishedFilesStay
<1>5. QED
  BY <1>3, <1>4

LEMMA RetriedFilesStay ==
  ASSUME RunInv, ApplyVerdictRetry
  PROVE  FilesStay
<1> DEFINE t == IndexOf(plan[Cur].retryFrom)
           gone(a) == \E k \in {t} \cup Behind(t) :
                        IsAgent(k) /\ plan[k].internal /\ plan[k].artifact = a
<1>1. /\ call = "retry" /\ archive' = archive
      /\ files' = [a \in Artifact |-> IF gone(a) THEN Nil ELSE files[a]]
  BY DEF ApplyVerdictRetry, RetriesVerdict, Quiet
<1>2. t \in Step
  BY <1>1, RetryTarget
<1>3. \A k \in {t} \cup Behind(t) : k \in Step
  BY <1>2, StepFacts DEF RunInv
<1> SUFFICES ASSUME NEW j \in Step, Guarded(j)
             PROVE  files'[plan[j].artifact] = files[plan[j].artifact]
  BY <1>1 DEF FilesStay
<1>4. ~gone(plan[j].artifact)
  <2> SUFFICES ASSUME NEW k \in {t} \cup Behind(t), IsAgent(k), plan[k].artifact = plan[j].artifact
               PROVE  FALSE
    OBVIOUS
  <2>1. k = j
    BY <1>3, HandoffFacts DEF Guarded, IsWork
  <2>2. QED
    BY <2>1 DEF Guarded, IsAgent, IsHandoff
<1>5. plan[j].artifact \in Artifact
  BY StepFacts, StepDefFacts DEF RunInv
<1> HIDE DEF gone
<1>6. QED
  BY <1>1, <1>4, <1>5

LEMMA SubmittedFilesStay ==
  ASSUME RunInv, NEW i \in Step, Submits(i)
  PROVE  FilesStay
<1>1. IsWork(i) /\ steps[i].status # "complete"
  BY UnderWay DEF Submits, IsWork
<1>2. \E c : files' = Publish(i, c) /\ archive' = archive
  BY DEF Submits, Completes, Fails, Quiet
<1>3. QED
  BY <1>1, <1>2, PublishedFilesStay

LEMMA ReworkedFilesStay ==
  ASSUME RunInv, NEW g \in Step, RequestChanges(g)
  PROVE  FilesStay
<1> DEFINE p == producerForArtifact(plan[g].artifact)
<1>1. /\ Producers(plan[g].artifact) # {} /\ archive' = archive
      /\ files' = Discarded(plan[g].artifact, plan[p].internal)
  BY DEF RequestChanges, Quiet
<1>2. p \in Step /\ IsWork(p) /\ plan[p].artifact = plan[g].artifact
  BY <1>1, ProducerFacts DEF RunInv
<1> HIDE DEF p
<1>3. QED
  BY <1>1, <1>2, DiscardedFilesStay

LEMMA EditedFilesStay ==
  ASSUME RunInv, NEW a \in Artifact, Edit(a)
  PROVE  FilesStay
<1>1. a \in Editable /\ archive' = archive /\ \E c : files' = [files EXCEPT ![a] = c]
  BY DEF Edit, Quiet
<1>2. QED
  BY <1>1 DEF FilesStay, Guarded

(* Only an amendment, finished or not, archives a text.                      *)
Amends == \E i \in Step : Amend(i) \/ AmendCutOff(i)

LEMMA OtherFilesStay ==
  ASSUME RunInv, Next, ~Amends
  PROVE  FilesStay
<1>1. ASSUME Machine PROVE FilesStay
  <2>1. ASSUME NEW i \in Step,
               NextGate(i) \/ NextPhases(i) \/ NextInProgress(i) \/ NextStarts(i) \/ Materialize(i)
        PROVE  files' = files /\ archive' = archive
    BY <2>1 DEF NextGate, NextPhases, NextInProgress, NextStarts, Materialize, Quiet
  <2>2. ASSUME \/ PreflightRefuses \/ NextStops \/ AdvanceLogs \/ AdvanceSpawns
               \/ RetryLost \/ PrepareHandoff
        PROVE  files' = files /\ archive' = archive
    BY <2>2 DEF PreflightRefuses, NextStops, AdvanceLogs, AdvanceSpawns, RetryLost, PrepareHandoff, Quiet
  <2>3. QED
    BY <1>1, <2>1, <2>2, SameFilesStay, ServedFilesStay, RetriedFilesStay DEF Machine
<1>2. ASSUME Human PROVE FilesStay
  <2>1. ASSUME NEW i \in Step, PrepareExternal(i) \/ Approve(i) \/ ApproveRefused(i) \/ Acknowledge(i)
        PROVE  files' = files /\ archive' = archive
    BY <2>1 DEF PrepareExternal, Approve, ApproveRefused, Acknowledge, Quiet
  <2>2. ASSUME NEW i \in Step, Retry(i)
        PROVE  FilesStay
    BY <2>2, DiscardedFilesStay DEF Retry, Quiet
  <2>3. QED
    BY <1>2, <2>1, <2>2, SameFilesStay, SubmittedFilesStay, ReworkedFilesStay, EditedFilesStay
       DEF Human, Amends, SubmitHostOutput, SubmitAgentOutput
<1>3. ASSUME AdvanceStarts \/ Crash \/ LogGrows
      PROVE  files' = files /\ archive' = archive
  BY <1>3 DEF AdvanceStarts, Crash, LogGrows, Quiet
<1>4. QED
  BY <1>1, <1>2, <1>3, SameFilesStay DEF Next

(* An entry whose text and amendments stay keeps what was archived.          *)
LEMMA EntryKeepsText ==
  ASSUME NEW d, NEW r, NEW x, NEW F, NEW G, NEW A, TextKept(d, r, F, A),
         x.amendments = r.amendments,
         \/ x.status # "complete"
         \/ x.output = G[d.artifact]
         \/ /\ r.status = "complete" /\ x.output = r.output
            /\ d.artifact \notin Editable /\ ~d.internal => G[d.artifact] = F[d.artifact]
  PROVE  TextKept(d, x, G, A)
  BY DEF TextKept

(* Where no text is archived or replaced.                                    *)
LEMMA OthersKeepTexts ==
  ASSUME RunInv, Next, ~Amends, TextsKept(plan, steps, files, archive)
  PROVE  TextsKept(plan', steps', files', archive')
<1>1. archive' = archive /\ \A j \in Step : Guarded(j) => files'[plan[j].artifact] = files[plan[j].artifact]
  BY OtherFilesStay DEF FilesStay
<1>2. \A j \in Step : plan[j].kind = "host-handoff" => TextKept(plan[j], steps[j], files, archive)
  BY DEF TextsKept, Step
<1>3. ASSUME NEW j \in Step, IsHandoff(j), NEW x,
             x.amendments = steps[j].amendments,
             \/ x.status # "complete"
             \/ x.output = files'[plan[j].artifact]
             \/ steps[j].status = "complete" /\ x.output = steps[j].output
      PROVE  TextKept(plan[j], x, files', archive)
  <2>1. TextKept(plan[j], steps[j], files, archive)
    BY <1>2, <1>3 DEF IsHandoff
  <2>2. steps[j].status = "complete" /\ plan[j].artifact \notin Editable /\ ~plan[j].internal
          => files'[plan[j].artifact] = files[plan[j].artifact]
    BY <1>1, <1>3 DEF Guarded
  <2>3. QED
    BY <1>3, <2>1, <2>2, EntryKeepsText
<1>4. ASSUME plan' = plan, NEW k \in Step, \A j \in Step : j # k => steps'[j] = steps[j],
             IsHandoff(k) => /\ steps'[k].amendments = steps[k].amendments
                             /\ \/ steps'[k].status # "complete"
                                \/ steps'[k].output = files'[plan[k].artifact]
                                \/ steps[k].status = "complete" /\ steps'[k].output = steps[k].output
      PROVE  TextsKept(plan', steps', files', archive')
  <2> SUFFICES ASSUME NEW j \in Step, IsHandoff(j) PROVE TextKept(plan[j], steps'[j], files', archive)
    BY <1>1, <1>4 DEF TextsKept, IsHandoff, Step
  <2>1. /\ steps'[j].amendments = steps[j].amendments
        /\ \/ steps'[j].status # "complete"
           \/ steps'[j].output = files'[plan[j].artifact]
           \/ steps[j].status = "complete" /\ steps'[j].output = steps[j].output
    BY <1>4
  <2>2. QED
    BY <1>3, <2>1
<1>5. CASE Kept
  <2> SUFFICES ASSUME NEW j \in Step, IsHandoff(j) PROVE TextKept(plan[j], steps[j], files', archive)
    BY <1>1, <1>5 DEF Kept, TextsKept, IsHandoff, Step
  <2>1. QED
    BY <1>3
<1>6. ASSUME NEW k \in Step, Changed(k) PROVE TextsKept(plan', steps', files', archive')
  <2>1. PICK r : ChangedTo(k, r)
    BY <1>6 DEF Changed
  <2>2. /\ plan' = plan /\ steps'[k] = r /\ \A j \in Step : j # k => steps'[j] = steps[j]
    BY <2>1, ChangedEntries
  <2>3. IsHandoff(k) => /\ r.amendments = steps[k].amendments
                        /\ \/ r.status # "complete"
                           \/ r.output = files'[plan[k].artifact]
                           \/ steps[k].status = "complete" /\ r.output = steps[k].output
    BY <2>1 DEF ChangedTo
  <2>4. QED
    BY <1>4, <2>2, <2>3
<1>7. ASSUME NEW k \in Step, Cut(k) PROVE TextsKept(plan', steps', files', archive')
  <2>1. /\ plan' = plan /\ \A j \in Step : j < k => steps'[j] = steps[j]
        /\ \A j \in Step : j >= k => steps'[j].status # "complete"
    BY <1>7 DEF Cut, Frozen
  <2>2. \A j \in Step : steps'[j].amendments = steps[j].amendments
    BY <1>7 DEF Cut, Amends
  <2>3. \A j \in Step : j < k \/ j >= k
    BY StepFacts DEF RunInv
  <2> SUFFICES ASSUME NEW j \in Step, IsHandoff(j) PROVE TextKept(plan[j], steps'[j], files', archive)
    BY <1>1, <2>1 DEF TextsKept, IsHandoff, Step
  <2>4. \/ steps'[j].status # "complete"
        \/ steps[j].status = "complete" /\ steps'[j].output = steps[j].output
    BY <2>1, <2>3
  <2>5. QED
    BY <1>3, <2>2, <2>4
<1>8. ASSUME NEW g \in Step, Approve(g) PROVE TextsKept(plan', steps', files', archive')
  <2> DEFINE c == files[plan[g].artifact]
  <2>1. PICK p : ApprovedEntries(g, p, c)
    BY <1>8, ApproveEntries DEF RunInv
  <2>2. plan' = plan /\ files' = files /\ IsGate(g)
    BY <1>8 DEF Approve, Approvable, Frozen
  <2>3. /\ p \in Step /\ plan[p].artifact = plan[g].artifact
        /\ steps'[p] = [steps[p] EXCEPT !.output = c]
        /\ \A j \in Step : j # p /\ j # g => steps'[j] = steps[j]
    BY <2>1 DEF ApprovedEntries
  <2>4. steps[p] \in StepState
    BY <2>3, StepFacts DEF RunInv
  <2>5. c = files'[plan[p].artifact]
    BY <2>2, <2>3
  <2> HIDE DEF c
  <2>6. steps'[p].output = c /\ steps'[p].amendments = steps[p].amendments
    BY <2>3, <2>4 DEF StepState
  <2> SUFFICES ASSUME NEW j \in Step, IsHandoff(j) PROVE TextKept(plan[j], steps'[j], files', archive)
    BY <1>1, <2>2 DEF TextsKept, IsHandoff, Step
  <2>7. j # g
    BY <2>2 DEF IsGate, IsHandoff
  <2>8. CASE j = p
    BY <1>3, <2>5, <2>6, <2>8
  <2>9. CASE j # p
    <3>1. steps'[j] = steps[j]
      BY <2>3, <2>7, <2>9
    <3>2. QED
      BY <1>3, <3>1
  <2>10. QED
    BY <2>8, <2>9
<1>9. ASSUME NEW k \in Step, Grows(k) PROVE TextsKept(plan', steps', files', archive')
  <2>1. PICK m, new, N, n : GrownEntries(k, m, new, N, n)
    BY <1>9, GrowsEntries DEF RunInv
  <2>2. /\ \A j \in Step : plan'[Shift(k, n, j)] = plan[j]
        /\ \A j \in Step : j # k => steps'[Shift(k, n, j)] = steps[j]
        /\ \A y \in Step' : \/ \E j \in Step : y = Shift(k, n, j)
                            \/ \E l \in 1 .. n : y = k + l
    BY <2>1 DEF GrownEntries
  <2>3. plan[k].kind = "phases"
    BY <1>9 DEF Grows, IsPhases
  <2>4. \A l \in 1 .. n : plan'[k + l].kind \in {"agent", "gate"}
    BY <2>1, MadeKinds
  <2> SUFFICES ASSUME NEW y \in Step', plan'[y].kind = "host-handoff"
               PROVE  TextKept(plan'[y], steps'[y], files', archive)
    BY <1>1 DEF TextsKept, Step
  <2>5. PICK j \in Step : y = Shift(k, n, j)
    <3>1. \A l \in 1 .. n : y # k + l
      BY <2>4
    <3>2. QED
      BY <2>2, <3>1
  <2>6. plan'[y] = plan[j] /\ j # k
    BY <2>2, <2>3, <2>5
  <2>7. steps'[y] = steps[j]
    BY <2>2, <2>5, <2>6
  <2>8. IsHandoff(j)
    BY <2>6 DEF IsHandoff
  <2>9. TextKept(plan[j], steps[j], files', archive)
    BY <1>3, <2>8
  <2>10. QED
    BY <2>6, <2>7, <2>9
<1>10. QED
  BY <1>5, <1>6, <1>7, <1>8, <1>9, StepsDo DEF Does, Approves

(* What archiving a revision does to the archive.                            *)
LEMMA ArchivedRows ==
  ASSUME RunInv, NEW i \in Step, Amendable(i), Archived(i)
  PROVE  /\ \A j \in Step : j # i => archive'[plan[j].id] = archive[plan[j].id]
         /\ archive'[plan[i].id][Len(steps[i].amendments) + 1] = steps[i].output
         /\ \A n \in DOMAIN steps[i].amendments : archive'[plan[i].id][n] = archive[plan[i].id][n]
         /\ Len(steps[i].amendments) \in Nat
         /\ DOMAIN steps[i].amendments = 1 .. Len(steps[i].amendments)
<1> DEFINE h == plan[i].id
           L == Len(steps[i].amendments)
           o == steps[i].output
<1>1. L \in Nat /\ DOMAIN steps[i].amendments = 1 .. L
  <2>1. steps[i].amendments \in Seq(Content)
    BY StepFacts DEF RunInv, StepState
  <2>2. QED
    BY <2>1, LenProperties
<1>2. L < MaxAmendments /\ MaxAmendments \in Nat /\ h \in Handoff
  BY PhasesAssumption, StepFacts, StepDefFacts DEF Amendable, RunInv, IsHandoff
<1>3. archive \in [Handoff -> [1 .. MaxAmendments -> Content \cup {Nil}]]
  BY DEF RunInv, TypeOK
<1>4. archive' = [archive EXCEPT ![h] = [archive[h] EXCEPT ![L + 1] = o]]
  BY DEF Archived, Revision
<1>5. \A j \in Step : j # i => plan[j].id # h
  BY StepFacts DEF RunInv
<1> HIDE DEF h, L, o
<1>6. archive'[h] = [archive[h] EXCEPT ![L + 1] = o] /\ archive[h] \in [1 .. MaxAmendments -> Content \cup {Nil}]
  BY <1>2, <1>3, <1>4
<1>7. L + 1 \in 1 .. MaxAmendments
  BY <1>1, <1>2
<1>8. archive'[h][L + 1] = o /\ \A n \in 1 .. L : archive'[h][n] = archive[h][n]
  <2> DEFINE row == archive[h]
             D == 1 .. MaxAmendments
             k == L + 1
  <2>1. row \in [D -> Content \cup {Nil}] /\ archive'[h] = [row EXCEPT ![k] = o] /\ k \in D
    BY <1>6, <1>7
  <2>2. \A n \in 1 .. L : n # k
    BY <1>1
  <2> HIDE DEF row, D, k
  <2>3. archive'[h][k] = o /\ \A n \in 1 .. L : archive'[h][n] = row[n]
    BY <2>1, <2>2
  <2>4. QED
    BY <2>3 DEF row, k
<1>9. \A j \in Step : j # i => archive'[plan[j].id] = archive[plan[j].id]
  BY <1>4, <1>5
<1>10. QED
  BY <1>1, <1>8, <1>9 DEF h, L, o

LEMMA ResetText ==
  ASSUME NEW r \in StepState
  PROVE  Reset(r) \in StepState /\ Reset(r).status = "pending" /\ Reset(r).amendments = r.amendments
  BY DEF Reset, StepState

LEMMA AmendKeepsTexts ==
  ASSUME RunInv, TextsKept(plan, steps, files, archive), NEW i \in Step, Amend(i)
  PROVE  TextsKept(plan', steps', files', archive')
<1>1. /\ Amendable(i) /\ Archived(i)
      /\ files' = [files EXCEPT ![plan[i].artifact] = Nil]
      /\ steps' = [j \in Step |->
             IF j = i THEN [Reset(steps[i]) EXCEPT !.amendments = Append(@, steps[i].output)]
             ELSE IF j \notin Behind(i) THEN steps[j]
             ELSE [Reset(steps[j]) EXCEPT !.approval = Nil, !.external = FALSE]]
      /\ plan' = plan /\ IsHandoff(i)
  BY DEF Amend, Amendable, Frozen
<1>2. /\ \A j \in Step : j # i => archive'[plan[j].id] = archive[plan[j].id]
      /\ archive'[plan[i].id][Len(steps[i].amendments) + 1] = steps[i].output
      /\ \A n \in DOMAIN steps[i].amendments : archive'[plan[i].id][n] = archive[plan[i].id][n]
      /\ Len(steps[i].amendments) \in Nat
      /\ DOMAIN steps[i].amendments = 1 .. Len(steps[i].amendments)
  BY <1>1, ArchivedRows
<1>3. \A j \in Step : steps[j] \in StepState /\ (plan[j].kind = "host-handoff" => TextKept(plan[j], steps[j], files, archive))
  BY StepFacts DEF RunInv, TextsKept, Step
<1> SUFFICES ASSUME NEW j \in Step, IsHandoff(j) PROVE TextKept(plan[j], steps'[j], files', archive')
  BY <1>1 DEF TextsKept, IsHandoff, Step
<1>4. CASE j = i
  <2> DEFINE q == Reset(steps[i])
             o == steps[i].output
             x == [q EXCEPT !.amendments = Append(@, o)]
             e == steps[i].amendments
  <2>1. steps'[j] = x
    BY <1>1, <1>4
  <2>2. q \in StepState /\ q.status = "pending" /\ q.amendments = e
    BY <1>3, ResetText
  <2> HIDE DEF q
  <2>3. x.status = "pending" /\ x.amendments = Append(e, o)
    BY <2>2 DEF StepState
  <2> HIDE DEF x
  <2>4. o \in Content \cup {Nil} /\ e \in Seq(Content)
    BY <1>3 DEF StepState
  <2>5. e \in Seq(Content \cup {Nil})
    <3>1. Len(e) \in Nat /\ DOMAIN e = 1 .. Len(e) /\ e \in [1 .. Len(e) -> Content]
      BY <2>4, LenProperties
    <3>2. e \in [1 .. Len(e) -> Content \cup {Nil}]
      BY <3>1
    <3>3. QED
      BY <3>1, <3>2, IsASeq
  <2>6. /\ DOMAIN Append(e, o) = 1 .. Len(e) + 1
        /\ \A n \in 1 .. Len(e) : Append(e, o)[n] = e[n]
        /\ Append(e, o)[Len(e) + 1] = o
    <3>1. /\ Append(e, o) \in Seq(Content \cup {Nil})
          /\ Len(Append(e, o)) = Len(e) + 1
          /\ \A n \in 1 .. Len(e) : Append(e, o)[n] = e[n]
          /\ Append(e, o)[Len(e) + 1] = o
      BY <2>4, <2>5, AppendProperties
    <3>2. QED
      BY <3>1, LenProperties
  <2>7. \A n \in DOMAIN e : archive[plan[i].id][n] = e[n]
    BY <1>1, <1>3 DEF TextKept, IsHandoff
  <2>8. \A n \in 1 .. Len(e) + 1 : archive'[plan[i].id][n] = Append(e, o)[n]
    <3> SUFFICES ASSUME NEW n \in 1 .. Len(e) + 1 PROVE archive'[plan[i].id][n] = Append(e, o)[n]
      OBVIOUS
    <3>1. CASE n = Len(e) + 1
      BY <1>2, <2>6, <3>1
    <3>2. CASE n # Len(e) + 1
      <4>1. n \in 1 .. Len(e) /\ n \in DOMAIN e
        BY <1>2, <3>2
      <4>2. QED
        BY <1>2, <2>6, <2>7, <4>1
    <3>3. QED
      BY <3>1, <3>2
  <2>9. TextKept(plan[i], x, files', archive')
    BY <2>3, <2>6, <2>8 DEF TextKept
  <2>10. QED
    BY <1>4, <2>1, <2>9
<1>5. CASE j # i
  <2>1. TextKept(plan[j], steps[j], files, archive) /\ archive'[plan[j].id] = archive[plan[j].id]
    BY <1>2, <1>3, <1>5 DEF IsHandoff
  <2>2. plan[i].artifact # plan[j].artifact
    BY <1>1, <1>5, HandoffFacts DEF IsWork
  <2>3. files'[plan[j].artifact] = files[plan[j].artifact]
    <3>1. files' = [files EXCEPT ![plan[i].artifact] = Nil]
      BY <1>1
    <3>2. QED
      BY <2>2, <3>1
  <2>4. CASE j \notin Behind(i)
    <3>1. steps'[j] = steps[j]
      BY <1>1, <1>5, <2>4
    <3>2. QED
      BY <2>1, <2>3, <3>1 DEF TextKept
  <2>5. CASE j \in Behind(i)
    <3> DEFINE q == Reset(steps[j])
               x == [q EXCEPT !.approval = Nil, !.external = FALSE]
    <3>1. steps'[j] = x
      BY <1>1, <1>5, <2>5
    <3>2. q \in StepState /\ q.status = "pending" /\ q.amendments = steps[j].amendments
      BY <1>3, ResetText
    <3> HIDE DEF q
    <3>3. x.status = "pending" /\ x.amendments = steps[j].amendments
      BY <3>2 DEF StepState
    <3> HIDE DEF x
    <3>4. QED
      BY <2>1, <3>1, <3>3 DEF TextKept
  <2>6. QED
    BY <2>4, <2>5
<1>6. QED
  BY <1>4, <1>5

(* An amendment that a crash or a refused save cut off.                      *)
LEMMA CutOffKeepsTexts ==
  ASSUME RunInv, TextsKept(plan, steps, files, archive), NEW i \in Step, AmendCutOff(i)
  PROVE  TextsKept(plan', steps', files', archive')
<1>1. /\ Amendable(i) /\ Archived(i)
      /\ files' = [files EXCEPT ![plan[i].artifact] = Nil] \/ files' = files
      /\ steps' = steps /\ plan' = plan /\ IsHandoff(i)
  BY DEF AmendCutOff, Amendable, Frozen
<1>2. /\ \A j \in Step : j # i => archive'[plan[j].id] = archive[plan[j].id]
      /\ archive'[plan[i].id][Len(steps[i].amendments) + 1] = steps[i].output
      /\ \A n \in DOMAIN steps[i].amendments : archive'[plan[i].id][n] = archive[plan[i].id][n]
  BY <1>1, ArchivedRows
<1>3. \A j \in Step : IsHandoff(j) => TextKept(plan[j], steps[j], files, archive)
  BY DEF TextsKept, IsHandoff, Step
<1> SUFFICES ASSUME NEW j \in Step, IsHandoff(j) PROVE TextKept(plan[j], steps[j], files', archive')
  BY <1>1 DEF TextsKept, IsHandoff, Step
<1>4. CASE j = i
  BY <1>2, <1>3, <1>4 DEF TextKept
<1>5. CASE j # i
  <2>1. plan[i].artifact # plan[j].artifact
    BY <1>1, <1>5, HandoffFacts DEF IsWork
  <2>2. files'[plan[j].artifact] = files[plan[j].artifact]
    <3>1. CASE files' = files
      BY <3>1
    <3>2. CASE files' = [files EXCEPT ![plan[i].artifact] = Nil]
      BY <2>1, <3>2
    <3>3. QED
      BY <1>1, <3>1, <3>2
  <2>3. archive'[plan[j].id] = archive[plan[j].id] /\ TextKept(plan[j], steps[j], files, archive)
    BY <1>2, <1>3, <1>5
  <2>4. QED
    BY <2>2, <2>3 DEF TextKept
<1>6. QED
  BY <1>4, <1>5

(* Every recorded amendment has its archived revision, and a handoff whose   *)
(* file an amendment removed without reopening it has its text in the        *)
(* archive (FileStateStore.preserveHostHandoffRevision).                     *)
THEOREM AmendedTextsAreKept == Spec => []AmendedTextIsKept
<1> DEFINE K == TextsKept(plan, steps, files, archive)
<1>1. Init => K
  <2> SUFFICES ASSUME Init, NEW i \in Step PROVE TextKept(plan[i], steps[i], files, archive)
    BY DEF TextsKept, Step
  <2>1. steps[i] = NewStep
    BY DEF Init
  <2>2. NewStep.status = "pending" /\ NewStep.amendments = << >>
    BY DEF NewStep
  <2>3. QED
    BY <2>1, <2>2 DEF TextKept
<1>2. RunInv /\ K /\ [Next]_vars => K'
  <2>1. ASSUME RunInv, K, UNCHANGED vars PROVE K'
    BY <2>1 DEF vars
  <2>2. ASSUME RunInv, K, Next PROVE K'
    BY <2>2, OthersKeepTexts, AmendKeepsTexts, CutOffKeepsTexts DEF Amends
  <2>3. QED
    BY <2>1, <2>2
<1>3. K <=> AmendedTextIsKept
  BY TextsKeptIs
<1>4. QED
  BY <1>1, <1>2, <1>3, RunInvariant, PTL DEF Spec
=============================================================================
