-------------------------- MODULE PhasedPlanProofs --------------------------
(***************************************************************************)
(* What the data of PhasedRun computes, for every plan and every manifest:  *)
(* the steps a manifest becomes, the steps behind a step of a linked plan,  *)
(* and the plan in whose middle a generated sequence is inserted.  The      *)
(* recursive functions of the model (Behind, and FlattenSeq in Generated)   *)
(* are reasoned about by induction on Nat in the form of a set closed under *)
(* successor.                                                               *)
(***************************************************************************)
EXTENDS PhasedRun, SequenceLemmas

(* The table of successors leads from each step to the one behind it alone. *)
Chained(p, t) ==
    /\ DOMAIN t = {p[i].id : i \in DOMAIN p}
    /\ \A i \in DOMAIN p : t[p[i].id] = {p[j].id : j \in {j \in DOMAIN p : j = i + 1}}

(* In a linked plan the successor of a step is the step behind it. *)
LEMMA SuccessorsLinked ==
  ASSUME Conforms(plan), Chained(plan, successors), NEW i \in Step
  PROVE  Successors(i) = {j \in Step : j = i + 1}
<1>1. successors[plan[i].id] = {plan[j].id : j \in {j \in Step : j = i + 1}}
  BY DEF Chained, Step
<1>2. \A j, k \in Step : plan[j].id = plan[k].id => j = k
  BY DEF Conforms, Step
<1>3. \A j \in Step : plan[j].id \in successors[plan[i].id] <=> j = i + 1
  BY <1>1, <1>2
<1>4. QED
  BY <1>3 DEF Successors

(* In a linked plan the steps behind a step are those of larger index. *)
LEMMA BehindLinked ==
  ASSUME Conforms(plan), Chained(plan, successors), NEW n \in Nat, n = Len(plan),
         Step = 1 .. n, NEW i \in Step
  PROVE  Behind(i) = {j \in Step : j > i}
<1>1. \A j \in Step : Successors(j) = {k \in Step : k = j + 1}
  BY SuccessorsLinked
<1> DEFINE G(m) == {j \in Step : i < j /\ j <= i + 1 + m}
           F(f, m) == IF m = 0 THEN Successors(i)
                      ELSE UNION {{j} \cup Successors(j) : j \in f[m - 1]}
           g == [m \in 0 .. n |-> G(m)]
           w == CHOOSE f : f = [m \in 0 .. n |-> F(f, m)]
<1>2. G(0) = Successors(i)
  BY <1>1
<1>3. ASSUME NEW m \in Nat
      PROVE  UNION {{j} \cup Successors(j) : j \in G(m)} = G(m + 1)
  <2>1. \A k : k \in UNION {{j} \cup Successors(j) : j \in G(m)} <=> k \in G(m + 1)
    <3> SUFFICES ASSUME NEW k
                 PROVE  (\E j \in G(m) : k = j \/ k \in Successors(j)) <=> k \in G(m + 1)
      OBVIOUS
    <3>1. ASSUME NEW j \in G(m), k = j \/ k \in Successors(j) PROVE k \in G(m + 1)
      <4>1. j \in Step /\ (k = j \/ (k \in Step /\ k = j + 1))
        BY <3>1, <1>1
      <4>2. QED
        BY <3>1, <4>1
    <3>2. ASSUME k \in G(m + 1) PROVE \E j \in G(m) : k = j \/ k \in Successors(j)
      <4>1. CASE k <= i + 1 + m
        BY <3>2, <4>1
      <4>2. CASE ~(k <= i + 1 + m)
        <5>1. k \in Step /\ k = i + 1 + (m + 1) /\ k - 1 \in Step
          BY <3>2, <4>2
        <5>2. k - 1 \in G(m)
          BY <5>1
        <5>3. k \in Successors(k - 1)
          BY <5>1, <1>1
        <5>4. QED
          BY <5>2, <5>3
      <4>3. QED
        BY <4>1, <4>2
    <3>3. QED
      BY <3>1, <3>2
  <2>2. QED
    BY <2>1
<1>4. g = [m \in 0 .. n |-> F(g, m)]
  <2> SUFFICES ASSUME NEW m \in 0 .. n PROVE G(m) = F(g, m)
    OBVIOUS
  <2>1. CASE m = 0
    BY <2>1, <1>2
  <2>2. CASE m # 0
    <3>1. m - 1 \in 0 .. n /\ m - 1 \in Nat /\ (m - 1) + 1 = m
      BY <2>2
    <3> HIDE DEF G
    <3>2. g[m - 1] = G(m - 1)
      BY <3>1
    <3>3. UNION {{j} \cup Successors(j) : j \in G(m - 1)} = G(m)
      BY <3>1, <1>3
    <3>4. QED
      BY <2>2, <3>2, <3>3
  <2>3. QED
    BY <2>1, <2>2
<1> HIDE DEF G
<1>5. w = [m \in 0 .. n |-> F(w, m)]
  <2> HIDE DEF g
  <2>1. QED
    BY <1>4
<1>6. Behind(i) = w[n]
  BY DEF Behind
<1> HIDE DEF w
<1> DEFINE U == {m \in Nat : m \in 0 .. n => w[m] = G(m)}
<1>7. 0 \in U
  BY <1>2, <1>5
<1>8. \A m \in Nat : m \in U => m + 1 \in U
  <2> SUFFICES ASSUME NEW m \in Nat, m \in U, m + 1 \in 0 .. n PROVE w[m + 1] = G(m + 1)
    OBVIOUS
  <2>1. m \in 0 .. n /\ w[m] = G(m) /\ m + 1 # 0 /\ (m + 1) - 1 = m
    OBVIOUS
  <2>2. w[m + 1] = F(w, m + 1)
    BY <1>5
  <2>3. w[m + 1] = UNION {{j} \cup Successors(j) : j \in w[m]}
    BY <2>1, <2>2
  <2>4. QED
    BY <2>1, <2>3, <1>3
<1>9. w[n] = G(n)
  <2>1. Nat \subseteq U
    BY <1>7, <1>8, NatSteps
  <2>2. QED
    BY <2>1
<1>10. G(n) = {j \in Step : j > i}
  BY DEF G
<1>11. QED
  BY <1>6, <1>9, <1>10
-----------------------------------------------------------------------------
(* The parts of an id. *)
Part == STRING \cup {"review", "approve"}

(* An id with one more part continues what the id continued, and that id. *)
LEMMA ContinuesLonger ==
  ASSUME NEW d, d.id \in Seq(Part), NEW x \in Seq(Part), NEW y \in Seq(Part),
         x = d.id \/ Continues(x, d), Len(y) = Len(x) + 1, \A k \in 1 .. Len(x) : y[k] = x[k]
  PROVE  Continues(y, d)
<1>1. Len(x) \in Nat /\ Len(d.id) \in Nat /\ DOMAIN d.id = 1 .. Len(d.id)
  BY LenProperties
<1>2. Len(d.id) <= Len(x) /\ \A k \in DOMAIN d.id : x[k] = d.id[k]
  BY <1>1 DEF Continues
<1>3. \A k \in DOMAIN d.id : k \in 1 .. Len(x)
  BY <1>1, <1>2
<1>4. \A k \in DOMAIN d.id : y[k] = d.id[k]
  BY <1>2, <1>3
<1>5. Len(y) > Len(d.id)
  BY <1>1, <1>2
<1>6. QED
  BY <1>4, <1>5 DEF Continues

-----------------------------------------------------------------------------
(* The steps a manifest may generate. *)
Made == [id : Seq(Part), kind : {"agent", "gate"}, artifact : Seq(Part), inputs : {{}},
         internal : {TRUE}, policy : BOOLEAN, retryFrom : {Nil} \cup Seq(Part),
         budget : Nat, reviewer : {FALSE}, patch : BOOLEAN]

(* Concatenation of singletons. *)
LEMMA Singles ==
  ASSUME NEW S, NEW a \in S, NEW b \in S, NEW c \in S
  PROVE  <<a>> \o <<b>> = <<a, b>> /\ <<a, b>> \o <<c>> = <<a, b, c>>
<1>1. <<a>> \in Seq(S) /\ <<b>> \in Seq(S) /\ <<c>> \in Seq(S) /\ <<a, b>> \in Seq(S)
      /\ <<a, b, c>> \in Seq(S)
  OBVIOUS
<1>2. <<a>> \o <<b>> = Append(<<a>>, b) /\ <<a, b>> \o <<c>> = Append(<<a, b>>, c)
  BY <1>1, AppendIsConcat
<1>3. Append(<<a>>, b) = <<a, b>>
  <2>1. Len(<<a>>) = 1 /\ <<a>>[1] = a /\ Len(<<a, b>>) = 2 /\ <<a, b>>[1] = a /\ <<a, b>>[2] = b
    OBVIOUS
  <2>2. Append(<<a>>, b) \in Seq(S) /\ Len(Append(<<a>>, b)) = 2
        /\ Append(<<a>>, b)[1] = a /\ Append(<<a>>, b)[2] = b
    BY <1>1, <2>1, AppendProperties
  <2>3. \A i \in 1 .. 2 : i = 1 \/ i = 2
    OBVIOUS
  <2>4. \A i \in 1 .. Len(<<a, b>>) : Append(<<a>>, b)[i] = <<a, b>>[i]
    BY <2>1, <2>2, <2>3
  <2>5. QED
    BY <1>1, <2>1, <2>2, <2>4, SeqEqual
<1>4. Append(<<a, b>>, c) = <<a, b, c>>
  <2>1. /\ Len(<<a, b>>) = 2 /\ <<a, b>>[1] = a /\ <<a, b>>[2] = b
        /\ Len(<<a, b, c>>) = 3 /\ <<a, b, c>>[1] = a /\ <<a, b, c>>[2] = b /\ <<a, b, c>>[3] = c
    OBVIOUS
  <2>2. Append(<<a, b>>, c) \in Seq(S) /\ Len(Append(<<a, b>>, c)) = 3
        /\ Append(<<a, b>>, c)[1] = a /\ Append(<<a, b>>, c)[2] = b /\ Append(<<a, b>>, c)[3] = c
    BY <1>1, <2>1, AppendProperties
  <2>3. \A i \in 1 .. 3 : i = 1 \/ i = 2 \/ i = 3
    OBVIOUS
  <2>4. \A i \in 1 .. Len(<<a, b, c>>) : Append(<<a, b>>, c)[i] = <<a, b, c>>[i]
    BY <2>1, <2>2, <2>3
  <2>5. QED
    BY <1>1, <2>1, <2>2, <2>4, SeqEqual
<1>5. QED
  BY <1>2, <1>3, <1>4

(* What holds of steps that are generated for phases of placeholder d: their *)
(* ids continue that of d; an agent writes the artifact of its own id, a     *)
(* gate approves and a policy sends back to the work of an earlier agent     *)
(* among them; only agents make patches.                                     *)
Shaped(d, s) ==
    /\ s \in Seq(Made) /\ Len(s) \in Nat \ {0}
    /\ \A k \in 1 .. Len(s) : Continues(s[k].id, d)
    /\ \A k \in 1 .. Len(s) : s[k].patch => s[k].kind = "agent"
    /\ \A k \in 1 .. Len(s) : s[k].kind = "agent" => s[k].artifact = s[k].id
    /\ \A k \in 1 .. Len(s) : s[k].kind = "gate" =>
         ~s[k].policy /\ \E l \in 1 .. k - 1 : s[l].kind = "agent" /\ s[l].id = s[k].artifact
    /\ \A k \in 1 .. Len(s) : s[k].policy =>
         \E l \in 1 .. k - 1 : s[l].kind = "agent" /\ s[l].id = s[k].retryFrom

(* All that a manifest makes of d has distinct ids as well. *)
Group(d, s) == Shaped(d, s) /\ \A k, l \in 1 .. Len(s) : s[k].id = s[l].id => k = l

(* An id that is continued with a phase's id, which is not empty. *)
LEMMA ContinuesConcat ==
  ASSUME NEW d, d.id \in Seq(Part), NEW x \in Seq(Part), x # << >>
  PROVE  d.id \o x \in Seq(Part) /\ Continues(d.id \o x, d)
<1>1. Len(x) \in Nat \ {0} /\ Len(d.id) \in Nat /\ DOMAIN d.id = 1 .. Len(d.id)
  BY LenProperties, EmptySeq
<1>2. /\ d.id \o x \in Seq(Part) /\ Len(d.id \o x) = Len(d.id) + Len(x)
      /\ \A k \in 1 .. Len(d.id) : k \in 1 .. Len(d.id) + Len(x) /\ k <= Len(d.id)
  BY <1>1, ConcatProperties
<1>3. \A k \in 1 .. Len(d.id) : (d.id \o x)[k] = d.id[k]
  BY <1>1, <1>2, ConcatProperties
<1>4. QED
  BY <1>1, <1>2, <1>3 DEF Continues

(* The steps of one phase are shaped so. *)
LEMMA PhaseGroup ==
  ASSUME NEW d, d.id \in Seq(Part),
         NEW p \in [id : Seq(STRING) \ {<< >>}, budget : Nat, gate : BOOLEAN]
  PROVE  Shaped(d, PhaseSteps(d, p))
<1> DEFINE impl == d.id \o p.id
           review == Append(impl, "review")
           approve == Append(impl, "approve")
           w == [Work(impl) EXCEPT !.patch = TRUE]
           r == [Work(review) EXCEPT !.policy = TRUE, !.retryFrom = impl, !.budget = p.budget]
           g(a) == [Work(approve) EXCEPT !.kind = "gate", !.artifact = a]
           n == Len(d.id)
<1>1. n \in Nat /\ p.id \in Seq(STRING) /\ p.id # << >> /\ p.budget \in Nat
  BY LenProperties
<1>0. "review" \in Part /\ "approve" \in Part /\ p.id \in Seq(Part)
  <2>1. STRING \subseteq Part
    BY DEF Part
  <2>2. p.id \in Seq(Part)
    BY <1>1, <2>1, SeqMonotonic
  <2>3. QED
    BY <2>2 DEF Part
<1>2. impl \in Seq(Part) /\ Continues(impl, d)
  BY <1>0, <1>1, ContinuesConcat
<1> HIDE DEF impl
<1>3. review \in Seq(Part) /\ Continues(review, d)
  <2>1. /\ review \in Seq(Part) /\ Len(review) = Len(impl) + 1 /\ review[Len(impl) + 1] = "review"
        /\ \A k \in 1 .. Len(impl) : review[k] = impl[k]
    BY <1>0, <1>2, AppendProperties
  <2> HIDE DEF review
  <2>2. Continues(review, d)
    BY <1>2, <2>1, ContinuesLonger
  <2>3. QED
    BY <2>1, <2>2
<1>4. approve \in Seq(Part) /\ Continues(approve, d)
  <2>1. /\ approve \in Seq(Part) /\ Len(approve) = Len(impl) + 1 /\ approve[Len(impl) + 1] = "approve"
        /\ \A k \in 1 .. Len(impl) : approve[k] = impl[k]
    BY <1>0, <1>2, AppendProperties
  <2> HIDE DEF approve
  <2>2. Continues(approve, d)
    BY <1>2, <2>1, ContinuesLonger
  <2>3. QED
    BY <2>1, <2>2
<1> HIDE DEF review, approve
<1>6. /\ w \in Made /\ w.id = impl /\ w.kind = "agent" /\ w.artifact = impl /\ ~w.policy
      /\ r \in Made /\ r.id = review /\ r.kind = "agent" /\ r.artifact = review /\ r.retryFrom = impl
  BY <1>1, <1>2, <1>3 DEF Work, Made
<1>7. \A a \in Seq(Part) : /\ g(a) \in Made /\ g(a).id = approve /\ g(a).kind = "gate"
                             /\ g(a).artifact = a /\ ~g(a).policy /\ ~g(a).patch
  BY <1>1, <1>4 DEF Work, Made
<1> HIDE DEF w, r, g
<1>8. /\ <<w>> \o <<r>> = <<w, r>>
      /\ \A a \in Seq(Part) : /\ <<w>> \o <<g(a)>> = <<w, g(a)>>
                             /\ <<w, r>> \o <<g(a)>> = <<w, r, g(a)>>
  <2>0. \A a, b, c \in Made : <<a>> \o <<b>> = <<a, b>> /\ <<a, b>> \o <<c>> = <<a, b, c>>
    BY Singles
  <2>1. <<w>> \o <<r>> = <<w, r>>
    BY <1>6, <2>0
  <2>2. \A x \in Made : <<w>> \o <<x>> = <<w, x>> /\ <<w, r>> \o <<x>> = <<w, r, x>>
    BY <1>6, <2>0
  <2>3. \A a \in Seq(Part) : g(a) \in Made
    BY <1>7
  <2>4. QED
    BY <2>1, <2>2, <2>3
<1>9. /\ <<w>> \o << >> = <<w>> /\ <<w, r>> \o << >> = <<w, r>>
      /\ <<w>> \in Seq(Made) /\ <<w, r>> \in Seq(Made)
  <2>1. <<w>> \in Seq(Made) /\ <<w, r>> \in Seq(Made)
    BY <1>6
  <2>2. QED
    BY <2>1, ConcatEmptySeq
<1>10. PhaseSteps(d, p) = <<w>> \o (IF d.reviewer THEN <<r>> ELSE << >>)
                         \o (IF p.gate THEN <<g(IF d.reviewer THEN review ELSE impl)>> ELSE << >>)
  BY DEF PhaseSteps, w, r, g, impl, review, approve
<1>11. CASE d.reviewer /\ p.gate
  <2>1. PhaseSteps(d, p) = <<w, r, g(review)>>
    BY <1>3, <1>8, <1>10, <1>11
  <2>2. g(review) \in Made /\ g(review).artifact = review /\ g(review).kind = "gate"
        /\ ~g(review).policy /\ ~g(review).patch /\ g(review).id = approve
    BY <1>3, <1>7
  <2> DEFINE x == g(review)
             s == <<w, r, x>>
  <2> HIDE DEF x
  <2>3. Len(s) = 3 /\ s[1] = w /\ s[2] = r /\ s[3] = x /\ s \in Seq(Made)
    BY <1>6, <2>2 DEF x
  <2>4. 1 .. 3 = {1, 2, 3}
    OBVIOUS
  <2> HIDE DEF s
  <2>5. Shaped(d, s)
    <3>1. \A k \in 1 .. Len(s) : k = 1 \/ k = 2 \/ k = 3
      BY <2>3
    <3>2. \A k \in 1 .. Len(s) : Continues(s[k].id, d)
      BY <1>1, <1>2, <1>3, <1>4, <1>6, <2>2, <2>3, <3>1 DEF x
    <3>3. \A k \in 1 .. Len(s) : s[k].patch => s[k].kind = "agent"
      BY <1>6, <2>2, <2>3, <3>1 DEF x
    <3>4. \A k \in 1 .. Len(s) : s[k].kind = "agent" => s[k].artifact = s[k].id
      BY <1>6, <2>2, <2>3, <3>1 DEF x
    <3>5. \A k \in 1 .. Len(s) : s[k].kind = "gate" =>
            ~s[k].policy /\ \E l \in 1 .. k - 1 : s[l].kind = "agent" /\ s[l].id = s[k].artifact
      <4>1. 2 \in 1 .. 3 - 1
        OBVIOUS
      <4>2. QED
        BY <4>1, <1>6, <2>2, <2>3, <3>1 DEF x
    <3>6. \A k \in 1 .. Len(s) : s[k].policy =>
            \E l \in 1 .. k - 1 : s[l].kind = "agent" /\ s[l].id = s[k].retryFrom
      <4>1. 1 \in 1 .. 2 - 1
        OBVIOUS
      <4>2. QED
        BY <4>1, <1>6, <2>2, <2>3, <3>1 DEF x
    <3>7. QED
      BY <2>3, <3>2, <3>3, <3>4, <3>5, <3>6 DEF Shaped
  <2>6. QED
    BY <2>1, <2>5 DEF s, x
<1>12. CASE d.reviewer /\ ~p.gate
  <2>1. PhaseSteps(d, p) = <<w, r>>
    BY <1>8, <1>9, <1>10, <1>12
  <2> DEFINE s == <<w, r>>
  <2>2. Len(s) = 2 /\ s[1] = w /\ s[2] = r /\ s \in Seq(Made)
    BY <1>6
  <2>3. 1 .. 2 = {1, 2}
    OBVIOUS
  <2> HIDE DEF s
  <2>4. Shaped(d, s)
    BY <1>1, <1>2, <1>3, <1>6, <2>2, <2>3, SMTT(30) DEF Shaped
  <2>5. QED
    BY <2>1, <2>4 DEF s
<1>13. CASE ~d.reviewer /\ p.gate
  <2>1. PhaseSteps(d, p) = <<w, g(impl)>>
    BY <1>2, <1>8, <1>9, <1>10, <1>13
  <2>2. g(impl) \in Made /\ g(impl).artifact = impl /\ g(impl).kind = "gate"
        /\ ~g(impl).policy /\ ~g(impl).patch /\ g(impl).id = approve
    BY <1>2, <1>7
  <2> DEFINE x == g(impl)
             s == <<w, x>>
  <2> HIDE DEF x
  <2>3. Len(s) = 2 /\ s[1] = w /\ s[2] = x /\ s \in Seq(Made)
    BY <1>6, <2>2 DEF x
  <2>4. 1 .. 2 = {1, 2}
    OBVIOUS
  <2> HIDE DEF s
  <2>5. Shaped(d, s)
    BY <1>1, <1>2, <1>4, <1>6, <2>2, <2>3, <2>4, SMTT(30) DEF Shaped, x
  <2>6. QED
    BY <2>1, <2>5 DEF s, x
<1>14. CASE ~d.reviewer /\ ~p.gate
  <2>1. PhaseSteps(d, p) = <<w>>
    BY <1>9, <1>10, <1>14
  <2> DEFINE s == <<w>>
  <2>2. Len(s) = 1 /\ s[1] = w /\ s \in Seq(Made)
    BY <1>6
  <2>3. 1 .. 1 = {1}
    OBVIOUS
  <2> HIDE DEF s
  <2>4. Shaped(d, s)
    BY <1>1, <1>2, <1>6, <2>2, <2>3 DEF Shaped
  <2>5. QED
    BY <2>1, <2>4 DEF s
<1>15. QED
  BY <1>11, <1>12, <1>13, <1>14
(* The steps of two phases, one behind the other, are so too. *)
LEMMA ShapedConcat ==
  ASSUME NEW d, NEW s, NEW t, Shaped(d, s), Shaped(d, t)
  PROVE  Shaped(d, s \o t)
<1> DEFINE u == s \o t
           a == Len(s)
           b == Len(t)
<1>1. s \in Seq(Made) /\ t \in Seq(Made) /\ a \in Nat \ {0} /\ b \in Nat \ {0}
  BY DEF Shaped
<1>2. u \in Seq(Made) /\ Len(u) = a + b
      /\ \A k \in 1 .. a + b : u[k] = IF k <= a THEN s[k] ELSE t[k - a]
  BY <1>1, ConcatProperties
<1> HIDE DEF u, a, b
<1>3. /\ \A k \in 1 .. a : k \in 1 .. a + b /\ u[k] = s[k]
      /\ \A k \in 1 .. b : k + a \in 1 .. a + b /\ u[k + a] = t[k]
  <2>1. \A k \in 1 .. a : k \in 1 .. a + b /\ k <= a
    BY <1>1
  <2>2. \A k \in 1 .. b : k + a \in 1 .. a + b /\ ~(k + a <= a) /\ (k + a) - a = k
    BY <1>1
  <2>3. QED
    BY <1>2, <2>1, <2>2
<1>4. ASSUME NEW k \in 1 .. a + b
      PROVE  k \in 1 .. a \/ \E l \in 1 .. b : k = l + a
  <2>1. CASE k <= a
    BY <2>1
  <2>2. CASE k > a
    <3>1. k - a \in 1 .. b /\ k = (k - a) + a
      BY <1>1, <2>2
    <3>2. QED
      BY <3>1
  <2>3. QED
    BY <1>1, <2>1, <2>2
<1>5. \A k \in 1 .. a : Continues(s[k].id, d) /\ (s[k].patch => s[k].kind = "agent")
  BY DEF Shaped, a
<1>6. \A k \in 1 .. b : Continues(t[k].id, d) /\ (t[k].patch => t[k].kind = "agent")
  BY DEF Shaped, b
<1>7. \A k \in 1 .. a + b : Continues(u[k].id, d)
  BY <1>3, <1>4, <1>5, <1>6
<1>8. \A k \in 1 .. a + b : u[k].patch => u[k].kind = "agent"
  BY <1>3, <1>4, <1>5, <1>6
<1>9. \A k \in 1 .. a + b : u[k].kind = "agent" => u[k].artifact = u[k].id
  <2>1. \A k \in 1 .. a : s[k].kind = "agent" => s[k].artifact = s[k].id
    BY DEF Shaped, a
  <2>2. \A k \in 1 .. b : t[k].kind = "agent" => t[k].artifact = t[k].id
    BY DEF Shaped, b
  <2>3. QED
    BY <1>3, <1>4, <2>1, <2>2
<1>10. ASSUME NEW k \in 1 .. a, NEW l \in 1 .. k - 1
       PROVE  l \in 1 .. a /\ u[l] = s[l]
  <2>1. l \in 1 .. a
    BY <1>1
  <2>2. QED
    BY <2>1, <1>3
<1>11. ASSUME NEW k \in 1 .. b, NEW l \in 1 .. k - 1
       PROVE  l + a \in 1 .. (k + a) - 1 /\ u[l + a] = t[l]
  <2>1. l \in 1 .. b /\ l + a \in 1 .. (k + a) - 1
    BY <1>1
  <2>2. QED
    BY <2>1, <1>3
<1>12. \A k \in 1 .. a + b : u[k].kind = "gate" =>
         ~u[k].policy /\ \E l \in 1 .. k - 1 : u[l].kind = "agent" /\ u[l].id = u[k].artifact
  <2>1. \A k \in 1 .. a : s[k].kind = "gate" =>
         ~s[k].policy /\ \E l \in 1 .. k - 1 : s[l].kind = "agent" /\ s[l].id = s[k].artifact
    BY DEF Shaped, a
  <2>2. \A k \in 1 .. b : t[k].kind = "gate" =>
         ~t[k].policy /\ \E l \in 1 .. k - 1 : t[l].kind = "agent" /\ t[l].id = t[k].artifact
    BY DEF Shaped, b
  <2>3. ASSUME NEW k \in 1 .. a, u[k].kind = "gate"
        PROVE  ~u[k].policy /\ \E l \in 1 .. k - 1 : u[l].kind = "agent" /\ u[l].id = u[k].artifact
    BY <2>1, <2>3, <1>3, <1>10
  <2>4. ASSUME NEW k \in 1 .. b, u[k + a].kind = "gate"
        PROVE  ~u[k + a].policy
               /\ \E l \in 1 .. (k + a) - 1 : u[l].kind = "agent" /\ u[l].id = u[k + a].artifact
    <3>1. u[k + a] = t[k]
      BY <1>3
    <3>2. ~t[k].policy
      BY <2>2, <2>4, <3>1
    <3>3. PICK l \in 1 .. k - 1 : t[l].kind = "agent" /\ t[l].id = t[k].artifact
      BY <2>2, <2>4, <3>1
    <3>4. l + a \in 1 .. (k + a) - 1 /\ u[l + a] = t[l]
      BY <1>11
    <3>5. QED
      BY <3>1, <3>2, <3>3, <3>4
  <2>5. QED
    BY <1>4, <2>3, <2>4
<1>13. \A k \in 1 .. a + b : u[k].policy =>
         \E l \in 1 .. k - 1 : u[l].kind = "agent" /\ u[l].id = u[k].retryFrom
  <2>1. \A k \in 1 .. a : s[k].policy =>
         \E l \in 1 .. k - 1 : s[l].kind = "agent" /\ s[l].id = s[k].retryFrom
    BY DEF Shaped, a
  <2>2. \A k \in 1 .. b : t[k].policy =>
         \E l \in 1 .. k - 1 : t[l].kind = "agent" /\ t[l].id = t[k].retryFrom
    BY DEF Shaped, b
  <2>3. ASSUME NEW k \in 1 .. a, u[k].policy
        PROVE  \E l \in 1 .. k - 1 : u[l].kind = "agent" /\ u[l].id = u[k].retryFrom
    BY <2>1, <2>3, <1>3, <1>10
  <2>4. ASSUME NEW k \in 1 .. b, u[k + a].policy
        PROVE  \E l \in 1 .. (k + a) - 1 : u[l].kind = "agent" /\ u[l].id = u[k + a].retryFrom
    <3>1. u[k + a] = t[k]
      BY <1>3
    <3>2. PICK l \in 1 .. k - 1 : t[l].kind = "agent" /\ t[l].id = t[k].retryFrom
      BY <2>2, <2>4, <3>1
    <3>3. l + a \in 1 .. (k + a) - 1 /\ u[l + a] = t[l]
      BY <1>11
    <3>4. QED
      BY <3>1, <3>2, <3>3
  <2>5. QED
    BY <1>4, <2>3, <2>4
<1>14. Len(u) \in Nat \ {0} /\ Len(u) = a + b /\ u \in Seq(Made)
  BY <1>1, <1>2
<1>15. Shaped(d, u)
  BY <1>7, <1>8, <1>9, <1>12, <1>13, <1>14 DEF Shaped
<1>16. QED
  BY <1>15 DEF u
(* What a manifest makes of a placeholder is a group. *)
LEMMA GeneratedGroup ==
  ASSUME NEW d \in Placeholders, NEW m \in Manifest
  PROVE  Group(d, Generated[d][m])
<1> DEFINE P == [id : Seq(STRING) \ {<< >>}, budget : Nat, gate : BOOLEAN]
           ph == PhasesIn[m]
           q == [k \in DOMAIN ph |-> PhaseSteps(d, ph[k])]
           n == Len(ph)
<1>1. ph \in Seq(P) /\ ph # << >>
  BY PhasesAssumption
<1> HIDE DEF ph
<1>2. n \in Nat \ {0} /\ DOMAIN ph = 1 .. n /\ \A k \in 1 .. n : ph[k] \in P
  <2>1. n \in Nat \ {0}
    BY <1>1, EmptySeq
  <2>2. DOMAIN ph = 1 .. n
    BY <1>1, LenProperties
  <2>3. QED
    BY <1>1, <2>1, <2>2, ElementOfSeq
<1>3. d.id \in Seq(Part)
  <2>1. d.id \in Seq(STRING)
    BY PhasesAssumption DEF Placeholders
  <2>2. STRING \subseteq Part
    BY DEF Part
  <2>3. QED
    BY <2>1, <2>2, SeqMonotonic
<1>4. \A k \in 1 .. n : Shaped(d, PhaseSteps(d, ph[k]))
  BY <1>2, <1>3, PhaseGroup
<1>5. \A k \in 1 .. n : q[k] = PhaseSteps(d, ph[k]) /\ q[k] \in Seq(Made)
  BY <1>2, <1>4 DEF Shaped
<1>6. q \in Seq(Seq(Made)) /\ Len(q) = n /\ q # << >>
  <2>1. q = [k \in 1 .. n |-> q[k]]
    BY <1>2
  <2> HIDE DEF q
  <2>2. q \in Seq(Seq(Made)) /\ Len(q) = n
    BY <1>2, <1>5, <2>1
  <2>3. QED
    BY <1>2, <2>2
<1>7. Generated[d][m] = FlattenSeq(q)
  BY DEF Generated, ph
<1> HIDE DEF q
<1>8. PICK f \in [1 .. n -> Seq(Made)] :
         /\ f[1] = q[1]
         /\ \A k \in 2 .. n : f[k] = f[k - 1] \o q[k]
         /\ FlattenSeq(q) = f[n]
  <2> HIDE DEF n
  <2>1. \E f \in [1 .. Len(q) -> Seq(Made)] :
           /\ f[1] = q[1]
           /\ \A k \in 2 .. Len(q) : f[k] = f[k - 1] \o q[k]
           /\ FlattenSeq(q) = f[Len(q)]
    BY <1>6, FlattenSteps
  <2>2. QED
    BY <1>6, <2>1
<1> DEFINE U == {k \in Nat : k \in 1 .. n => Shaped(d, f[k])}
<1>9. 0 \in U
  OBVIOUS
<1>10. \A k \in Nat : k \in U => k + 1 \in U
  <2> SUFFICES ASSUME NEW k \in Nat, k \in U, k + 1 \in 1 .. n PROVE Shaped(d, f[k + 1])
    <3> HIDE DEF n
    <3> QED
      OBVIOUS
  <2>1. CASE k = 0
    <3>2. 1 \in 1 .. n
      BY <1>2
    <3> HIDE DEF n
    <3>3. f[1] = PhaseSteps(d, ph[1]) /\ Shaped(d, PhaseSteps(d, ph[1]))
      BY <1>4, <1>5, <1>8, <3>2
    <3>4. Shaped(d, f[1])
      BY <3>3
    <3>5. QED
      BY <2>1, <3>4
  <2>2. CASE k # 0
    <3>1. k \in 1 .. n /\ k + 1 \in 2 .. n /\ (k + 1) - 1 = k
      BY <2>2
    <3>2. Shaped(d, f[k])
      <4> HIDE DEF n
      <4> QED
        BY <3>1
    <3>5. f[k + 1] = f[k] \o q[k + 1]
      BY <3>1, <1>8
    <3>6. Shaped(d, q[k + 1])
      BY <3>1, <1>4, <1>5
    <3>7. Shaped(d, f[k] \o q[k + 1])
      BY <3>2, <3>6, ShapedConcat
    <3>8. QED
      BY <3>5, <3>7
  <2>3. QED
    BY <2>1, <2>2
<1>11. Shaped(d, f[n])
  <2>1. Nat \subseteq U
    BY <1>9, <1>10, NatSteps
  <2>2. n \in 1 .. n
    BY <1>2
  <2>3. QED
    BY <1>2, <2>1, <2>2
<1>12. \A k, l \in DOMAIN Generated[d][m] : Generated[d][m][k].id = Generated[d][m][l].id => k = l
  BY PhasesAssumption
<1>13. Shaped(d, Generated[d][m])
  BY <1>7, <1>8, <1>11
<1>14. DOMAIN Generated[d][m] = 1 .. Len(Generated[d][m])
  BY <1>13, LenProperties DEF Shaped
<1>15. QED
  BY <1>12, <1>13, <1>14 DEF Group
-----------------------------------------------------------------------------
(* Where the entry at j stands after n entries were inserted behind the one  *)
(* at i.                                                                     *)
Shift(i, n, j) == IF j <= i THEN j ELSE j + n

(* A sequence whose entry i is replaced by x and followed by those of s. *)
InsertFacts(S, p, i, x, s, r) ==
    /\ r \in Seq(S) /\ Len(r) = Len(p) + Len(s)
    /\ r[i] = x
    /\ \A k \in 1 .. Len(s) : r[i + k] = s[k]
    /\ \A j \in 1 .. Len(p) : j # i => r[Shift(i, Len(s), j)] = p[j]

LEMMA Inserted ==
  ASSUME NEW S, NEW p \in Seq(S), NEW i \in 1 .. Len(p), NEW x \in S, NEW s \in Seq(S),
         NEW r, r = Before(p, i) \o <<x>> \o s \o After(p, i)
  PROVE  InsertFacts(S, p, i, x, s, r)
<1> DEFINE N == Len(p)
           n == Len(s)
           b == Before(p, i)
           a == After(p, i)
           c == b \o <<x>>
           e == c \o s
<1>1. N \in Nat /\ n \in Nat /\ i \in 1 .. N /\ \A j \in 1 .. N : p[j] \in S
  BY LenProperties, ElementOfSeq
<1> HIDE DEF N, n
<1>2. b \in Seq(S) /\ Len(b) = i - 1 /\ \A j \in 1 .. i - 1 : b[j] = p[j]
  <2>1. 1 \in Int /\ i - 1 \in Int /\ (1 <= i - 1 \/ i - 1 = 0) /\ (i - 1) - 1 + 1 = i - 1
        /\ \A j \in 1 .. i - 1 : p[j] \in S /\ 1 + j - 1 = j
    BY <1>1
  <2>2. /\ SubSeq(p, 1, i - 1) \in Seq(S)
        /\ Len(SubSeq(p, 1, i - 1)) = IF 1 <= i - 1 THEN (i - 1) - 1 + 1 ELSE 0
        /\ \A j \in 1 .. (i - 1) - 1 + 1 : SubSeq(p, 1, i - 1)[j] = p[1 + j - 1]
    BY <2>1, SubSeqProperties
  <2>3. QED
    BY <2>1, <2>2 DEF Before
<1>3. a \in Seq(S) /\ Len(a) = N - i /\ \A j \in 1 .. N - i : a[j] = p[i + j]
  <2>1. i + 1 \in Int /\ N \in Int /\ N - (i + 1) + 1 = N - i /\ (i + 1 <= N \/ N - i = 0)
        /\ (i + 1 <= N \/ ~(i + 1 <= N))
        /\ (\A j \in i + 1 .. N : p[j] \in S) /\ \A j \in 1 .. N - i : (i + 1) + j - 1 = i + j
    BY <1>1
  <2>2. /\ SubSeq(p, i + 1, N) \in Seq(S)
        /\ Len(SubSeq(p, i + 1, N)) = IF i + 1 <= N THEN N - (i + 1) + 1 ELSE 0
        /\ \A j \in 1 .. N - (i + 1) + 1 : SubSeq(p, i + 1, N)[j] = p[(i + 1) + j - 1]
    BY <2>1, SubSeqProperties
  <2>3. a = SubSeq(p, i + 1, N)
    BY DEF After, N
  <2>4. Len(a) = N - i
    BY <2>1, <2>2, <2>3, <1>1
  <2>5. QED
    BY <2>1, <2>2, <2>3, <2>4
<1> HIDE DEF a, b
<1>4. <<x>> \in Seq(S) /\ Len(<<x>>) = 1 /\ <<x>>[1] = x
  OBVIOUS
<1>5. c \in Seq(S) /\ Len(c) = i /\ c[i] = x /\ \A j \in 1 .. i - 1 : c[j] = p[j]
  <2>1. c \in Seq(S) /\ Len(c) = (i - 1) + 1
        /\ \A j \in 1 .. (i - 1) + 1 : c[j] = IF j <= i - 1 THEN b[j] ELSE <<x>>[j - (i - 1)]
    BY <1>2, <1>4, ConcatProperties
  <2>2. (i - 1) + 1 = i /\ i \in 1 .. i /\ ~(i <= i - 1) /\ i - (i - 1) = 1
        /\ \A j \in 1 .. i - 1 : j \in 1 .. i /\ j <= i - 1
    BY <1>1
  <2>3. QED
    BY <2>1, <2>2, <1>2, <1>4
<1> HIDE DEF c
<1>6. e \in Seq(S) /\ Len(e) = i + n /\ (\A j \in 1 .. i : e[j] = c[j])
      /\ \A k \in 1 .. n : e[i + k] = s[k]
  <2>1. e \in Seq(S) /\ Len(e) = i + n
        /\ \A j \in 1 .. i + n : e[j] = IF j <= i THEN c[j] ELSE s[j - i]
    BY <1>5, ConcatProperties DEF n
  <2>2. /\ \A j \in 1 .. i : j \in 1 .. i + n /\ j <= i
        /\ \A k \in 1 .. n : i + k \in 1 .. i + n /\ ~(i + k <= i) /\ (i + k) - i = k
    BY <1>1
  <2>3. QED
    BY <2>1, <2>2
<1> HIDE DEF e
<1>7. r = e \o a
  BY DEF e, c, a, b
<1>8. r \in Seq(S) /\ Len(r) = N + n /\ (\A j \in 1 .. i + n : r[j] = e[j])
      /\ \A j \in 1 .. N - i : r[(i + n) + j] = a[j]
  <2>1. r \in Seq(S) /\ Len(r) = (i + n) + (N - i)
        /\ \A j \in 1 .. (i + n) + (N - i) : r[j] = IF j <= i + n THEN e[j] ELSE a[j - (i + n)]
    <3>1. /\ e \o a \in Seq(S) /\ Len(e \o a) = Len(e) + Len(a)
          /\ \A j \in 1 .. Len(e) + Len(a) : (e \o a)[j] = IF j <= Len(e) THEN e[j] ELSE a[j - Len(e)]
      BY <1>3, <1>6, ConcatProperties
    <3>2. Len(e) = i + n /\ Len(a) = N - i
      BY <1>3, <1>6
    <3>3. QED
      BY <3>1, <3>2, <1>7
  <2>2. /\ (i + n) + (N - i) = N + n
        /\ \A j \in 1 .. i + n : j \in 1 .. N + n /\ j <= i + n
        /\ \A j \in 1 .. N - i : (i + n) + j \in 1 .. N + n /\ ~((i + n) + j <= i + n)
                               /\ ((i + n) + j) - (i + n) = j
    BY <1>1
  <2>3. QED
    BY <2>1, <2>2
<1>9. r[i] = x
  <2>1. i \in 1 .. i + n /\ i \in 1 .. i
    BY <1>1
  <2>2. QED
    BY <2>1, <1>5, <1>6, <1>8
<1>10. \A k \in 1 .. n : r[i + k] = s[k]
  <2>1. \A k \in 1 .. n : i + k \in 1 .. i + n
    BY <1>1
  <2>2. QED
    BY <2>1, <1>6, <1>8
<1>11. ASSUME NEW j \in 1 .. N, j # i PROVE r[Shift(i, n, j)] = p[j]
  <2>1. CASE j <= i
    <3>1. j \in 1 .. i - 1 /\ j \in 1 .. i /\ j \in 1 .. i + n
      BY <1>1, <1>11, <2>1
    <3>2. QED
      BY <2>1, <3>1, <1>5, <1>6, <1>8 DEF Shift
  <2>2. CASE ~(j <= i)
    <3>1. j - i \in 1 .. N - i /\ j + n = (i + n) + (j - i) /\ i + (j - i) = j
      BY <1>1, <1>11, <2>2
    <3>2. r[(i + n) + (j - i)] = a[j - i] /\ a[j - i] = p[i + (j - i)]
      BY <3>1, <1>3, <1>8
    <3>3. QED
      BY <2>2, <3>1, <3>2 DEF Shift
  <2>3. QED
    BY <2>1, <2>2
<1>12. QED
  BY <1>8, <1>9, <1>10, <1>11 DEF N, n, InsertFacts

(* The places of the old and of the new entries are all there are, and the   *)
(* old ones keep their order.                                                *)
PlacesOf(N, n, i) ==
    /\ \A j \in 1 .. N : Shift(i, n, j) \in 1 .. N + n
    /\ \A k \in 1 .. n : i + k \in 1 .. N + n
    /\ \A j, l \in 1 .. N : Shift(i, n, j) < Shift(i, n, l) <=> j < l
    /\ \A j, l \in 1 .. N : Shift(i, n, j) = Shift(i, n, l) <=> j = l
    /\ Shift(i, n, i) = i
    /\ \A y \in 1 .. N + n : \/ \E j \in 1 .. N : y = Shift(i, n, j)
                             \/ \E k \in 1 .. n : y = i + k

LEMMA Places ==
  ASSUME NEW N \in Nat, NEW n \in Nat, NEW i \in 1 .. N
  PROVE  PlacesOf(N, n, i)
<1>1. /\ \A j \in 1 .. N : Shift(i, n, j) \in 1 .. N + n
      /\ \A k \in 1 .. n : i + k \in 1 .. N + n
      /\ Shift(i, n, i) = i
  BY DEF Shift
<1>2. \A j, l \in 1 .. N : Shift(i, n, j) < Shift(i, n, l) <=> j < l
  BY DEF Shift
<1>3. \A j, l \in 1 .. N : Shift(i, n, j) = Shift(i, n, l) <=> j = l
  BY DEF Shift
<1>4. ASSUME NEW y \in 1 .. N + n
      PROVE  (\E j \in 1 .. N : y = Shift(i, n, j)) \/ \E k \in 1 .. n : y = i + k
  <2>1. CASE y <= i
    <3>1. y \in 1 .. N /\ Shift(i, n, y) = y
      BY <2>1 DEF Shift
    <3>2. QED
      BY <3>1
  <2>2. CASE y > i /\ y <= i + n
    <3>1. y - i \in 1 .. n /\ y = i + (y - i)
      BY <2>2
    <3>2. QED
      BY <3>1
  <2>3. CASE y > i + n
    <3>1. y - n \in 1 .. N /\ Shift(i, n, y - n) = y
      BY <2>3 DEF Shift
    <3>2. QED
      BY <3>1
  <2>4. QED
    BY <2>1, <2>2, <2>3
<1>5. QED
  BY <1>1, <1>2, <1>3, <1>4 DEF PlacesOf

-----------------------------------------------------------------------------
(* What holds of every plan of a run: its ids are unique and its gates stand *)
(* behind the work they approve, its table links it, and what no workflow    *)
(* planned continues the id of a materialized placeholder.                   *)
Rooted(p, s) ==
    \E o \in Plans : \A j \in DOMAIN p :
        \/ p[j] \in ToSet(o)
        \/ /\ p[j].kind \in {"agent", "gate"}
           /\ \E e \in DOMAIN p : /\ p[e].kind = "phases" /\ s[e].status = "complete"
                                  /\ Continues(p[j].id, p[e])
           /\ \E e \in DOMAIN p : p[j].artifact = p[e].id

PlanOk(p, t, s) == p \in Seq(StepDef) /\ Conforms(p) /\ Chained(p, t) /\ Rooted(p, s)

(* q is p with the steps new behind the one at i, u is s with what belongs   *)
(* to them, and the entry at i is now x.                                     *)
Grown(p, q, i, new) ==
    /\ q \in Seq(StepDef) /\ Len(q) = Len(p) + Len(new)
    /\ \A j \in 1 .. Len(p) : q[Shift(i, Len(new), j)] = p[j]
    /\ \A k \in 1 .. Len(new) : q[i + k] = new[k]

GrownSteps(s, u, N, i, n, x) ==
    /\ u[i] = x
    /\ \A j \in 1 .. N : j # i => u[Shift(i, n, j)] = s[j]
    /\ \A k \in 1 .. n : u[i + k] = NewStep

(* Two ids that one sequence continues are equal or one continues the other. *)
LEMMA OnePrefix ==
  ASSUME NEW S, NEW d, NEW e, d.id \in Seq(S), e.id \in Seq(S),
         NEW x, Continues(x, d), Continues(x, e)
  PROVE  d.id = e.id \/ Continues(d.id, e) \/ Continues(e.id, d)
<1>1. /\ Len(d.id) \in Nat /\ DOMAIN d.id = 1 .. Len(d.id)
      /\ Len(e.id) \in Nat /\ DOMAIN e.id = 1 .. Len(e.id)
  BY LenProperties
<1>2. (\A k \in 1 .. Len(d.id) : x[k] = d.id[k]) /\ \A k \in 1 .. Len(e.id) : x[k] = e.id[k]
  BY <1>1 DEF Continues
<1>3. CASE Len(d.id) = Len(e.id)
  <2>1. \A k \in 1 .. Len(d.id) : d.id[k] = e.id[k]
    BY <1>2, <1>3
  <2>2. QED
    BY <1>3, <2>1, SeqEqual
<1>4. CASE Len(d.id) > Len(e.id)
  <2>1. \A k \in 1 .. Len(e.id) : k \in 1 .. Len(d.id)
    BY <1>1, <1>4
  <2>2. \A k \in DOMAIN e.id : d.id[k] = e.id[k]
    BY <1>1, <1>2, <2>1
  <2>3. QED
    BY <1>4, <2>2 DEF Continues
<1>5. CASE Len(e.id) > Len(d.id)
  <2>1. \A k \in 1 .. Len(d.id) : k \in 1 .. Len(e.id)
    BY <1>1, <1>5
  <2>2. \A k \in DOMAIN d.id : e.id[k] = d.id[k]
    BY <1>1, <1>2, <2>1
  <2>3. QED
    BY <1>5, <2>2 DEF Continues
<1>6. QED
  BY <1>1, <1>3, <1>4, <1>5

(* No id and no artifact of a plan continues the id of a placeholder that is *)
(* still pending.                                                            *)
LEMMA Fresh ==
  ASSUME NEW p, NEW s, Conforms(p), Rooted(p, s),
         NEW i \in DOMAIN p, p[i].kind = "phases", s[i].status = "pending"
  PROVE  /\ p[i] \in Placeholders
         /\ \A j \in DOMAIN p : ~Continues(p[j].id, p[i]) /\ ~Continues(p[j].artifact, p[i])
<1>1. PICK o \in Plans : \A j \in DOMAIN p :
        \/ p[j] \in ToSet(o)
        \/ /\ p[j].kind \in {"agent", "gate"}
           /\ \E e \in DOMAIN p : /\ p[e].kind = "phases" /\ s[e].status = "complete"
                                  /\ Continues(p[j].id, p[e])
           /\ \E e \in DOMAIN p : p[j].artifact = p[e].id
  BY DEF Rooted
<1>2. \A e \in DOMAIN p : p[e].kind = "phases" => p[e] \in ToSet(o)
  BY <1>1
<1>3. \A d, e \in ToSet(o) : d.kind = "phases" => ~Continues(e.id, d) /\ ~Continues(e.artifact, d)
  BY PhasesAssumption
<1>4. ToSet(o) \subseteq Planned
  BY DEF Planned
<1>5. p[i] \in Placeholders
  BY <1>2, <1>4 DEF Placeholders
<1>6. ASSUME NEW j \in DOMAIN p PROVE ~Continues(p[j].id, p[i])
  <2>1. CASE p[j] \in ToSet(o)
    BY <2>1, <1>2, <1>3
  <2>2. ASSUME NEW e \in DOMAIN p, p[e].kind = "phases", s[e].status = "complete",
               Continues(p[j].id, p[e]), Continues(p[j].id, p[i])
        PROVE  FALSE
    <3>1. p[e].id \in Seq(STRING) /\ p[i].id \in Seq(STRING)
      BY <2>2, <1>2, <1>4, PhasesAssumption
    <3>2. p[e].id = p[i].id \/ Continues(p[e].id, p[i]) \/ Continues(p[i].id, p[e])
      BY <2>2, <3>1, OnePrefix
    <3>3. p[e].id # p[i].id
      BY <2>2 DEF Conforms
    <3>4. QED
      BY <2>2, <3>2, <3>3, <1>2, <1>3
  <2>3. QED
    BY <1>1, <2>1, <2>2
<1>7. ASSUME NEW j \in DOMAIN p PROVE ~Continues(p[j].artifact, p[i])
  <2>1. CASE p[j] \in ToSet(o)
    BY <2>1, <1>2, <1>3
  <2>2. CASE \E e \in DOMAIN p : p[j].artifact = p[e].id
    BY <2>2, <1>6
  <2>3. QED
    BY <1>1, <2>1, <2>2
<1>8. QED
  BY <1>5, <1>6, <1>7

(* Every entry of the grown plan is an old one or a new one. *)
Covered(p, q, i, new, N, n) ==
    /\ DOMAIN p = 1 .. N /\ DOMAIN q = 1 .. N + n
    /\ \A j \in 1 .. N : Shift(i, n, j) \in DOMAIN q /\ q[Shift(i, n, j)] = p[j]
    /\ \A k \in 1 .. n : i + k \in DOMAIN q /\ q[i + k] = new[k]
    /\ \A y \in DOMAIN q : \/ \E j \in 1 .. N : y = Shift(i, n, j) /\ q[y] = p[j]
                           \/ \E k \in 1 .. n : y = i + k /\ q[y] = new[k]

LEMMA GrownPlaces ==
  ASSUME NEW p \in Seq(StepDef), NEW new, NEW n \in Nat, n = Len(new), NEW N \in Nat, N = Len(p),
         NEW i \in 1 .. N, NEW q, Grown(p, q, i, new)
  PROVE  Covered(p, q, i, new, N, n)
<1>1. DOMAIN p = 1 .. N /\ DOMAIN q = 1 .. N + n
  BY LenProperties DEF Grown
<1>2. (\A j \in 1 .. N : q[Shift(i, n, j)] = p[j]) /\ \A k \in 1 .. n : q[i + k] = new[k]
  BY DEF Grown
<1>3. PlacesOf(N, n, i)
  BY Places
<1>4. QED
  <2>1. /\ \A j \in 1 .. N : Shift(i, n, j) \in DOMAIN q
        /\ \A k \in 1 .. n : i + k \in DOMAIN q
    BY <1>1, <1>3 DEF PlacesOf
  <2>2. \A y \in DOMAIN q : (\E j \in 1 .. N : y = Shift(i, n, j)) \/ \E k \in 1 .. n : y = i + k
    BY <1>1, <1>3 DEF PlacesOf
  <2>3. ASSUME NEW y \in DOMAIN q
        PROVE  \/ \E j \in 1 .. N : y = Shift(i, n, j) /\ q[y] = p[j]
               \/ \E k \in 1 .. n : y = i + k /\ q[y] = new[k]
    BY <2>2, <1>2
  <2>4. QED
    BY <1>1, <1>2, <2>1, <2>3 DEF Covered

(* A generated sequence in the place of a pending placeholder leaves a plan  *)
(* whose ids are unique and whose gates, handoffs and policies are in order. *)
LEMMA GrownConforms ==
  ASSUME NEW p \in Seq(StepDef), Conforms(p), NEW N \in Nat, N = Len(p), NEW i \in 1 .. N,
         \A j \in DOMAIN p : ~Continues(p[j].id, p[i]) /\ ~Continues(p[j].artifact, p[i]),
         NEW new, Group(p[i], new), NEW n \in Nat, n = Len(new),
         NEW q, Grown(p, q, i, new)
  PROVE  Conforms(q)
<1>1. /\ DOMAIN p = 1 .. N /\ DOMAIN q = 1 .. N + n
      /\ \A j \in 1 .. N : Shift(i, n, j) \in DOMAIN q /\ q[Shift(i, n, j)] = p[j]
      /\ \A k \in 1 .. n : i + k \in DOMAIN q /\ q[i + k] = new[k]
      /\ \A y \in DOMAIN q : \/ \E j \in 1 .. N : y = Shift(i, n, j) /\ q[y] = p[j]
                             \/ \E k \in 1 .. n : y = i + k /\ q[y] = new[k]
  <2>1. Covered(p, q, i, new, N, n)
    BY GrownPlaces
  <2>2. QED
    BY <2>1 DEF Covered
<1>2. \A j, l \in 1 .. N : Shift(i, n, j) < Shift(i, n, l) <=> j < l
  <2>1. PlacesOf(N, n, i)
    BY Places
  <2>2. QED
    BY <2>1 DEF PlacesOf
<1>0. /\ \A j, l \in 1 .. N : p[j].id = p[l].id => j = l
      /\ \A g, j \in 1 .. N :
           p[g].kind = "gate" /\ Works(p[j]) /\ p[j].artifact = p[g].artifact => j < g
      /\ \A j, l \in 1 .. N :
           p[j].kind = "host-handoff" /\ Works(p[l]) /\ p[l].artifact = p[j].artifact => j = l
      /\ \A j \in 1 .. N : p[j].policy =>
           /\ p[j].kind = "agent"
           /\ p[j].budget > 0 => \E l \in 1 .. j - 1 : p[l].id = p[j].retryFrom /\ Works(p[l])
  <2>1. DOMAIN p = 1 .. N
    BY <1>1
  <2>2. QED
    BY <2>1 DEF Conforms
<1>3. \A k \in 1 .. n : Continues(new[k].id, p[i])
  BY DEF Group, Shaped
<1>4. \A k, l \in 1 .. n : new[k].id = new[l].id => k = l
  BY DEF Group, Shaped
<1>5. \A j \in 1 .. N, k \in 1 .. n : p[j].id # new[k].id /\ p[j].artifact # new[k].id
  BY <1>1, <1>3
<1>6. ASSUME NEW k \in 1 .. n
      PROVE  new[k].kind = "agent" \/ new[k].kind = "gate"
  <2>1. new \in Seq(Made)
    BY DEF Group, Shaped
  <2>2. new[k] \in Made
    BY <2>1, ElementOfSeq
  <2>3. QED
    BY <2>2 DEF Made
<1>7. \A k \in 1 .. n : Works(new[k]) => new[k].kind = "agent" /\ new[k].artifact = new[k].id
  BY <1>6 DEF Works, Group, Shaped
<1>8. \A y, z \in DOMAIN q : q[y].id = q[z].id => y = z
  <2> SUFFICES ASSUME NEW y \in DOMAIN q, NEW z \in DOMAIN q, q[y].id = q[z].id PROVE y = z
    OBVIOUS
  <2>1. ASSUME NEW j \in 1 .. N, y = Shift(i, n, j), q[y] = p[j] PROVE y = z
    <3>1. ASSUME NEW l \in 1 .. N, z = Shift(i, n, l), q[z] = p[l] PROVE y = z
      <4>1. j = l
        BY <2>1, <3>1, <1>0
      <4>2. QED
        BY <2>1, <3>1, <4>1
    <3>2. ASSUME NEW l \in 1 .. n, q[z] = new[l] PROVE FALSE
      BY <2>1, <3>2, <1>5
    <3>3. QED
      BY <3>1, <3>2, <1>1
  <2>2. ASSUME NEW k \in 1 .. n, y = i + k, q[y] = new[k] PROVE y = z
    <3>1. ASSUME NEW l \in 1 .. n, z = i + l, q[z] = new[l] PROVE y = z
      <4>1. k = l
        BY <2>2, <3>1, <1>4
      <4>2. QED
        BY <2>2, <3>1, <4>1
    <3>2. ASSUME NEW l \in 1 .. N, q[z] = p[l] PROVE FALSE
      BY <2>2, <3>2, <1>5
    <3>3. QED
      BY <3>1, <3>2, <1>1
  <2>3. QED
    BY <1>1, <2>1, <2>2
<1>9. \A g, y \in DOMAIN q :
        q[g].kind = "gate" /\ Works(q[y]) /\ q[y].artifact = q[g].artifact => y < g
  <2> SUFFICES ASSUME NEW g \in DOMAIN q, NEW y \in DOMAIN q, q[g].kind = "gate", Works(q[y]),
                      q[y].artifact = q[g].artifact
               PROVE  y < g
    OBVIOUS
  <2>1. ASSUME NEW j \in 1 .. N, NEW l \in 1 .. N, q[g] = p[j], q[y] = p[l],
               g = Shift(i, n, j), y = Shift(i, n, l)
        PROVE  y < g
    <3>1. l < j
      BY <2>1, <1>0
    <3>2. QED
      BY <2>1, <3>1, <1>2
  <2>2. ASSUME NEW k \in 1 .. n, q[y] = new[k], NEW j \in 1 .. N, q[g] = p[j] PROVE FALSE
    BY <2>2, <1>5, <1>7
  <2>3. ASSUME NEW k \in 1 .. n, q[g] = new[k], g = i + k PROVE y < g
    <3>1. PICK l \in 1 .. k - 1 : new[l].kind = "agent" /\ new[l].id = new[k].artifact
      BY <2>3 DEF Group, Shaped
    <3>2. l \in 1 .. n /\ i + l < i + k
      OBVIOUS
    <3>3. q[y].artifact = new[l].id
      BY <2>3, <3>1
    <3>4. ASSUME NEW j \in 1 .. N, q[y] = p[j] PROVE FALSE
      BY <3>2, <3>3, <3>4, <1>5
    <3>5. ASSUME NEW h \in 1 .. n, q[y] = new[h], y = i + h PROVE h = l
      BY <3>2, <3>3, <3>5, <1>4, <1>7
    <3>6. QED
      BY <2>3, <3>2, <3>4, <3>5, <1>1, SMTT(30)
  <2>4. QED
    BY <1>1, <2>1, <2>2, <2>3
<1>10. \A h, y \in DOMAIN q :
         q[h].kind = "host-handoff" /\ Works(q[y]) /\ q[y].artifact = q[h].artifact => h = y
  <2> SUFFICES ASSUME NEW h \in DOMAIN q, NEW y \in DOMAIN q, q[h].kind = "host-handoff",
                      Works(q[y]), q[y].artifact = q[h].artifact
               PROVE  h = y
    OBVIOUS
  <2>1. ASSUME NEW k \in 1 .. n, q[h] = new[k] PROVE FALSE
    BY <2>1, <1>6
  <2>2. ASSUME NEW j \in 1 .. N, NEW l \in 1 .. N, q[h] = p[j], q[y] = p[l],
               h = Shift(i, n, j), y = Shift(i, n, l)
        PROVE  h = y
    <3>1. j = l
      BY <2>2, <1>0
    <3>2. QED
      BY <2>2, <3>1
  <2>3. ASSUME NEW j \in 1 .. N, NEW k \in 1 .. n, q[h] = p[j], q[y] = new[k] PROVE FALSE
    BY <2>3, <1>5, <1>7
  <2>4. QED
    BY <1>1, <2>1, <2>2, <2>3, SMTT(30)
<1>11. \A y \in DOMAIN q : q[y].policy =>
         /\ q[y].kind = "agent"
         /\ q[y].budget > 0 => \E z \in 1 .. y - 1 : q[z].id = q[y].retryFrom /\ Works(q[z])
  <2> SUFFICES ASSUME NEW y \in DOMAIN q, q[y].policy
               PROVE  /\ q[y].kind = "agent"
                      /\ q[y].budget > 0 =>
                           \E z \in 1 .. y - 1 : q[z].id = q[y].retryFrom /\ Works(q[z])
    OBVIOUS
  <2>1. ASSUME NEW j \in 1 .. N, q[y] = p[j], y = Shift(i, n, j)
        PROVE  /\ q[y].kind = "agent"
               /\ q[y].budget > 0 =>
                    \E z \in 1 .. y - 1 : q[z].id = q[y].retryFrom /\ Works(q[z])
    <3>1. /\ p[j].kind = "agent"
          /\ p[j].budget > 0 => \E l \in 1 .. j - 1 : p[l].id = p[j].retryFrom /\ Works(p[l])
      BY <2>1, <1>0
    <3>2. ASSUME NEW l \in 1 .. j - 1
          PROVE  Shift(i, n, l) \in 1 .. y - 1 /\ q[Shift(i, n, l)] = p[l]
      <4>1. l \in 1 .. N /\ l < j
        OBVIOUS
      <4>2. Shift(i, n, l) < y /\ q[Shift(i, n, l)] = p[l]
        BY <4>1, <1>1, <1>2, <2>1
      <4>3. Shift(i, n, l) \in 1 .. N + n /\ y \in 1 .. N + n
        BY <4>1, <1>1
      <4>4. QED
        BY <4>2, <4>3
    <3>3. QED
      BY <2>1, <3>1, <3>2
  <2>2. ASSUME NEW k \in 1 .. n, q[y] = new[k], y = i + k
        PROVE  /\ q[y].kind = "agent"
               /\ \E z \in 1 .. y - 1 : q[z].id = q[y].retryFrom /\ Works(q[z])
    <3>1. PICK l \in 1 .. k - 1 : new[l].kind = "agent" /\ new[l].id = new[k].retryFrom
      BY <2>2 DEF Group, Shaped
    <3>2. new[k].kind # "gate"
      BY <2>2 DEF Group, Shaped
    <3>3. l \in 1 .. n /\ i + l \in 1 .. y - 1
      BY <2>2
    <3>4. q[i + l] = new[l]
      BY <3>3, <1>1
    <3>5. QED
      BY <2>2, <3>1, <3>2, <3>3, <3>4, <1>6 DEF Works
  <2>3. QED
    BY <1>1, <2>1, <2>2
<1>12. QED
  BY <1>8, <1>9, <1>10, <1>11 DEF Conforms

(* The table leads through the inserted steps, from the placeholder on.      *)
NextOf(p, i) == {p[j].id : j \in {j \in DOMAIN p : j = i + 1}}

LEMMA GrownChained ==
  ASSUME NEW N \in Nat, N = Len(plan), plan \in Seq(StepDef), NEW i \in 1 .. N,
         Conforms(plan), Chained(plan, successors),
         \A j \in DOMAIN plan : ~Continues(plan[j].id, plan[i]),
         NEW new, Group(plan[i], new), NEW n \in Nat, n = Len(new),
         NEW q, Grown(plan, q, i, new), NEW t, t = Spliced(i, new)
  PROVE  Chained(q, t)
<1>1. /\ DOMAIN plan = 1 .. N /\ DOMAIN q = 1 .. N + n
      /\ \A j \in 1 .. N : Shift(i, n, j) \in DOMAIN q /\ q[Shift(i, n, j)] = plan[j]
      /\ \A k \in 1 .. n : i + k \in DOMAIN q /\ q[i + k] = new[k]
      /\ \A y \in DOMAIN q : \/ \E j \in 1 .. N : y = Shift(i, n, j) /\ q[y] = plan[j]
                             \/ \E k \in 1 .. n : y = i + k /\ q[y] = new[k]
  <2>1. Covered(plan, q, i, new, N, n)
    BY GrownPlaces
  <2>2. QED
    BY <2>1 DEF Covered
<1>2. n # 0 /\ DOMAIN new = 1 .. n /\ Last(new) = new[n]
  BY LenProperties DEF Group, Shaped, Last
<1>3. /\ \A k \in 1 .. n : Continues(new[k].id, plan[i])
      /\ \A k, l \in 1 .. n : new[k].id = new[l].id => k = l
      /\ \A j, l \in 1 .. N : plan[j].id = plan[l].id => j = l
  BY <1>1 DEF Group, Shaped, Conforms
<1>4. \A j \in 1 .. N, k \in 1 .. n : plan[j].id # new[k].id
  BY <1>1, <1>3
<1>5. /\ DOMAIN successors = {plan[j].id : j \in 1 .. N}
      /\ \A j \in 1 .. N : successors[plan[j].id] = NextOf(plan, j)
  BY <1>1 DEF Chained, NextOf
<1>6. {x.id : x \in ToSet(new)} = {new[k].id : k \in 1 .. n}
  BY <1>2 DEF ToSet
<1> DEFINE ids == DOMAIN successors \cup {x.id : x \in ToSet(new)}
<1>7. t = [id \in ids |->
             IF id = plan[i].id THEN {new[1].id}
             ELSE IF id \in DOMAIN successors THEN successors[id]
             ELSE IF id = new[n].id THEN successors[plan[i].id]
             ELSE {new[k + 1].id : k \in {k \in 1 .. n : new[k].id = id}}]
  BY <1>2 DEF Spliced
<1>8. ids = {q[y].id : y \in DOMAIN q}
  <2>0. ids = {plan[j].id : j \in 1 .. N} \cup {new[k].id : k \in 1 .. n}
    BY <1>5, <1>6
  <2> HIDE DEF ids
  <2>1. ASSUME NEW y \in DOMAIN q PROVE q[y].id \in ids
    <3>1. CASE \E j \in 1 .. N : q[y] = plan[j]
      BY <2>0, <3>1
    <3>2. CASE \E k \in 1 .. n : q[y] = new[k]
      BY <2>0, <3>2
    <3>3. QED
      BY <1>1, <3>1, <3>2
  <2>2. ASSUME NEW j \in 1 .. N PROVE plan[j].id \in {q[y].id : y \in DOMAIN q}
    BY <1>1
  <2>3. ASSUME NEW k \in 1 .. n PROVE new[k].id \in {q[y].id : y \in DOMAIN q}
    BY <1>1
  <2>4. QED
    BY <2>0, <2>1, <2>2, <2>3, SMTT(30)
<1> HIDE DEF ids
<1>9. /\ \A y \in DOMAIN q : y + 1 \in DOMAIN q => NextOf(q, y) = {q[y + 1].id}
      /\ \A y \in DOMAIN q : y + 1 \notin DOMAIN q => NextOf(q, y) = {}
      /\ \A j \in 1 .. N : j + 1 \in 1 .. N => NextOf(plan, j) = {plan[j + 1].id}
      /\ \A j \in 1 .. N : j + 1 \notin 1 .. N => NextOf(plan, j) = {}
  BY <1>1 DEF NextOf
<1>10. ASSUME NEW j \in 1 .. N PROVE t[plan[j].id] = NextOf(q, Shift(i, n, j))
  <2>1. plan[j].id \in ids /\ plan[j].id \in DOMAIN successors
    BY <1>5 DEF ids
  <2>2. CASE j = i
    <3>1. t[plan[j].id] = {new[1].id}
      BY <2>1, <2>2, <1>7
    <3>2. Shift(i, n, j) = i /\ i \in DOMAIN q /\ i + 1 \in DOMAIN q /\ q[i + 1] = new[1]
      <4>1. 1 \in 1 .. n
        BY <1>2
      <4>2. QED
        BY <4>1, <2>2, <1>1 DEF Shift
    <3>3. QED
      BY <3>1, <3>2, <1>9
  <2>3. CASE j # i
    <3>1. t[plan[j].id] = NextOf(plan, j)
      BY <2>1, <2>3, <1>3, <1>5, <1>7
    <3>2. CASE j + 1 \in 1 .. N
      <4>1. Shift(i, n, j + 1) = Shift(i, n, j) + 1
        BY <2>3 DEF Shift
      <4>2. Shift(i, n, j) + 1 \in DOMAIN q /\ q[Shift(i, n, j) + 1] = plan[j + 1]
        BY <3>2, <4>1, <1>1
      <4>3. Shift(i, n, j) \in DOMAIN q
        BY <1>1
      <4>4. NextOf(q, Shift(i, n, j)) = {plan[j + 1].id}
        BY <4>2, <4>3, <1>9
      <4>5. QED
        BY <3>1, <3>2, <4>4, <1>9
    <3>3. CASE j + 1 \notin 1 .. N
      <4>1. Shift(i, n, j) = N + n
        BY <2>3, <3>3 DEF Shift
      <4>2. Shift(i, n, j) \in DOMAIN q /\ Shift(i, n, j) + 1 \notin DOMAIN q
        BY <4>1, <1>1
      <4>3. QED
        BY <3>1, <3>3, <4>2, <1>9
    <3>4. QED
      BY <3>2, <3>3
  <2>4. QED
    BY <2>2, <2>3
<1>11. ASSUME NEW k \in 1 .. n PROVE t[new[k].id] = NextOf(q, i + k)
  <2>1. new[k].id \in ids /\ new[k].id \notin DOMAIN successors /\ new[k].id # plan[i].id
    BY <1>4, <1>5, <1>6 DEF ids
  <2>2. i + k \in DOMAIN q
    BY <1>1
  <2>3. CASE k = n
    <3>1. t[new[k].id] = NextOf(plan, i)
      BY <2>1, <2>3, <1>5, <1>7
    <3>2. CASE i + 1 \in 1 .. N
      <4>1. Shift(i, n, i + 1) = (i + k) + 1
        BY <2>3 DEF Shift
      <4>2. (i + k) + 1 \in DOMAIN q /\ q[(i + k) + 1] = plan[i + 1]
        BY <3>2, <4>1, <1>1
      <4>3. NextOf(q, i + k) = {plan[i + 1].id}
        BY <4>2, <2>2, <1>9
      <4>4. QED
        BY <3>1, <3>2, <4>3, <1>9
    <3>3. CASE i + 1 \notin 1 .. N
      <4>1. (i + k) + 1 \notin DOMAIN q
        BY <2>3, <3>3, <1>1
      <4>2. QED
        BY <3>1, <3>3, <4>1, <2>2, <1>9
    <3>4. QED
      BY <3>2, <3>3
  <2>4. CASE k # n
    <3>1. k + 1 \in 1 .. n /\ n \in 1 .. n
      BY <2>4, <1>2
    <3>2. t[new[k].id] = {new[l + 1].id : l \in {l \in 1 .. n : new[l].id = new[k].id}}
      BY <2>1, <2>4, <3>1, <1>3, <1>7
    <3>3. {l \in 1 .. n : new[l].id = new[k].id} = {k}
      BY <1>3
    <3>4. t[new[k].id] = {new[k + 1].id}
      BY <3>2, <3>3
    <3>5. i + (k + 1) = (i + k) + 1
      OBVIOUS
    <3>6. (i + k) + 1 \in DOMAIN q /\ q[(i + k) + 1] = new[k + 1]
      BY <3>1, <3>5, <1>1
    <3>7. NextOf(q, i + k) = {new[k + 1].id}
      BY <3>6, <2>2, <1>9
    <3>8. QED
      BY <3>4, <3>7
  <2>5. QED
    BY <2>3, <2>4
<1>12. \A y \in DOMAIN q : t[q[y].id] = NextOf(q, y)
  BY <1>1, <1>10, <1>11
<1>13. DOMAIN t = {q[y].id : y \in DOMAIN q}
  BY <1>7, <1>8
<1>14. QED
  BY <1>12, <1>13 DEF Chained, NextOf

(* What was inserted continues the id of the placeholder, now materialized.  *)
LEMMA GrownRooted ==
  ASSUME NEW p \in Seq(StepDef), NEW s, Rooted(p, s), NEW N \in Nat, N = Len(p), NEW i \in 1 .. N,
         p[i].kind = "phases", s[i].status = "pending",
         NEW new, Group(p[i], new), NEW n \in Nat, n = Len(new),
         NEW q, Grown(p, q, i, new),
         NEW u, NEW x, GrownSteps(s, u, N, i, n, x), x.status = "complete"
  PROVE  Rooted(q, u)
<1>1. /\ DOMAIN p = 1 .. N /\ DOMAIN q = 1 .. N + n
      /\ \A j \in 1 .. N : Shift(i, n, j) \in DOMAIN q /\ q[Shift(i, n, j)] = p[j]
      /\ \A k \in 1 .. n : i + k \in DOMAIN q /\ q[i + k] = new[k]
      /\ \A y \in DOMAIN q : \/ \E j \in 1 .. N : y = Shift(i, n, j) /\ q[y] = p[j]
                             \/ \E k \in 1 .. n : y = i + k /\ q[y] = new[k]
  <2>1. Covered(p, q, i, new, N, n)
    BY GrownPlaces
  <2>2. QED
    BY <2>1 DEF Covered
<1>2. PICK o \in Plans : \A j \in DOMAIN p :
        \/ p[j] \in ToSet(o)
        \/ /\ p[j].kind \in {"agent", "gate"}
           /\ \E e \in DOMAIN p : /\ p[e].kind = "phases" /\ s[e].status = "complete"
                                  /\ Continues(p[j].id, p[e])
           /\ \E e \in DOMAIN p : p[j].artifact = p[e].id
  BY DEF Rooted
<1> DEFINE Grows(y) == /\ q[y].kind \in {"agent", "gate"}
                       /\ \E e \in DOMAIN q : /\ q[e].kind = "phases" /\ u[e].status = "complete"
                                              /\ Continues(q[y].id, q[e])
                       /\ \E e \in DOMAIN q : q[y].artifact = q[e].id
<1>3. \A e \in 1 .. N : s[e].status = "complete" => u[Shift(i, n, e)].status = "complete"
  BY DEF GrownSteps
<1>4. ASSUME NEW y \in DOMAIN q, NEW j \in 1 .. N, q[y] = p[j] PROVE q[y] \in ToSet(o) \/ Grows(y)
  <2>1. CASE p[j] \in ToSet(o)
    BY <1>4, <2>1
  <2>2. ASSUME p[j].kind \in {"agent", "gate"},
               NEW e \in DOMAIN p, p[e].kind = "phases", s[e].status = "complete",
               Continues(p[j].id, p[e]),
               NEW f \in DOMAIN p, p[j].artifact = p[f].id
        PROVE  Grows(y)
    <3>1. /\ Shift(i, n, e) \in DOMAIN q /\ q[Shift(i, n, e)] = p[e]
          /\ u[Shift(i, n, e)].status = "complete"
          /\ Shift(i, n, f) \in DOMAIN q /\ q[Shift(i, n, f)] = p[f]
      BY <2>2, <1>1, <1>3
    <3>2. QED
      BY <1>4, <2>2, <3>1
  <2>3. QED
    BY <1>1, <1>2, <2>1, <2>2
<1>5. ASSUME NEW y \in DOMAIN q, NEW k \in 1 .. n, q[y] = new[k] PROVE Grows(y)
  <2>1. new[k] \in Made
    BY ElementOfSeq DEF Group, Shaped
  <2>2. new[k].kind \in {"agent", "gate"}
    BY <2>1 DEF Made
  <2>3. i \in DOMAIN q /\ q[i] = p[i] /\ u[i].status = "complete" /\ Continues(new[k].id, p[i])
    <3>1. Shift(i, n, i) = i
      BY DEF Shift
    <3>2. Shift(i, n, i) \in DOMAIN q /\ q[Shift(i, n, i)] = p[i]
      BY <1>1
    <3>3. QED
      BY <3>1, <3>2 DEF GrownSteps, Group, Shaped
  <2>4. \E l \in 1 .. n : new[k].artifact = new[l].id
    <3>1. CASE new[k].kind = "agent"
      BY <3>1 DEF Group, Shaped
    <3>2. CASE new[k].kind = "gate"
      <4>1. PICK l \in 1 .. k - 1 : new[l].id = new[k].artifact
        BY <3>2 DEF Group, Shaped
      <4>2. l \in 1 .. n
        OBVIOUS
      <4>3. QED
        BY <4>1, <4>2
    <3>3. QED
      BY <2>2, <3>1, <3>2
  <2>5. \E e \in DOMAIN q : q[y].artifact = q[e].id
    <3>1. PICK l \in 1 .. n : new[k].artifact = new[l].id
      BY <2>4
    <3>2. i + l \in DOMAIN q /\ q[i + l] = new[l]
      BY <1>1
    <3>3. QED
      BY <3>1, <3>2, <1>5
  <2>6. QED
    BY <1>5, <2>2, <2>3, <2>5
<1> HIDE DEF Grows
<1>6. ASSUME NEW y \in DOMAIN q PROVE q[y] \in ToSet(o) \/ Grows(y)
  <2>1. CASE \E j \in 1 .. N : q[y] = p[j]
    BY <2>1, <1>4
  <2>2. CASE \E k \in 1 .. n : q[y] = new[k]
    BY <2>2, <1>5
  <2>3. QED
    BY <1>1, <2>1, <2>2
<1>7. QED
  BY <1>6 DEF Rooted, Grows

-----------------------------------------------------------------------------
(* An entry for a step that has not begun has its type, and so has the entry *)
(* of a placeholder that is materialized.                                    *)
LEMMA NewStepType == NewStep \in StepState
  BY DEF NewStep, StepState

Made1(i, m) == [steps[i] EXCEPT !.status = "complete", !.manifest = m]

LEMMA PlaceholderType ==
  ASSUME NEW i, steps[i] \in StepState, NEW m \in Manifest
  PROVE  /\ Made1(i, m) \in StepState
         /\ Made1(i, m).status = "complete" /\ Made1(i, m).manifest = m
         /\ Made1(i, m).output = steps[i].output /\ Made1(i, m).ran = steps[i].ran
         /\ Made1(i, m).amendments = steps[i].amendments /\ Made1(i, m).acked = steps[i].acked
         /\ Made1(i, m).approval = steps[i].approval /\ Made1(i, m).taken = steps[i].taken
         /\ Made1(i, m).verdict = steps[i].verdict /\ Made1(i, m).exhausted = steps[i].exhausted
<1>1. m \in Content
  BY PhasesAssumption
<1>2. QED
  BY <1>1 DEF Made1, StepState

(* What Materialize makes of the plan, the steps and the table.              *)
GrownPlan(i, new) == Before(plan, i) \o <<plan[i]>> \o new \o After(plan, i)
GrownTable(i, new, m) ==
    Before(steps, i) \o <<Made1(i, m)>> \o [k \in DOMAIN new |-> NewStep] \o After(steps, i)

LEMMA Materialized ==
  ASSUME plan \in Seq(StepDef), steps \in [Step -> StepState], PlanOk(plan, successors, steps),
         NEW i \in Step, IsPhases(i), steps[i].status = "pending",
         NEW m \in Manifest, NEW new, new = Generated[plan[i]][m]
  PROVE  /\ Group(plan[i], new)
         /\ plan[i] \in Placeholders
         /\ \A k \in 1 .. Len(new) : new[k] \in StepDef
         /\ Grown(plan, GrownPlan(i, new), i, new)
         /\ GrownSteps(steps, GrownTable(i, new, m), Len(plan), i, Len(new), Made1(i, m))
         /\ GrownTable(i, new, m) \in [DOMAIN GrownPlan(i, new) -> StepState]
         /\ PlanOk(GrownPlan(i, new), Spliced(i, new), GrownTable(i, new, m))
<1> DEFINE q == GrownPlan(i, new)
           x == Made1(i, m)
           z == [k \in DOMAIN new |-> NewStep]
           u == GrownTable(i, new, m)
           N == Len(plan)
           n == Len(new)
<1>1. N \in Nat /\ Step = 1 .. N /\ i \in 1 .. N
  BY LenProperties DEF Step
<1>2. /\ plan[i] \in Placeholders
      /\ \A j \in Step : ~Continues(plan[j].id, plan[i]) /\ ~Continues(plan[j].artifact, plan[i])
  <2>1. plan[i].kind = "phases" /\ Conforms(plan) /\ Rooted(plan, steps) /\ i \in DOMAIN plan
    BY DEF PlanOk, IsPhases, Step
  <2>2. QED
    BY <2>1, Fresh DEF Step
<1>3. Group(plan[i], new)
  BY <1>2, GeneratedGroup
<1>4. new \in Seq(Made) /\ n \in Nat /\ DOMAIN new = 1 .. n
  BY <1>3, LenProperties DEF Group, Shaped
<1>5. \A k \in 1 .. n : new[k] \in StepDef
  <2>1. ToSet(new) \subseteq StepDef
    BY <1>2 DEF StepDef
  <2>2. QED
    BY <1>4, <2>1 DEF ToSet
<1>6. new \in Seq(StepDef)
  <2>1. new = [k \in 1 .. n |-> new[k]]
    BY <1>4
  <2> HIDE DEF n
  <2>2. QED
    BY <1>4, <1>5, <2>1
<1>7. plan[i] \in StepDef
  BY <1>1, ElementOfSeq
<1>8. Grown(plan, q, i, new)
  <2>1. q = Before(plan, i) \o <<plan[i]>> \o new \o After(plan, i)
    BY DEF GrownPlan
  <2> HIDE DEF q
  <2>2. InsertFacts(StepDef, plan, i, plan[i], new, q)
    BY <1>1, <1>6, <1>7, <2>1, Inserted
  <2>3. /\ q \in Seq(StepDef) /\ Len(q) = Len(plan) + Len(new)
        /\ q[i] = plan[i]
        /\ \A k \in 1 .. Len(new) : q[i + k] = new[k]
        /\ \A j \in 1 .. Len(plan) : j # i => q[Shift(i, Len(new), j)] = plan[j]
    BY <2>2 DEF InsertFacts
  <2>4. Shift(i, Len(new), i) = i
    BY <1>1 DEF Shift
  <2>5. QED
    BY <2>3, <2>4 DEF Grown
<1>9. steps \in Seq(StepState) /\ Len(steps) = N
  <2>1. steps \in [1 .. N -> StepState]
    BY <1>1
  <2> HIDE DEF N
  <2>2. QED
    BY <2>1, <1>1
<1>10. z \in Seq(StepState) /\ Len(z) = n /\ \A k \in 1 .. n : z[k] = NewStep
  <2>1. z = [k \in 1 .. n |-> NewStep]
    BY <1>4
  <2> HIDE DEF n, z
  <2>2. QED
    BY <1>4, <2>1, NewStepType
<1>11. x \in StepState /\ x.status = "complete"
  <2>1. steps[i] \in StepState
    OBVIOUS
  <2>2. QED
    BY <2>1, PlaceholderType
<1>12. u \in Seq(StepState) /\ Len(u) = N + n /\ GrownSteps(steps, u, N, i, n, x)
  <2>1. u = Before(steps, i) \o <<x>> \o z \o After(steps, i)
    BY DEF GrownTable
  <2>2. i \in 1 .. Len(steps)
    BY <1>1, <1>9
  <2> HIDE DEF u, x, z, N, n
  <2>3. InsertFacts(StepState, steps, i, x, z, u)
    BY <1>9, <1>10, <1>11, <2>1, <2>2, Inserted
  <2>4. /\ u \in Seq(StepState) /\ Len(u) = N + n
        /\ u[i] = x
        /\ \A k \in 1 .. n : u[i + k] = z[k]
        /\ \A j \in 1 .. N : j # i => u[Shift(i, n, j)] = steps[j]
    BY <2>3, <1>9, <1>10 DEF InsertFacts
  <2>5. QED
    BY <2>4, <1>10 DEF GrownSteps
<1>13. u \in [DOMAIN q -> StepState]
  <2>1. DOMAIN q = 1 .. N + n
    BY <1>8, LenProperties DEF Grown
  <2>2. DOMAIN u = 1 .. N + n /\ u \in [1 .. Len(u) -> StepState]
    BY <1>12, LenProperties
  <2>3. QED
    BY <2>1, <2>2, <1>12
<1> HIDE DEF q, u, x, z
<1>14. PlanOk(q, Spliced(i, new), u)
  <2>1. Conforms(plan) /\ Chained(plan, successors) /\ Rooted(plan, steps) /\ DOMAIN plan = 1 .. N
    BY <1>1 DEF PlanOk, Step
  <2>2. plan[i].kind = "phases"
    BY DEF IsPhases
  <2>3. \A j \in DOMAIN plan : ~Continues(plan[j].id, plan[i]) /\ ~Continues(plan[j].artifact, plan[i])
    BY <1>2 DEF Step
  <2>4. Conforms(q)
    BY <1>1, <1>3, <1>4, <1>8, <2>1, <2>3, GrownConforms
  <2>5. Chained(q, Spliced(i, new))
    BY <1>1, <1>3, <1>4, <1>8, <2>1, <2>3, GrownChained
  <2>6. Rooted(q, u)
    BY <1>1, <1>3, <1>4, <1>8, <1>11, <1>12, <2>1, <2>2, GrownRooted
  <2>7. QED
    BY <1>8, <2>4, <2>5, <2>6 DEF PlanOk, Grown
<1>15. QED
  BY <1>2, <1>3, <1>5, <1>8, <1>12, <1>13, <1>14 DEF q, u, x
=============================================================================
