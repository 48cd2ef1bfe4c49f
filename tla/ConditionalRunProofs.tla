------------------------ MODULE ConditionalRunProofs ------------------------
(***************************************************************************)
(* What start reads, expands and freezes, and what a run does with the      *)
(* conditions of its plan, for every set of workflow files, every request   *)
(* and every edit while a workflow is read: theorems of ConditionalRun.tla. *)
(* The recursive functions of the model (the expansion by depth, the        *)
(* evaluation of a condition node by node) are reasoned about by induction  *)
(* on Nat in the form of a set closed under successor.                      *)
(***************************************************************************)
EXTENDS ConditionalRun, SequenceLemmas

StepId == {s.id : s \in AnyStep}
Parsed == Text \ {Unreadable}

(* Namespace a is the one of a workflow that mounts, directly or not, the    *)
(* one with namespace b, or the same.                                        *)
Prefix(a, b) == Len(a) <= Len(b) /\ \A i \in 1 .. Len(a) : a[i] = b[i]

-----------------------------------------------------------------------------
(* What start has read *)

FilesTyped == files \in [Path -> Text \cup {Nil}] /\ \A f \in Path : files[f] \in MayHold[f]

MountTyped(m) ==
    m.ns \in Seq(StepId) /\ m.name \in Name /\ m.stack \in Seq(Path) /\ Len(m.stack) <= MaxDepth

(* No mount still to be read stands at, above or below another one, nor at   *)
(* or above what has been read.                                              *)
AgendaSound(a, read) ==
    /\ a \in Seq(ToSet(a))
    /\ \A k \in DOMAIN a : MountTyped(a[k]) /\ \A n \in read : ~Prefix(a[k].ns, n)
    /\ \A k, l \in DOMAIN a : k # l => ~Prefix(a[k].ns, a[l].ns)

Expected(a) == {a[k].ns : k \in DOMAIN a}

(* A workflow that was read is the valid text of a file, and what it mounts  *)
(* has been read or will be.                                                 *)
NodeSound(node, n, known) ==
    /\ n \in Seq(StepId) /\ node.ns = n
    /\ node.text \in Parsed /\ Valid(node.text)
    /\ \A s \in ToSet(node.text.steps) : s.kind = "uses" => Append(n, s.id) \in known

ReadInv ==
    /\ FilesTyped
    /\ call \in {"none", "reading", "frozen"}
    /\ bound \in {{}} \cup {r.roles : r \in Requests}
    /\ AgendaSound(agenda, DOMAIN nodes)
    /\ \A n \in DOMAIN nodes : NodeSound(nodes[n], n, DOMAIN nodes \cup Expected(agenda))
    /\ call = "none" => agenda = << >> /\ nodes = << >>
    /\ call # "none" => << >> \in DOMAIN nodes \cup Expected(agenda)
    /\ EffectiveParametersConform

(* The steps of a workflow that can be read are steps of a text. *)
LEMMA StepsOfText ==
  ASSUME NEW w \in Parsed
  PROVE  w.steps \in Seq(AnyStep) /\ ToSet(w.steps) \subseteq AnyStep
<1>1. w.steps \in Seq(ToSet(w.steps)) /\ ToSet(w.steps) \subseteq AnyStep
  BY ExpansionAssumption DEF ExpansionAssumption, Parsed, AnyStep
<1>2. QED
  BY <1>1

(* The file the registry selects is one of those it may, and holds a text. *)
LEMMA FileSelected ==
  ASSUME FilesTyped, NEW name \in Name, Selected(name) # Nil
  PROVE  Selected(name) \in Path /\ files[Selected(name)] \in Text
<1> DEFINE found == {k \in DOMAIN Sources : files[<<Sources[k], name>>] # Nil}
<1>1. found # {} /\ Selected(name) = <<Sources[Min(found)], name>>
  BY DEF Selected
<1>2. DOMAIN Sources = 1 .. 3
  BY DEF Sources
<1>3. \E x \in found : \A y \in found : x <= y
  <2>1. found \subseteq 1 .. 3 /\ found # {}
    BY <1>1, <1>2
  <2> HIDE DEF found
  <2>2. CASE 1 \in found
    BY <2>1, <2>2
  <2>3. CASE 1 \notin found /\ 2 \in found
    BY <2>1, <2>3
  <2>4. CASE 1 \notin found /\ 2 \notin found
    <3>1. \A k \in found : k \in 1 .. 3 /\ k # 1 /\ k # 2
      BY <2>1, <2>4
    <3>2. \A k \in found : k = 3
      BY <3>1
    <3>3. 3 \in found
      BY <3>2, <2>1
    <3>4. QED
      BY <3>2, <3>3
  <2>5. QED
    BY <2>2, <2>3, <2>4
<1>4. Min(found) \in found
  BY <1>3 DEF Min
<1>5. Min(found) \in DOMAIN Sources /\ files[<<Sources[Min(found)], name>>] # Nil
  BY <1>4
<1>6. Sources[Min(found)] \in ToSet(Sources)
  BY <1>5 DEF ToSet
<1>7. Selected(name) \in Path /\ files[Selected(name)] # Nil
  BY <1>1, <1>5, <1>6 DEF Path
<1>8. QED
  BY <1>7 DEF FilesTyped

(* The mount a step stands for. *)
MountOf(node, stack, s) ==
    Mount(Append(node.ns, s.id), s.child, stack, s.with, node.params)

(* A step that mounts a workflow leads to one mount, in a namespace of its   *)
(* own, and nothing else does.                                               *)
LEMMA MountsOfNode ==
  ASSUME NEW node, NEW stack, node.ns \in Seq(StepId), node.text \in Parsed,
         DistinctIds(node.text)
  PROVE  LET ms == Mounts(node, stack)
             steps_ == ToSet(node.text.steps)
         IN  /\ ms \in Seq(ToSet(ms))
             /\ \A k \in DOMAIN ms : \E s \in steps_ : s.kind = "uses" /\ ms[k] = MountOf(node, stack, s)
             /\ \A k, l \in DOMAIN ms : k # l => ms[k].ns # ms[l].ns
             /\ \A s \in steps_ : s.kind = "uses" => \E k \in DOMAIN ms : ms[k] = MountOf(node, stack, s)
<1> DEFINE st == node.text.steps
           steps_ == ToSet(st)
           S == {MountOf(node, stack, s) : s \in {s \in steps_ : s.kind = "uses"}}
           q == [k \in DOMAIN st |-> IF st[k].kind = "uses" THEN <<MountOf(node, stack, st[k])>> ELSE << >>]
           ms == FlattenSeq(q)
<1>1. st \in Seq(AnyStep) /\ steps_ \subseteq AnyStep
  BY StepsOfText
<1>2. DOMAIN st = 1 .. Len(st) /\ Len(st) \in Nat /\ \A k \in DOMAIN st : st[k] \in steps_
  BY <1>1 DEF ToSet
<1>3. q \in Seq(Seq(S))
  <2>1. \A k \in DOMAIN st : q[k] \in Seq(S)
    <3> SUFFICES ASSUME NEW k \in DOMAIN st PROVE q[k] \in Seq(S)
      OBVIOUS
    <3>1. CASE st[k].kind = "uses"
      <4>1. MountOf(node, stack, st[k]) \in S
        BY <1>2, <3>1
      <4> HIDE DEF S
      <4>2. QED
        BY <4>1, <3>1
    <3>2. CASE st[k].kind # "uses"
      BY <3>2
    <3>3. QED
      BY <3>1, <3>2
  <2>2. q \in [1 .. Len(st) -> Seq(S)]
    <3> HIDE DEF S
    <3>1. QED
      BY <2>1, <1>2
  <2> HIDE DEF q
  <2>3. QED
    BY <2>2, <1>2
<1>4. Mounts(node, stack) = ms
  BY DEF Mounts, MountOf
<1>5. \A k \in DOMAIN st : q[k] = IF st[k].kind = "uses" THEN <<MountOf(node, stack, st[k])>> ELSE << >>
  OBVIOUS
<1>6. DOMAIN q = DOMAIN st
  OBVIOUS
<1>7. \A s : s \in S => \E t \in steps_ : t.kind = "uses" /\ s = MountOf(node, stack, t)
  OBVIOUS
<1> HIDE DEF q, S
<1>8. ms \in Seq(S) /\ \E o : Placed(q, ms, o)
  BY <1>3, FlattenPlaces
<1>9. PICK o : Placed(q, ms, o)
  BY <1>8
<1> HIDE DEF ms
<1>10. ms \in Seq(ToSet(ms))
  BY <1>8 DEF ToSet
<1>11. ASSUME NEW k \in DOMAIN ms
       PROVE  \E s \in steps_ : s.kind = "uses" /\ ms[k] = MountOf(node, stack, s)
  <2>1. ms[k] \in S
    BY <1>8
  <2>2. QED
    BY <2>1, <1>7
<1>12. ASSUME NEW k \in DOMAIN ms
       PROVE  \E a \in DOMAIN st : st[a].kind = "uses" /\ k = o[a] + 1 /\ ms[k] = MountOf(node, stack, st[a])
  <2>1. PICK a \in DOMAIN q : \E j \in DOMAIN q[a] : k = o[a] + j
    BY <1>9 DEF Placed
  <2>2. PICK j \in DOMAIN q[a] : k = o[a] + j
    BY <2>1
  <2>3. st[a].kind = "uses" /\ q[a] = <<MountOf(node, stack, st[a])>>
    <3>1. CASE st[a].kind = "uses"
      BY <3>1, <1>5, <1>6
    <3>2. CASE st[a].kind # "uses"
      <4>1. q[a] = << >>
        BY <3>2, <1>5, <1>6
      <4>2. QED
        BY <4>1
    <3>3. QED
      BY <3>1, <3>2
  <2>4. j = 1
    BY <2>3
  <2>5. ms[k] = q[a][1]
    BY <2>2, <2>4, <1>9 DEF Placed
  <2>6. QED
    BY <2>2, <2>3, <2>4, <2>5, <1>6
<1>13. ASSUME NEW k \in DOMAIN ms, NEW l \in DOMAIN ms, k # l
       PROVE  ms[k].ns # ms[l].ns
  <2>1. PICK a \in DOMAIN st : k = o[a] + 1 /\ ms[k] = MountOf(node, stack, st[a])
    BY <1>12
  <2>2. PICK b \in DOMAIN st : l = o[b] + 1 /\ ms[l] = MountOf(node, stack, st[b])
    BY <1>12
  <2>3. a # b
    BY <2>1, <2>2, <1>13
  <2>4. st[a].id # st[b].id
    BY <2>3 DEF DistinctIds
  <2>5. st[a].id \in StepId /\ st[b].id \in StepId
    BY <1>1, <1>2 DEF StepId
  <2>6. Append(node.ns, st[a].id) # Append(node.ns, st[b].id)
    BY <2>4, <2>5, AppendInjective
  <2>7. QED
    BY <2>1, <2>2, <2>6 DEF MountOf, Mount
<1>14. ASSUME NEW s \in steps_, s.kind = "uses"
       PROVE  \E k \in DOMAIN ms : ms[k] = MountOf(node, stack, s)
  <2>1. PICK a \in DOMAIN st : s = st[a]
    BY DEF ToSet
  <2>2. q[a] = <<MountOf(node, stack, s)>>
    BY <2>1, <1>5, <1>14
  <2>3. 1 \in DOMAIN q[a] /\ q[a][1] = MountOf(node, stack, s)
    BY <2>2
  <2>4. o[a] + 1 \in DOMAIN ms /\ ms[o[a] + 1] = q[a][1]
    BY <2>3, <1>6, <1>9 DEF Placed
  <2>5. QED
    BY <2>3, <2>4
<1>15. QED
  BY <1>4, <1>10, <1>11, <1>13, <1>14

(* Namespaces one below another. *)
LEMMA PrefixFacts ==
  ASSUME NEW a \in Seq(StepId), NEW b \in Seq(StepId), NEW x \in StepId, NEW y \in StepId
  PROVE  /\ ~Prefix(Append(a, x), a)
         /\ Prefix(Append(a, x), b) => Prefix(a, b)
         /\ Prefix(b, Append(a, x)) => Prefix(b, a) \/ Prefix(a, b)
         /\ x # y => ~Prefix(Append(a, x), Append(a, y))
<1> DEFINE ax == Append(a, x)
           ay == Append(a, y)
<1>1. /\ Len(a) \in Nat /\ Len(b) \in Nat /\ Len(ax) = Len(a) + 1 /\ Len(ay) = Len(a) + 1
      /\ \A i \in 1 .. Len(a) : ax[i] = a[i] /\ ay[i] = a[i]
      /\ ax[Len(a) + 1] = x /\ ay[Len(a) + 1] = y
  BY AppendProperties, LenProperties
<1> HIDE DEF ax, ay
<1>2. ~Prefix(ax, a)
  BY <1>1 DEF Prefix
<1>3. ASSUME Prefix(ax, b) PROVE Prefix(a, b)
  BY <1>1, <1>3 DEF Prefix
<1>4. ASSUME Prefix(b, ax) PROVE Prefix(b, a) \/ Prefix(a, b)
  <2>1. CASE Len(b) <= Len(a)
    BY <1>1, <1>4, <2>1 DEF Prefix
  <2>2. CASE Len(b) > Len(a)
    BY <1>1, <1>4, <2>2 DEF Prefix
  <2>3. QED
    BY <2>1, <2>2, <1>1
<1>5. ASSUME x # y PROVE ~Prefix(ax, ay)
  <2>1. Len(a) + 1 \in 1 .. Len(ax)
    BY <1>1
  <2>2. QED
    BY <2>1, <1>1, <1>5 DEF Prefix
<1>6. QED
  BY <1>2, <1>3, <1>4, <1>5 DEF ax, ay

LEMMA PrefixNotBelow ==
  ASSUME NEW a \in Seq(StepId), NEW x \in StepId
  PROVE  ~Prefix(Append(a, x), a)
  BY PrefixFacts

LEMMA PrefixAbove ==
  ASSUME NEW a \in Seq(StepId), NEW b \in Seq(StepId), NEW x \in StepId, ~Prefix(a, b)
  PROVE  ~Prefix(Append(a, x), b)
  BY PrefixFacts

(* Reading the first mount puts those it makes in its place. *)
LEMMA AgendaStep ==
  ASSUME NEW a, NEW read, AgendaSound(a, read), a # << >>,
         \A n \in read : n \in Seq(StepId),
         NEW ms, ms \in Seq(ToSet(ms)),
         \A k \in DOMAIN ms : MountTyped(ms[k]) /\ \E x \in StepId : ms[k].ns = Append(Head(a).ns, x),
         \A k, l \in DOMAIN ms : k # l => ms[k].ns # ms[l].ns
  PROVE  /\ AgendaSound(ms \o Tail(a), read \cup {Head(a).ns})
         /\ Expected(ms \o Tail(a)) \cup {Head(a).ns} = Expected(a) \cup Expected(ms)
<1> DEFINE S == ToSet(a) \cup ToSet(ms)
           t == Tail(a)
           new == ms \o t
           top == Head(a).ns
           M == Len(ms)
<1>1. a \in Seq(S) /\ ms \in Seq(S)
  BY DEF AgendaSound
<1>2. /\ t \in Seq(S) /\ Len(t) = Len(a) - 1 /\ Len(a) \in Nat \ {0} /\ M \in Nat
      /\ \A i \in 1 .. Len(t) : t[i] = a[i + 1]
      /\ DOMAIN a = 1 .. Len(a) /\ DOMAIN ms = 1 .. M /\ Head(a) = a[1]
  <2> HIDE DEF S
  <2>1. QED
    BY <1>1, HeadTailProperties, LenProperties, EmptySeq
<1>3. /\ new \in Seq(S) /\ Len(new) = M + Len(t)
      /\ \A i \in 1 .. M + Len(t) : new[i] = IF i <= M THEN ms[i] ELSE t[i - M]
  <2>1. ms \in Seq(S) /\ t \in Seq(S)
    BY <1>1, <1>2
  <2> HIDE DEF S, t
  <2>2. /\ ms \o t \in Seq(S)
        /\ Len(ms \o t) = Len(ms) + Len(t)
        /\ \A i \in 1 .. Len(ms) + Len(t) : (ms \o t)[i] = IF i <= Len(ms) THEN ms[i] ELSE t[i - Len(ms)]
    BY <2>1, ConcatProperties, Zenon
  <2>3. QED
    BY <2>2
<1> HIDE DEF S, t, new
<1>4. DOMAIN new = 1 .. M + Len(t) /\ new \in Seq(ToSet(new))
  BY <1>3, LenProperties DEF ToSet
<1>5. ASSUME NEW k \in DOMAIN new
      PROVE  \/ k \in DOMAIN ms /\ new[k] = ms[k]
             \/ k > M /\ (k - M) + 1 \in DOMAIN a /\ (k - M) + 1 # 1 /\ new[k] = a[(k - M) + 1]
  <2>1. CASE k <= M
    BY <2>1, <1>2, <1>3, <1>4
  <2>2. CASE k > M
    <3>1. k - M \in 1 .. Len(t) /\ new[k] = t[k - M]
      BY SMTT(40), <2>2, <1>2, <1>3, <1>4
    <3>2. QED
      BY <3>1, <2>2, <1>2
  <2>3. QED
    BY <2>1, <2>2, <1>2, <1>4
<1>6. /\ 1 \in DOMAIN a
      /\ \A k \in DOMAIN a : MountTyped(a[k]) /\ \A n \in read : ~Prefix(a[k].ns, n)
      /\ \A k, l \in DOMAIN a : k # l => ~Prefix(a[k].ns, a[l].ns)
  BY <1>2 DEF AgendaSound
<1>7. top \in Seq(StepId) /\ \A k \in DOMAIN a : a[k].ns \in Seq(StepId)
  BY <1>2, <1>6 DEF MountTyped
<1>8. ASSUME NEW k \in DOMAIN new
      PROVE  MountTyped(new[k]) /\ \A n \in read \cup {top} : ~Prefix(new[k].ns, n)
  <2>1. CASE k \in DOMAIN ms /\ new[k] = ms[k]
    <3>1. PICK x \in StepId : ms[k].ns = Append(top, x)
      BY <2>1
    <3>2. ~Prefix(new[k].ns, top)
      BY <3>1, <2>1, <1>7, PrefixNotBelow
    <3>3. ASSUME NEW n \in read PROVE ~Prefix(new[k].ns, n)
      <4>1. ~Prefix(top, n)
        BY <1>2, <1>6
      <4>2. QED
        BY <4>1, <3>1, <2>1, <1>7, PrefixAbove
    <3>4. QED
      BY <2>1, <3>2, <3>3
  <2>2. CASE (k - M) + 1 \in DOMAIN a /\ (k - M) + 1 # 1 /\ new[k] = a[(k - M) + 1]
    BY SMTT(40), <2>2, <1>2, <1>6
  <2>3. QED
    BY <1>5, <2>1, <2>2
<1>9. ASSUME NEW k \in DOMAIN new, NEW l \in DOMAIN new, k # l
      PROVE  ~Prefix(new[k].ns, new[l].ns)
  <2>1. CASE k \in DOMAIN ms /\ new[k] = ms[k]
    <3>1. PICK x \in StepId : ms[k].ns = Append(top, x)
      BY <2>1
    <3>2. CASE l \in DOMAIN ms /\ new[l] = ms[l]
      <4>1. PICK y \in StepId : ms[l].ns = Append(top, y)
        BY <3>2
      <4>2. x # y
        BY <2>1, <3>1, <3>2, <4>1, <1>9
      <4>3. QED
        BY <2>1, <3>1, <3>2, <4>1, <4>2, <1>7, PrefixFacts
    <3>3. CASE (l - M) + 1 \in DOMAIN a /\ (l - M) + 1 # 1 /\ new[l] = a[(l - M) + 1]
      <4>1. ~Prefix(top, new[l].ns) /\ new[l].ns \in Seq(StepId)
        BY <3>3, <1>2, <1>6, <1>7
      <4>2. QED
        BY <4>1, <2>1, <3>1, <1>7, PrefixFacts
    <3>4. QED
      BY <1>5, <3>2, <3>3
  <2>2. CASE k > M /\ (k - M) + 1 \in DOMAIN a /\ (k - M) + 1 # 1 /\ new[k] = a[(k - M) + 1]
    <3>1. CASE l \in DOMAIN ms /\ new[l] = ms[l]
      <4>1. PICK y \in StepId : ms[l].ns = Append(top, y)
        BY <3>1
      <4>2. ~Prefix(top, new[k].ns) /\ ~Prefix(new[k].ns, top) /\ new[k].ns \in Seq(StepId)
        BY <2>2, <1>2, <1>6, <1>7
      <4>3. ~Prefix(new[k].ns, Append(top, y))
        BY <4>2, <1>7, PrefixFacts
      <4>4. QED
        BY <4>1, <4>3, <3>1
    <3>2. CASE l > M /\ (l - M) + 1 \in DOMAIN a /\ (l - M) + 1 # 1 /\ new[l] = a[(l - M) + 1]
      <4>1. (k - M) + 1 # (l - M) + 1
        BY <1>2, <1>4, <1>9
      <4>2. QED
        BY <4>1, <2>2, <3>2, <1>6
    <3>3. QED
      BY <1>5, <3>1, <3>2
  <2>3. QED
    BY <1>5, <2>1, <2>2
<1>10. AgendaSound(new, read \cup {top})
  BY <1>4, <1>8, <1>9 DEF AgendaSound
<1>11. Expected(new) \cup {top} = Expected(a) \cup Expected(ms)
  <2>1. ASSUME NEW k \in DOMAIN new PROVE new[k].ns \in Expected(a) \cup Expected(ms)
    BY <1>5 DEF Expected
  <2>2. top \in Expected(a)
    BY <1>2, <1>6 DEF Expected
  <2>3. ASSUME NEW k \in DOMAIN a PROVE a[k].ns \in Expected(new) \cup {top}
    <3>1. CASE k = 1
      BY <3>1, <1>2
    <3>2. CASE k # 1
      <4> DEFINE i == (k - 1) + M
      <4>1. k - 1 \in 1 .. Len(t) /\ i \in 1 .. M + Len(t) /\ ~(i <= M) /\ i - M = k - 1
        BY <3>2, <1>2
      <4>2. i \in DOMAIN new /\ new[i] = t[k - 1] /\ t[k - 1] = a[k]
        BY SMTT(40), <4>1, <1>2, <1>3, <1>4
      <4>3. QED
        BY <4>2 DEF Expected
    <3>3. QED
      BY <3>1, <3>2
  <2>4. ASSUME NEW k \in DOMAIN ms PROVE ms[k].ns \in Expected(new)
    <3>1. k \in DOMAIN new /\ new[k] = ms[k]
      BY <1>2, <1>3, <1>4
    <3>2. QED
      BY <3>1 DEF Expected
  <2>5. QED
    BY <2>1, <2>2, <2>3, <2>4 DEF Expected
<1>12. QED
  BY <1>10, <1>11 DEF new, t

-----------------------------------------------------------------------------
(* Reading keeps the invariant *)

LEMMA NothingRead ==
  ASSUME FilesTyped', call' = "none", bound' = {}, agenda' = << >>, nodes' = << >>
  PROVE  ReadInv'
<1>1. AgendaSound(<< >>, {})
  BY DEF AgendaSound, ToSet
<1>2. DOMAIN nodes' = {}
  OBVIOUS
<1>3. EffectiveParametersConform'
  BY <1>2 DEF EffectiveParametersConform
<1>4. QED
  BY <1>1, <1>2, <1>3 DEF ReadInv

(* The value of every parameter of what is mounted is one it accepts. *)
LEMMA BoundParameters ==
  ASSUME NEW params, NEW with, NEW parent, Bindable(params, with, parent),
         \A n \in DOMAIN params : params[n].default \in params[n].values \cup {Nil}
  PROVE  /\ DOMAIN Effective(params, with, parent) = DOMAIN params
         /\ \A n \in DOMAIN params : Effective(params, with, parent)[n] \in params[n].values
<1>1. ASSUME NEW n \in DOMAIN params
      PROVE  Effective(params, with, parent)[n] \in params[n].values
  <2>1. CASE n \in DOMAIN with
    BY <2>1 DEF Bindable, Effective
  <2>2. CASE n \notin DOMAIN with
    BY <2>2 DEF Bindable, Effective
  <2>3. QED
    BY <2>1, <2>2
<1>2. QED
  BY <1>1 DEF Effective

LEMMA ReadKeeps ==
  ASSUME ReadInv, Read
  PROVE  ReadInv'
<1> DEFINE m == Head(agenda)
           file == Selected(m.name)
           w == files[file]
           node == [ns |-> m.ns, text |-> w, params |-> Effective(w.params, m.with, m.parent)]
           stack == Append(m.stack, file)
           ms == Mounts(node, stack)
<1>1. CASE ~Readable(m)
  BY <1>1, NothingRead DEF Read, Refuses, ReadInv, FilesTyped
<1>2. CASE Readable(m)
  <2>1. /\ agenda # << >> /\ call = "reading"
        /\ nodes' = [n \in DOMAIN nodes \cup {m.ns} |-> IF n = m.ns THEN node ELSE nodes[n]]
        /\ agenda' = ms \o Tail(agenda)
        /\ UNCHANGED <<files, call, bound>>
    BY <1>2 DEF Read
  <2>2. agenda \in Seq(ToSet(agenda)) /\ AgendaSound(agenda, DOMAIN nodes)
    BY DEF ReadInv, AgendaSound
  <2>3. 1 \in DOMAIN agenda /\ m = agenda[1]
    BY <2>1, <2>2, FirstOfSeq DEF m
  <2>4. MountTyped(m)
    BY <2>2, <2>3 DEF AgendaSound
  <2>5. file \in Path /\ w \in Text /\ file # Nil
    BY <1>2, <2>4, FileSelected DEF Readable, Resolves, MountTyped, ReadInv
  <2>6. w \in Parsed /\ Valid(w) /\ Len(m.stack) < MaxDepth /\ Bindable(w.params, m.with, m.parent)
    BY <1>2, <2>5 DEF Readable, Resolves, Parsed, Valid
  <2> HIDE DEF file, w
  <2>7. node.ns = m.ns /\ node.text = w /\ node.params = Effective(w.params, m.with, m.parent)
    OBVIOUS
  <2> HIDE DEF node, m
  <2>8. m.ns \in Seq(StepId) /\ m.stack \in Seq(Path)
    BY <2>4 DEF MountTyped
  <2>9. stack \in Seq(Path) /\ Len(stack) <= MaxDepth
    <3>1. stack \in Seq(Path) /\ Len(stack) = Len(m.stack) + 1
      BY <2>5, <2>8, AppendProperties
    <3>2. Len(m.stack) \in Nat /\ MaxDepth \in Nat
      BY <2>8, LenProperties, ExpansionAssumption DEF ExpansionAssumption
    <3>3. QED
      BY <3>1, <3>2, <2>6
  <2> HIDE DEF stack, ms
  <2>10. DistinctIds(node.text)
    BY <2>6, <2>7 DEF Valid
  <2>11. /\ ms \in Seq(ToSet(ms))
         /\ \A k \in DOMAIN ms : \E s \in ToSet(w.steps) :
              s.kind = "uses" /\ ms[k] = MountOf(node, stack, s)
         /\ \A k, l \in DOMAIN ms : k # l => ms[k].ns # ms[l].ns
         /\ \A s \in ToSet(w.steps) : s.kind = "uses" =>
              \E k \in DOMAIN ms : ms[k] = MountOf(node, stack, s)
    BY <2>6, <2>7, <2>8, <2>10, MountsOfNode DEF ms
  <2>12. ToSet(w.steps) \subseteq AnyStep
    BY <2>6, StepsOfText
  <2>13. ASSUME NEW k \in DOMAIN ms
         PROVE  MountTyped(ms[k]) /\ \E x \in StepId : ms[k].ns = Append(m.ns, x)
    <3>1. PICK s \in ToSet(w.steps) : s.kind = "uses" /\ ms[k] = MountOf(node, stack, s)
      BY <2>11
    <3>2. s.id \in StepId /\ s.child \in Name
      BY <3>1, <2>12, ExpansionAssumption DEF StepId, ExpansionAssumption
    <3>3. ms[k].ns = Append(m.ns, s.id) /\ ms[k].name = s.child /\ ms[k].stack = stack
      BY <3>1, <2>7 DEF MountOf, Mount
    <3>4. Append(m.ns, s.id) \in Seq(StepId)
      BY <3>2, <2>8, AppendProperties
    <3>5. QED
      BY <3>2, <3>3, <3>4, <2>9 DEF MountTyped
  <2>14. \A n \in DOMAIN nodes : n \in Seq(StepId)
    BY DEF ReadInv, NodeSound
  <2>15. Head(agenda) = m
    BY DEF m
  <2>16. /\ AgendaSound(agenda', DOMAIN nodes \cup {m.ns})
         /\ Expected(agenda') \cup {m.ns} = Expected(agenda) \cup Expected(ms)
    <3>1. \A k \in DOMAIN ms : MountTyped(ms[k]) /\ \E x \in StepId : ms[k].ns = Append(Head(agenda).ns, x)
      BY <2>13, <2>15
    <3>2. /\ AgendaSound(ms \o Tail(agenda), DOMAIN nodes \cup {Head(agenda).ns})
          /\ Expected(ms \o Tail(agenda)) \cup {Head(agenda).ns} = Expected(agenda) \cup Expected(ms)
      BY <3>1, <2>1, <2>2, <2>11, <2>14, AgendaStep, ZenonT(40)
    <3>3. QED
      BY <3>2, <2>1, <2>15
  <2>17. DOMAIN nodes' = DOMAIN nodes \cup {m.ns}
    BY <2>1
  <2> DEFINE known == DOMAIN nodes' \cup Expected(agenda')
  <2>18. DOMAIN nodes \cup Expected(agenda) \subseteq known /\ Expected(ms) \subseteq known
    BY <2>16, <2>17
  <2>19. ASSUME NEW n \in DOMAIN nodes' PROVE NodeSound(nodes'[n], n, known)
    <3>1. CASE n = m.ns
      <4>1. nodes'[n] = node
        BY <3>1, <2>1, <2>17
      <4>2. ASSUME NEW s \in ToSet(w.steps), s.kind = "uses" PROVE Append(n, s.id) \in known
        <5>1. PICK k \in DOMAIN ms : ms[k] = MountOf(node, stack, s)
          BY <2>11, <4>2
        <5>2. ms[k].ns = Append(m.ns, s.id)
          BY <5>1, <2>7 DEF MountOf, Mount
        <5>3. QED
          BY <5>2, <3>1, <2>18 DEF Expected
      <4> HIDE DEF known
      <4>3. QED
        BY <4>1, <4>2, <3>1, <2>6, <2>7, <2>8 DEF NodeSound
    <3>2. CASE n # m.ns
      <4>1. n \in DOMAIN nodes /\ nodes'[n] = nodes[n]
        BY <3>2, <2>1, <2>17
      <4>2. NodeSound(nodes[n], n, DOMAIN nodes \cup Expected(agenda))
        BY <4>1 DEF ReadInv
      <4> HIDE DEF known
      <4>3. QED
        BY <4>1, <4>2, <2>18 DEF NodeSound
    <3>3. QED
      BY <3>1, <3>2
  <2>20. EffectiveParametersConform'
    <3> SUFFICES ASSUME NEW n \in DOMAIN nodes'
                 PROVE  LET p == nodes'[n].params
                            declared == nodes'[n].text.params
                        IN  /\ DOMAIN p = DOMAIN declared
                            /\ \A f \in DOMAIN declared : p[f] \in declared[f].values
      BY DEF EffectiveParametersConform
    <3>1. CASE n = m.ns
      <4>1. nodes'[n] = node
        BY <3>1, <2>1, <2>17
      <4>2. \A f \in DOMAIN w.params : w.params[f].default \in w.params[f].values \cup {Nil}
        BY <2>6 DEF Valid, ParametersSound
      <4>3. QED
        BY <4>1, <4>2, <2>6, <2>7, BoundParameters
    <3>2. CASE n # m.ns
      <4>1. n \in DOMAIN nodes /\ nodes'[n] = nodes[n]
        BY <3>2, <2>1, <2>17
      <4>2. QED
        BY <4>1 DEF ReadInv, EffectiveParametersConform
    <3>3. QED
      BY <3>1, <3>2
  <2>21. FilesTyped'
    BY <2>1 DEF ReadInv, FilesTyped
  <2>22. << >> \in known
    BY <2>1, <2>18 DEF ReadInv
  <2>23. QED
    BY <2>1, <2>16, <2>17, <2>19, <2>20, <2>21, <2>22 DEF ReadInv
<1>3. QED
  BY <1>1, <1>2

LEMMA ReadInit == RunInit => ReadInv
<1> SUFFICES ASSUME RunInit PROVE ReadInv
  OBVIOUS
<1>1. AgendaSound(<< >>, {})
  BY DEF AgendaSound, ToSet
<1>2. DOMAIN nodes = {}
  BY DEF RunInit, ExpansionInit
<1>3. EffectiveParametersConform
  BY <1>2 DEF EffectiveParametersConform
<1>4. QED
  BY <1>1, <1>2, <1>3 DEF ReadInv, FilesTyped, RunInit, ExpansionInit

LEMMA BeginKeeps ==
  ASSUME ReadInv, StartBegins
  PROVE  ReadInv'
<1>1. PICK r \in Requests :
        /\ bound' = r.roles
        /\ agenda' = <<Mount(<< >>, Root, << >>,
                             [n \in DOMAIN r.params |-> [from |-> FALSE, name |-> r.params[n]]], << >>)>>
  BY DEF StartBegins
<1> DEFINE m == agenda'[1]
<1>2. m.ns = << >> /\ m.name = Root /\ m.stack = << >> /\ DOMAIN agenda' = {1} /\ agenda' = <<m>>
  BY <1>1 DEF Mount
<1>3. MountTyped(m)
  BY <1>2, ExpansionAssumption DEF MountTyped, ExpansionAssumption
<1>4. DOMAIN nodes' = {} /\ call' = "reading" /\ UNCHANGED <<files, nodes>>
  BY DEF ReadInv, StartBegins
<1> HIDE DEF m
<1>5. agenda' \in Seq(ToSet(agenda'))
  BY <1>2 DEF ToSet
<1>6. AgendaSound(agenda', {})
  BY <1>2, <1>3, <1>5 DEF AgendaSound, m
<1>7. << >> \in Expected(agenda')
  BY <1>2 DEF Expected, m
<1>8. EffectiveParametersConform'
  BY <1>4 DEF EffectiveParametersConform
<1>9. FilesTyped'
  BY <1>4 DEF ReadInv, FilesTyped
<1>10. QED
  BY <1>1, <1>4, <1>6, <1>7, <1>8, <1>9 DEF ReadInv

LEMMA EditKeeps ==
  ASSUME ReadInv, NEW f \in Path, Edit(f)
  PROVE  ReadInv'
<1>1. PICK t \in MayHold[f] : files' = [files EXCEPT ![f] = t]
  BY DEF Edit
<1>2. t \in Text \cup {Nil}
  BY ExpansionAssumption DEF ExpansionAssumption
<1>3. FilesTyped'
  BY <1>1, <1>2 DEF ReadInv, FilesTyped
<1>4. UNCHANGED <<call, bound, agenda, nodes>>
  BY DEF Edit
<1>5. EffectiveParametersConform'
  BY <1>4 DEF ReadInv, EffectiveParametersConform
<1>6. QED
  BY <1>3, <1>4, <1>5 DEF ReadInv

LEMMA FreezeKeeps ==
  ASSUME ReadInv, Freeze
  PROVE  ReadInv'
<1>1. CASE Refuses
  BY <1>1, NothingRead DEF Refuses, ReadInv, FilesTyped
<1>2. CASE call' = "frozen" /\ UNCHANGED <<files, bound, agenda, nodes>>
  <2>1. FilesTyped' /\ EffectiveParametersConform'
    BY <1>2 DEF ReadInv, FilesTyped, EffectiveParametersConform
  <2>2. call # "none"
    BY DEF Freeze
  <2>3. QED
    BY <1>2, <2>1, <2>2 DEF ReadInv
<1>3. QED
  BY <1>1, <1>2 DEF Freeze

LEMMA ReadStays ==
  ASSUME ReadInv, UNCHANGED startVars
  PROVE  ReadInv'
  BY DEF ReadInv, startVars, FilesTyped, EffectiveParametersConform

(* What happens on the run leaves what start read alone. *)
LEMMA RunStepIsOfRun == RunStep => UNCHANGED startVars
  BY DEF RunStep, NextSkips, NextReopens, NextStarts, Completes, Fails, Acknowledged, Passes,
         CycleEnds, SentBack, Retry, Sets

LEMMA ReadStep == ReadInv /\ [RunNext]_runVars => ReadInv'
<1> SUFFICES ASSUME ReadInv, [RunNext]_runVars PROVE ReadInv'
  OBVIOUS
<1>1. CASE StartStep
  BY <1>1, BeginKeeps, ReadKeeps, FreezeKeeps DEF StartStep, Creates
<1>2. CASE RunStep
  BY <1>2, ReadStays, RunStepIsOfRun
<1>3. CASE EditStep
  BY <1>3, EditKeeps DEF EditStep
<1>4. CASE NextStops \/ UNCHANGED runVars
  BY <1>4, ReadStays DEF NextStops, runVars
<1>5. QED
  BY <1>1, <1>2, <1>3, <1>4 DEF RunNext

LEMMA ReadInvariant == RunSpec => []ReadInv
<1>1. RunInit => ReadInv
  BY ReadInit
<1>2. ReadInv /\ [RunNext]_runVars => ReadInv'
  BY ReadStep
<1>3. QED
  BY <1>1, <1>2, PTL DEF RunSpec

(* Every parameter of every workflow a run is started with has a value that  *)
(* workflow accepts, whatever the bindings and whatever is edited while it   *)
(* is read (resolveChildParameters).                                         *)
THEOREM ParametersConform == RunSpec => []EffectiveParametersConform
<1>1. ReadInv => EffectiveParametersConform
  BY DEF ReadInv
<1>2. QED
  BY <1>1, ReadInvariant, PTL

-----------------------------------------------------------------------------
(* The steps of a frozen plan *)

PlanFields ==
    {"id", "kind", "actor", "reviewer", "output", "file", "internal", "artifact", "inputs",
     "retryFrom", "result", "when", "rounds", "gate", "origin", "declared", "params", "cycle", "part"}

ConditionSound(c) == c \in Seq(ToSet(c)) /\ WellFormed(c)

(* A step after the mounts have been replaced. *)
MappedSound(s) ==
    /\ DOMAIN s = PlanFields
    /\ s.kind \in {"agent", "host-handoff", "gate", "implementation-phases", "review-cycle"}
    /\ s.id # << >>
    /\ s.cycle = << >> /\ s.part = Nil
    /\ s.rounds \in Nat
    /\ s.origin = s.id /\ DOMAIN s.params = DOMAIN s.declared
    /\ s.retryFrom # Nil => s.kind = "agent"
    /\ s.when # Nil => s.kind = "agent" /\ ConditionSound(s.when)

(* What a step refers to is among the steps in front of it.  Published is    *)
(* which steps write an artifact.                                            *)
Writes(t, a) == Publishes(t) /\ t.output = a /\ t.when = Nil

RefersBack(s, before) ==
    /\ s.kind \in {"gate", "implementation-phases"} => \E t \in before : Writes(t, s.artifact)
    /\ s.kind = "host-handoff" => \A a \in s.inputs : \E t \in before \cup {s} : Writes(t, a)
    /\ s.kind = "implementation-phases" =>
         \E t \in before : t.kind = "gate" /\ t.artifact = s.artifact
    /\ s.kind = "agent" /\ s.retryFrom # Nil =>
         \E t \in before : t.id = s.retryFrom /\ HasOutput(t)

LEMMA RefersFurther ==
  ASSUME NEW s, NEW b1, NEW b2, RefersBack(s, b1), b1 \subseteq b2
  PROVE  RefersBack(s, b2)
  BY DEF RefersBack

(* A namespace put in front of the results a condition asks for leaves its   *)
(* form.                                                                     *)
LEMMA ConditionUnderSound ==
  ASSUME NEW ns, NEW c, ConditionSound(c)
  PROVE  ConditionSound(ConditionUnder(ns, c))
<1> DEFINE d == ConditionUnder(ns, c)
<1>1. c \in Seq(ToSet(c)) /\ DOMAIN c = 1 .. Len(c) /\ Len(c) \in Nat /\ WellFormed(c)
  BY DEF ConditionSound
<1>2. DOMAIN d = 1 .. Len(c)
  BY <1>1 DEF ConditionUnder
<1>3. d \in Seq(ToSet(d)) /\ Len(d) = Len(c)
  <2>1. d = [k \in 1 .. Len(c) |-> d[k]]
    BY <1>1 DEF ConditionUnder
  <2>2. \A k \in 1 .. Len(c) : d[k] \in ToSet(d)
    BY <1>2 DEF ToSet
  <2> HIDE DEF d
  <2>3. d \in [1 .. Len(c) -> ToSet(d)]
    BY <2>1, <2>2
  <2>4. QED
    BY <2>3, <1>1
<1>4. ASSUME NEW k \in DOMAIN c
      PROVE  d[k].op = c[k].op /\ (~IsComparison(c[k]) => d[k] = c[k])
  <2>1. CASE IsComparison(c[k])
    BY <2>1 DEF ConditionUnder
  <2>2. CASE ~IsComparison(c[k])
    BY <2>2 DEF ConditionUnder
  <2>3. QED
    BY <2>1, <2>2
<1> HIDE DEF d
<1>5. \A k \in DOMAIN c : IsComparison(d[k]) <=> IsComparison(c[k])
  BY <1>4 DEF IsComparison
<1>6. WellFormed(d)
  <2>1. c # << >> /\ d # << >>
    BY <1>1, <1>3 DEF WellFormed
  <2>2. ASSUME NEW k \in DOMAIN d
        PROVE  /\ d[k].op \in {"equals", "notEquals", "all", "any", "not"}
               /\ IsComparison(d[k]) \/ d[k].of \subseteq 1 .. k - 1
               /\ k < Len(d) => \E j \in DOMAIN d : ~IsComparison(d[j]) /\ k \in d[j].of
    <3>1. k \in DOMAIN c
      BY <1>1, <1>2
    <3>2. d[k].op \in {"equals", "notEquals", "all", "any", "not"}
      BY <3>1, <1>1, <1>4 DEF WellFormed
    <3>3. IsComparison(d[k]) \/ d[k].of \subseteq 1 .. k - 1
      BY <3>1, <1>1, <1>4, <1>5 DEF WellFormed
    <3>4. ASSUME k < Len(d) PROVE \E j \in DOMAIN d : ~IsComparison(d[j]) /\ k \in d[j].of
      <4>1. PICK j \in DOMAIN c : ~IsComparison(c[j]) /\ k \in c[j].of
        BY <3>1, <3>4, <1>1, <1>3 DEF WellFormed
      <4>2. QED
        BY <4>1, <1>1, <1>2, <1>4, <1>5
    <3>5. QED
      BY <3>2, <3>3, <3>4
  <2>3. QED
    BY <2>1, <2>2 DEF WellFormed
<1>7. QED
  BY <1>3, <1>6 DEF ConditionSound, d

LEMMA MappedIsSound ==
  ASSUME NEW node, node.ns \in Seq(StepId), DOMAIN node.params = DOMAIN node.text.params,
         NEW s \in AnyStep, s.kind # "uses", NEW role
  PROVE  MappedSound(Mapped(node, s, role))
<1> DEFINE t == Mapped(node, s, role)
<1>1. /\ s.id # Nil /\ s.rounds \in Nat
      /\ s.kind \in {"agent", "host-handoff", "gate", "implementation-phases", "review-cycle"}
      /\ s.retryFrom # Nil => s.kind = "agent"
      /\ s.when # Nil => s.kind = "agent" /\ ConditionSound(s.when)
  BY ExpansionAssumption DEF ExpansionAssumption, ConditionSound
<1>2. /\ DOMAIN t = PlanFields
      /\ t.kind = s.kind /\ t.id = Under(node.ns, s.id) /\ t.cycle = << >> /\ t.part = Nil
      /\ t.rounds = s.rounds /\ t.retryFrom = RetryUnder(node.ns, s)
      /\ t.origin = t.id /\ t.params = node.params /\ t.declared = node.text.params
      /\ t.when = IF s.when = Nil THEN Nil ELSE ConditionUnder(node.ns, s.when)
  BY DEF Mapped, PlanFields
<1> HIDE DEF t
<1>3. t.id # << >>
  <2>1. s.id \in StepId /\ t.id = Append(node.ns, s.id)
    BY <1>1, <1>2 DEF StepId, Under
  <2>2. QED
    BY <2>1, AppendProperties
<1>4. t.retryFrom # Nil => s.retryFrom # Nil
  BY <1>2 DEF RetryUnder, Under
<1>5. t.when # Nil => s.when # Nil /\ ConditionSound(t.when)
  BY <1>1, <1>2, ConditionUnderSound
<1>6. QED
  BY <1>1, <1>2, <1>3, <1>4, <1>5 DEF MappedSound, t

(* What a step of a workflow refers to, its own workflow has in front of it. *)
MappedBefore(node, role, k) ==
    {Mapped(node, node.text.steps[j], role) : j \in {j \in 1 .. k - 1 : node.text.steps[j].kind # "uses"}}

LEMMA MappedWrites ==
  ASSUME NEW node, NEW role, node.text \in Parsed, NEW i \in DOMAIN node.text.steps, NEW a,
         Available(node.text, i, a)
  PROVE  \E j \in 1 .. i : /\ node.text.steps[j].kind # "uses" /\ Publishes(node.text.steps[j])
                           /\ Writes(Mapped(node, node.text.steps[j], role), Under(node.ns, a))
<1> DEFINE st == node.text.steps
<1>1. st \in Seq(AnyStep) /\ i \in 1 .. Len(st) /\ Len(st) \in Nat
  BY StepsOfText, LenProperties
<1>2. PICK j \in 1 .. i : /\ Publishes(st[j]) /\ st[j].output = a
                          /\ st[j].kind = "agent" => st[j].when = Nil
  BY DEF Available
<1>3. st[j] \in AnyStep
  BY <1>1
<1>4. st[j].when = Nil
  BY <1>2, <1>3, ExpansionAssumption DEF ExpansionAssumption
<1>5. st[j].kind # "uses"
  BY <1>2 DEF Publishes
<1> DEFINE t == Mapped(node, st[j], role)
<1>6. t.kind = st[j].kind /\ t.output = Under(node.ns, a) /\ t.when = Nil
  BY <1>2, <1>4 DEF Mapped
<1> HIDE DEF t
<1>7. Writes(t, Under(node.ns, a))
  BY <1>2, <1>6 DEF Writes, Publishes
<1>8. QED
  BY <1>2, <1>5, <1>7 DEF t

LEMMA MappedRefersBack ==
  ASSUME NEW node, NEW role, node.text \in Parsed, ReferencesResolve(node.text),
         NEW k \in DOMAIN node.text.steps, node.text.steps[k].kind # "uses"
  PROVE  RefersBack(Mapped(node, node.text.steps[k], role), MappedBefore(node, role, k))
<1> DEFINE st == node.text.steps
           s == st[k]
           M(j) == Mapped(node, st[j], role)
           before == MappedBefore(node, role, k)
<1>1. st \in Seq(AnyStep) /\ k \in 1 .. Len(st) /\ Len(st) \in Nat /\ s \in AnyStep
  BY StepsOfText, LenProperties
<1>2. /\ \A a \in s.inputs : Available(node.text, k, a)
      /\ s.kind = "gate" => Available(node.text, k, s.artifact)
      /\ s.kind = "implementation-phases" =>
           \E g \in 1 .. k - 1 : st[g].kind = "gate" /\ st[g].artifact = s.artifact
      /\ s.retryFrom # Nil =>
           \E t \in 1 .. k - 1 : st[t].id = s.retryFrom /\ st[t].kind \in {"agent", "host-handoff"}
  BY DEF ReferencesResolve
<1>3. /\ M(k).kind = s.kind /\ M(k).artifact = Under(node.ns, s.artifact)
      /\ M(k).inputs = {Under(node.ns, a) : a \in s.inputs}
      /\ M(k).retryFrom = Under(node.ns, s.retryFrom)
  BY DEF Mapped, RetryUnder
<1>4. ASSUME NEW j \in 1 .. k - 1, st[j].kind # "uses"
      PROVE  /\ M(j) \in before
             /\ M(j).kind = st[j].kind /\ M(j).id = Under(node.ns, st[j].id)
             /\ M(j).artifact = Under(node.ns, st[j].artifact)
  <2>1. M(j) \in before
    BY <1>4 DEF MappedBefore
  <2>2. QED
    BY <2>1 DEF Mapped
<1> HIDE DEF M, before
<1>5. ASSUME NEW i \in 1 .. k, NEW a, Available(node.text, i, a), ~Publishes(st[i])
      PROVE  \E t \in before : Writes(t, Under(node.ns, a))
  <2>1. i \in DOMAIN st
    BY <1>1
  <2>2. PICK j \in 1 .. i : st[j].kind # "uses" /\ Publishes(st[j]) /\ Writes(M(j), Under(node.ns, a))
    BY <2>1, <1>5, MappedWrites DEF M
  <2>3. j # i
    BY <2>2, <1>5
  <2>4. j \in 1 .. k - 1
    BY <2>2, <2>3, <1>1
  <2>5. QED
    BY <2>2, <2>4, <1>4
<1>6. s.kind = "gate" => \E t \in before : Writes(t, M(k).artifact)
  <2>1. k \in 1 .. k
    BY <1>1
  <2>2. QED
    BY <2>1, <1>2, <1>3, <1>5 DEF Publishes
<1>7. ASSUME s.kind = "implementation-phases"
      PROVE  /\ \E t \in before : Writes(t, M(k).artifact)
             /\ \E t \in before : t.kind = "gate" /\ t.artifact = M(k).artifact
  <2>1. PICK g \in 1 .. k - 1 : st[g].kind = "gate" /\ st[g].artifact = s.artifact
    BY <1>2, <1>7
  <2>2. g \in 1 .. k /\ g \in DOMAIN st
    BY <1>1
  <2>3. Available(node.text, g, s.artifact)
    BY <2>1, <2>2 DEF ReferencesResolve
  <2>4. \E t \in before : Writes(t, M(k).artifact)
    BY <2>1, <2>2, <2>3, <1>3, <1>5 DEF Publishes
  <2>5. QED
    BY <2>1, <2>4, <1>3, <1>4
<1>8. ASSUME s.kind = "host-handoff", NEW b \in M(k).inputs
      PROVE  \E t \in before \cup {M(k)} : Writes(t, b)
  <2>1. PICK a \in s.inputs : b = Under(node.ns, a)
    BY <1>3
  <2>2. Available(node.text, k, a)
    BY <1>2
  <2>3. PICK j \in 1 .. k : st[j].kind # "uses" /\ Writes(M(j), b)
    BY <2>1, <2>2, MappedWrites DEF M
  <2>4. j = k \/ j \in 1 .. k - 1
    BY <1>1
  <2>5. QED
    BY <2>3, <2>4, <1>4
<1>9. ASSUME s.kind = "agent", M(k).retryFrom # Nil
      PROVE  \E t \in before : t.id = M(k).retryFrom /\ HasOutput(t)
  <2>1. s.retryFrom # Nil
    BY <1>3, <1>9 DEF Under
  <2>2. PICK j \in 1 .. k - 1 : st[j].id = s.retryFrom /\ st[j].kind \in {"agent", "host-handoff"}
    BY <2>1, <1>2
  <2>3. QED
    BY <2>2, <1>3, <1>4 DEF HasOutput
<1>10. RefersBack(M(k), before)
  BY <1>3, <1>6, <1>7, <1>8, <1>9 DEF RefersBack
<1>11. QED
  BY <1>10 DEF M, before

-----------------------------------------------------------------------------
(* The expansion *)

(* The steps a workflow that was read can become. *)
AnyMapped ==
    {Mapped(nodes[n], s, role) : n \in DOMAIN nodes, s \in {s \in AnyStep : s.kind # "uses"},
                                 role \in [Role -> Role]}

Expansion(p) == p \in Seq(AnyMapped) /\ \A i \in DOMAIN p : RefersBack(p[i], InFrontOf(p, i))

Expansions(below) ==
    \A n \in DOMAIN nodes : \A role \in [Role -> Role] : Expansion(below[n][role])

LEMMA AnyMappedSound ==
  ASSUME ReadInv, NEW s \in AnyMapped
  PROVE  MappedSound(s)
<1>1. PICK n \in DOMAIN nodes, t \in AnyStep, role \in [Role -> Role] :
        t.kind # "uses" /\ s = Mapped(nodes[n], t, role)
  BY DEF AnyMapped
<1>2. nodes[n].ns \in Seq(StepId) /\ DOMAIN nodes[n].params = DOMAIN nodes[n].text.params
  BY DEF ReadInv, NodeSound, EffectiveParametersConform
<1>3. QED
  BY <1>1, <1>2, MappedIsSound

(* A role given through a mount is a role again. *)
LEMMA ThroughRole ==
  ASSUME NEW s \in AnyStep, NEW r \in Role
  PROVE  Through(s.actors, r) \in Role
<1>1. CASE r \in DOMAIN s.actors
  <2>1. s.actors[r] \in Range(s.actors)
    BY <1>1 DEF Range
  <2>2. PICK w \in Text \ {Unreadable} : s \in ToSet(w.steps)
    BY DEF AnyStep
  <2>3. s.actors[r] \in Role
    BY <2>1, <2>2 DEF Role
  <2>4. QED
    BY <1>1, <2>3 DEF Through
<1>2. CASE r \notin DOMAIN s.actors
  BY <1>2 DEF Through
<1>3. QED
  BY <1>1, <1>2

(* One level of the expansion: where every mounted workflow is expanded, so  *)
(* is the one that mounts it.                                                *)
Parts(below, n, role) ==
    LET steps_ == nodes[n].text.steps
    IN  [k \in DOMAIN steps_ |->
           IF steps_[k].kind = "uses"
           THEN below[Append(n, steps_[k].id)][[r \in Role |-> role[Through(steps_[k].actors, r)]]]
           ELSE <<Mapped(nodes[n], steps_[k], role)>>]

LEMMA ExpandedParts ==
  ASSUME NEW below, NEW n \in DOMAIN nodes, NEW role \in [Role -> Role]
  PROVE  ExpandedOver(below)[n][role] = FlattenSeq(Parts(below, n, role))
  BY DEF ExpandedOver, Parts

LEMMA ExpansionLevel ==
  ASSUME ReadInv, agenda = << >>, NEW below, Expansions(below)
  PROVE  Expansions(ExpandedOver(below))
<1> SUFFICES ASSUME NEW n \in DOMAIN nodes, NEW role \in [Role -> Role]
             PROVE  Expansion(FlattenSeq(Parts(below, n, role)))
  BY ExpandedParts DEF Expansions
<1> DEFINE st == nodes[n].text.steps
           q == Parts(below, n, role)
           inner(k) == [r \in Role |-> role[Through(st[k].actors, r)]]
<1>1. /\ nodes[n].text \in Parsed /\ Valid(nodes[n].text) /\ nodes[n].ns = n
      /\ \A s \in ToSet(st) : s.kind = "uses" => Append(n, s.id) \in DOMAIN nodes
  <2>1. Expected(agenda) = {}
    BY DEF Expected
  <2>2. NodeSound(nodes[n], n, DOMAIN nodes)
    BY <2>1 DEF ReadInv
  <2>3. QED
    BY <2>2 DEF NodeSound
<1>2. /\ st \in Seq(AnyStep) /\ DOMAIN st = 1 .. Len(st) /\ Len(st) \in Nat
      /\ \A k \in DOMAIN st : st[k] \in AnyStep /\ st[k] \in ToSet(st)
  <2>1. st \in Seq(AnyStep)
    BY <1>1, StepsOfText
  <2>2. QED
    BY <2>1, LenProperties, ElementOfSeq DEF ToSet
<1>3. DOMAIN q = DOMAIN st
  BY DEF Parts
<1>4. ASSUME NEW k \in DOMAIN st, st[k].kind # "uses"
      PROVE  /\ q[k] = <<Mapped(nodes[n], st[k], role)>>
             /\ Mapped(nodes[n], st[k], role) \in AnyMapped
  <2>1. q[k] = <<Mapped(nodes[n], st[k], role)>>
    BY <1>4 DEF Parts
  <2>2. st[k] \in {s \in AnyStep : s.kind # "uses"}
    BY <1>2, <1>4
  <2>3. Mapped(nodes[n], st[k], role) \in AnyMapped
    BY <2>2 DEF AnyMapped
  <2>4. QED
    BY <2>1, <2>3
<1>5. ASSUME NEW k \in DOMAIN st, st[k].kind = "uses"
      PROVE  Expansion(q[k])
  <2>1. q[k] = below[Append(n, st[k].id)][inner(k)]
    BY <1>5 DEF Parts
  <2>2. inner(k) \in [Role -> Role]
    BY <1>2, ThroughRole
  <2>3. Append(n, st[k].id) \in DOMAIN nodes
    BY <1>1, <1>2, <1>5
  <2> HIDE DEF inner
  <2>4. QED
    BY <2>1, <2>2, <2>3 DEF Expansions
<1> HIDE DEF q
<1>6. ASSUME NEW k \in DOMAIN st PROVE q[k] \in Seq(AnyMapped)
  <2>1. CASE st[k].kind = "uses"
    BY <2>1, <1>5 DEF Expansion
  <2>2. CASE st[k].kind # "uses"
    <3> DEFINE e == Mapped(nodes[n], st[k], role)
    <3>1. q[k] = <<e>> /\ e \in AnyMapped
      BY <2>2, <1>4
    <3> HIDE DEF e
    <3>2. QED
      BY <3>1
  <2>3. QED
    BY <2>1, <2>2
<1>7. q \in Seq(Seq(AnyMapped))
  <2>1. q = [k \in 1 .. Len(st) |-> q[k]]
    BY <1>2, <1>3 DEF Parts, q
  <2>2. q \in [1 .. Len(st) -> Seq(AnyMapped)]
    BY <2>1, <1>2, <1>6
  <2>3. QED
    BY <2>2, <1>2
<1>8. FlattenSeq(q) \in Seq(AnyMapped)
  BY <1>7, FlattenPlaces
<1>9. ASSUME NEW i \in DOMAIN FlattenSeq(q)
      PROVE  RefersBack(FlattenSeq(q)[i], InFrontOf(FlattenSeq(q), i))
  <2> DEFINE before == InFrontOf(FlattenSeq(q), i)
  <2>1. PICK k \in DOMAIN q : \E j \in DOMAIN q[k] :
          /\ FlattenSeq(q)[i] = q[k][j]
          /\ InFrontOf(q[k], j) \subseteq before
          /\ \A l \in 1 .. k - 1 : ToSet(q[l]) \subseteq before
    BY <1>7, FlattenBefore
  <2>2. PICK j \in DOMAIN q[k] :
          /\ FlattenSeq(q)[i] = q[k][j]
          /\ InFrontOf(q[k], j) \subseteq before
          /\ \A l \in 1 .. k - 1 : ToSet(q[l]) \subseteq before
    BY <2>1
  <2> HIDE DEF before
  <2>3. CASE st[k].kind = "uses"
    <3>1. RefersBack(q[k][j], InFrontOf(q[k], j))
      BY <2>3, <1>3, <1>5 DEF Expansion
    <3>2. QED
      BY <3>1, <2>2, RefersFurther DEF before
  <2>4. CASE st[k].kind # "uses"
    <3>1. q[k] = <<Mapped(nodes[n], st[k], role)>>
      BY <2>4, <1>3, <1>4
    <3>2. j = 1 /\ q[k][j] = Mapped(nodes[n], st[k], role)
      BY <3>1
    <3>3. MappedBefore(nodes[n], role, k) \subseteq before
      <4> SUFFICES ASSUME NEW l \in 1 .. k - 1, st[l].kind # "uses"
                   PROVE  Mapped(nodes[n], st[l], role) \in before
        BY DEF MappedBefore
      <4>1. l \in DOMAIN st
        BY <1>2, <1>3
      <4>2. q[l] = <<Mapped(nodes[n], st[l], role)>>
        BY <4>1, <1>4
      <4>3. Mapped(nodes[n], st[l], role) \in ToSet(q[l])
        BY <4>2 DEF ToSet
      <4>4. QED
        BY <4>3, <2>2
    <3>4. RefersBack(Mapped(nodes[n], st[k], role), MappedBefore(nodes[n], role, k))
      <4>1. ReferencesResolve(nodes[n].text)
        BY <1>1 DEF Valid
      <4>2. QED
        BY <4>1, <1>1, <1>3, <2>4, MappedRefersBack
    <3>5. RefersBack(Mapped(nodes[n], st[k], role), before)
      BY <3>3, <3>4, RefersFurther
    <3>6. QED
      BY <3>2, <3>5, <2>2 DEF before
  <2>5. QED
    BY <2>3, <2>4
<1>10. QED
  BY <1>8, <1>9 DEF Expansion, q

(* The expansion to depth n is built from the one to depth n - 1, which      *)
(* exists for every n.                                                       *)
Nothing == [n \in DOMAIN nodes |-> [role \in [Role -> Role] |-> << >>]]
Level(f, n) == IF n = 0 THEN Nothing ELSE ExpandedOver(f[n - 1])

LEMMA LevelsExist ==
  ASSUME NEW N \in Nat
  PROVE  \E f : f = [n \in 0 .. N |-> Level(f, n)]
<1> DEFINE Exists(m) == \E f : f = [n \in 0 .. m |-> Level(f, n)]
           T == {m \in Nat : Exists(m)}
<1>1. 0 \in T
  <2> DEFINE f == [n \in 0 .. 0 |-> Nothing]
  <2>1. f = [n \in 0 .. 0 |-> Level(f, n)]
    <3>1. \A n \in 0 .. 0 : n = 0
      OBVIOUS
    <3>2. \A n \in 0 .. 0 : Level(f, n) = Nothing
      BY <3>1 DEF Level
    <3>3. QED
      BY <3>2
  <2>2. QED
    BY <2>1
<1>2. \A m \in Nat : m \in T => m + 1 \in T
  <2> SUFFICES ASSUME NEW m \in Nat, Exists(m) PROVE Exists(m + 1)
    OBVIOUS
  <2>1. PICK g : g = [n \in 0 .. m |-> Level(g, n)]
    OBVIOUS
  <2> DEFINE h == [n \in 0 .. m + 1 |-> IF n <= m THEN g[n] ELSE ExpandedOver(g[m])]
  <2>2. m \in 0 .. m + 1 /\ h[m] = g[m]
    OBVIOUS
  <2>3. ASSUME NEW n \in 0 .. m + 1 PROVE h[n] = Level(h, n)
    <3>1. CASE n <= m
      <4>1. n \in 0 .. m /\ h[n] = g[n]
        BY <3>1
      <4>2. g[n] = Level(g, n)
        BY <4>1, <2>1
      <4>3. n = 0 \/ h[n - 1] = g[n - 1]
        BY <4>1
      <4> HIDE DEF h
      <4>4. Level(g, n) = Level(h, n)
        BY <4>3 DEF Level
      <4>5. QED
        BY <4>1, <4>2, <4>4
    <3>2. CASE ~(n <= m)
      <4>1. n = m + 1 /\ n # 0 /\ n - 1 = m /\ h[n] = ExpandedOver(g[m])
        BY <3>2
      <4> HIDE DEF h
      <4>2. QED
        BY <4>1, <2>2 DEF Level
    <3>3. QED
      BY <3>1, <3>2
  <2>4. h = [n \in 0 .. m + 1 |-> h[n]]
    OBVIOUS
  <2> HIDE DEF h
  <2>5. h = [n \in 0 .. m + 1 |-> Level(h, n)]
    BY <2>3, <2>4
  <2>6. QED
    BY <2>5
<1> HIDE DEF T
<1>3. N \in T
  BY <1>1, <1>2, NatSteps
<1>4. QED
  BY <1>3 DEF T

(* What a run is started with is an expansion: every step in it refers to    *)
(* steps in front of it.                                                     *)
LEMMA FlattenedExpands ==
  ASSUME ReadInv, agenda = << >>, call = "reading"
  PROVE  Expansion(Flattened)
<1> DEFINE e == CHOOSE f : f = [n \in 0 .. MaxDepth |-> Level(f, n)]
           T == {n \in Nat : n \in 0 .. MaxDepth => Expansions(e[n])}
<1>1. MaxDepth \in Nat
  BY ExpansionAssumption DEF ExpansionAssumption
<1>2. e = [n \in 0 .. MaxDepth |-> Level(e, n)]
  BY <1>1, LevelsExist
<1>3. Flattened = e[MaxDepth][<< >>][[r \in Role |-> r]]
  BY DEF Flattened, Level, Nothing
<1> HIDE DEF e
<1>4. \A n \in 0 .. MaxDepth : e[n] = Level(e, n)
  BY <1>2
<1>5. 0 \in T
  <2>1. 0 \in 0 .. MaxDepth
    BY <1>1
  <2>2. e[0] = Nothing
    BY <2>1, <1>4 DEF Level
  <2>3. Expansion(<< >>)
    BY DEF Expansion
  <2>4. Expansions(Nothing)
    BY <2>3 DEF Expansions, Nothing
  <2>5. QED
    BY <2>2, <2>4
<1>6. \A n \in Nat : n \in T => n + 1 \in T
  <2> SUFFICES ASSUME NEW n \in Nat, n \in T, n + 1 \in 0 .. MaxDepth
               PROVE  Expansions(e[n + 1])
    OBVIOUS
  <2>1. n \in 0 .. MaxDepth /\ n + 1 # 0 /\ (n + 1) - 1 = n
    BY <1>1
  <2>2. Expansions(e[n])
    BY <2>1
  <2>3. e[n + 1] = ExpandedOver(e[n])
    BY <2>1, <1>4 DEF Level
  <2>4. QED
    BY <2>2, <2>3, ExpansionLevel
<1>7. MaxDepth \in T
  <2> HIDE DEF T
  <2> QED
    BY <1>1, <1>5, <1>6, NatSteps
<1>8. Expansions(e[MaxDepth])
  BY <1>1, <1>7
<1>9. << >> \in DOMAIN nodes
  <2>1. Expected(agenda) = {}
    BY DEF Expected
  <2>2. QED
    BY <2>1 DEF ReadInv
<1>10. [r \in Role |-> r] \in [Role -> Role]
  OBVIOUS
<1>11. QED
  BY <1>3, <1>8, <1>9, <1>10 DEF Expansions

-----------------------------------------------------------------------------
(* The cycles of an expansion, unrolled *)

GateOf(s) == [s EXCEPT !.kind = "gate", !.id = s.gate, !.artifact = s.output]

(* A step of a frozen plan. *)
PlanSound(s) ==
    /\ s.kind \in {"agent", "host-handoff", "gate", "implementation-phases"}
    /\ s.when # Nil => s.kind = "agent" /\ ConditionSound(s.when) /\ s.cycle = << >>
    /\ s.part = "review" => s.cycle # << >>
    /\ s.part # "consolidate" \/ s.cycle # << >>
    /\ DOMAIN s.params = DOMAIN s.declared
    /\ HasOutput(s) => s.origin = IF s.part = "consolidate" THEN s.cycle ELSE s.id

(* What a review-cycle leaves of itself in the plan. *)
LEMMA CycleFields ==
  ASSUME NEW s, MappedSound(s), s.kind = "review-cycle", NEW n
  PROVE  /\ /\ Authored(s).kind = "agent" /\ Authored(s).id = s.id /\ Authored(s).actor = s.actor
            /\ Authored(s).output = s.output /\ Authored(s).when = Nil /\ Authored(s).retryFrom = Nil
            /\ Authored(s).part = Nil /\ Authored(s).cycle = << >> /\ Authored(s).origin = s.id
            /\ DOMAIN Authored(s).params = DOMAIN Authored(s).declared
         /\ /\ Review(s, n).kind = "agent" /\ Review(s, n).actor = s.reviewer
            /\ Review(s, n).when = Nil /\ Review(s, n).retryFrom = Nil
            /\ Review(s, n).part = "review" /\ Review(s, n).cycle = s.id
            /\ Review(s, n).origin = Review(s, n).id
            /\ DOMAIN Review(s, n).params = DOMAIN Review(s, n).declared
         /\ /\ Consolidation(s, n).kind = "agent" /\ Consolidation(s, n).actor = s.actor
            /\ Consolidation(s, n).when = Nil /\ Consolidation(s, n).retryFrom = Nil
            /\ Consolidation(s, n).part = "consolidate" /\ Consolidation(s, n).cycle = s.id
            /\ Consolidation(s, n).origin = s.id
            /\ DOMAIN Consolidation(s, n).params = DOMAIN Consolidation(s, n).declared
         /\ /\ GateOf(s).kind = "gate" /\ GateOf(s).artifact = s.output
            /\ GateOf(s).when = Nil /\ GateOf(s).part = Nil /\ GateOf(s).cycle = << >>
            /\ DOMAIN GateOf(s).params = DOMAIN GateOf(s).declared
<1>1. /\ DOMAIN s = PlanFields /\ s.when = Nil /\ s.retryFrom = Nil /\ s.part = Nil /\ s.cycle = << >>
      /\ s.origin = s.id /\ DOMAIN s.params = DOMAIN s.declared
  BY DEF MappedSound
<1> DEFINE a == Authored(s)
<1>2. /\ DOMAIN a = PlanFields
      /\ a.kind = "agent" /\ a.id = s.id /\ a.actor = s.actor /\ a.output = s.output
      /\ a.when = Nil /\ a.retryFrom = Nil /\ a.part = Nil /\ a.cycle = << >> /\ a.origin = s.id
      /\ a.params = s.params /\ a.declared = s.declared
  BY <1>1 DEF Authored, PlanFields
<1> HIDE DEF a
<1>3. /\ Review(s, n).kind = "agent" /\ Review(s, n).actor = s.reviewer
      /\ Review(s, n).when = Nil /\ Review(s, n).retryFrom = Nil
      /\ Review(s, n).part = "review" /\ Review(s, n).cycle = s.id
      /\ Review(s, n).origin = Review(s, n).id
      /\ Review(s, n).params = s.params /\ Review(s, n).declared = s.declared
  <2> DEFINE id == Round(s, "review", n)
             r == [a EXCEPT !.id = id, !.output = id, !.file = id, !.internal = TRUE,
                            !.origin = id, !.actor = s.reviewer, !.cycle = s.id, !.part = "review"]
  <2>1. Review(s, n) = r
    BY DEF Review, a
  <2> HIDE DEF id
  <2>2. QED
    BY <2>1, <1>2 DEF PlanFields
<1>4. /\ Consolidation(s, n).kind = "agent" /\ Consolidation(s, n).actor = s.actor
      /\ Consolidation(s, n).when = Nil /\ Consolidation(s, n).retryFrom = Nil
      /\ Consolidation(s, n).part = "consolidate" /\ Consolidation(s, n).cycle = s.id
      /\ Consolidation(s, n).origin = s.id
      /\ Consolidation(s, n).params = s.params /\ Consolidation(s, n).declared = s.declared
  <2> DEFINE id == Round(s, "consolidate", n)
             r == [a EXCEPT !.id = id, !.cycle = s.id, !.part = "consolidate"]
  <2>1. Consolidation(s, n) = r
    BY DEF Consolidation, a
  <2> HIDE DEF id
  <2>2. QED
    BY <2>1, <1>2 DEF PlanFields
<1>5. /\ GateOf(s).kind = "gate" /\ GateOf(s).artifact = s.output
      /\ GateOf(s).when = Nil /\ GateOf(s).part = Nil /\ GateOf(s).cycle = << >>
      /\ GateOf(s).params = s.params /\ GateOf(s).declared = s.declared
  BY <1>1 DEF GateOf, PlanFields
<1>6. QED
  BY <1>1, <1>2, <1>3, <1>4, <1>5 DEF a

CycleRounds(s) == {Review(s, n) : n \in Nat} \cup {Consolidation(s, n) : n \in Nat}

LEMMA CyclePlaced ==
  ASSUME NEW s, MappedSound(s), s.kind = "review-cycle"
  PROVE  LET c == CycleUnrolled(s)
         IN  /\ c \in Seq({Authored(s), GateOf(s)} \cup CycleRounds(s))
             /\ 1 \in DOMAIN c /\ c[1] = Authored(s)
             /\ \A i \in DOMAIN c : \/ c[i] = Authored(s)
                                    \/ c[i] \in CycleRounds(s)
                                    \/ c[i] = GateOf(s) /\ i > 1
<1> DEFINE q == [n \in 1 .. s.rounds |->
                   <<Review(s, n)>> \o IF n < s.rounds THEN <<Consolidation(s, n)>> ELSE << >>]
           mid == FlattenSeq(q)
           S == {Authored(s), GateOf(s)} \cup CycleRounds(s)
           c == <<Authored(s)>> \o mid \o <<GateOf(s)>>
<1>1. CycleUnrolled(s) = c
  BY DEF CycleUnrolled, GateOf
<1>2. s.rounds \in Nat
  BY DEF MappedSound
<1>3. ASSUME NEW n \in 1 .. s.rounds PROVE q[n] \in Seq(CycleRounds(s))
  <2>1. n \in Nat
    BY <1>2
  <2>2. Review(s, n) \in CycleRounds(s) /\ Consolidation(s, n) \in CycleRounds(s)
    BY <2>1 DEF CycleRounds
  <2> DEFINE x == <<Review(s, n)>>
             y == IF n < s.rounds THEN <<Consolidation(s, n)>> ELSE << >>
  <2>3. x \in Seq(CycleRounds(s)) /\ y \in Seq(CycleRounds(s))
    BY <2>2
  <2>4. q[n] = x \o y
    OBVIOUS
  <2> HIDE DEF x, y
  <2>5. QED
    BY <2>3, <2>4, ConcatProperties
<1>4. q \in Seq(Seq(CycleRounds(s)))
  <2>1. q = [n \in 1 .. s.rounds |-> q[n]]
    OBVIOUS
  <2> HIDE DEF q
  <2>2. q \in [1 .. s.rounds -> Seq(CycleRounds(s))]
    BY <2>1, <1>3
  <2>3. QED
    BY <2>2, <1>2
<1> HIDE DEF q
<1>5. mid \in Seq(CycleRounds(s))
  BY <1>4, FlattenPlaces
<1> HIDE DEF mid
<1> DEFINE a == <<Authored(s)>>
           b == a \o mid
           g == <<GateOf(s)>>
<1>6. a \in Seq(S) /\ mid \in Seq(S) /\ g \in Seq(S) /\ Len(a) = 1 /\ Len(g) = 1 /\ Len(mid) \in Nat
      /\ a[1] = Authored(s) /\ g[1] = GateOf(s)
  BY <1>5
<1>7. \A i \in 1 .. Len(mid) : mid[i] \in CycleRounds(s)
  BY <1>5, ElementOfSeq
<1> HIDE DEF a, g, S
<1>8. /\ b \in Seq(S) /\ Len(b) = 1 + Len(mid)
      /\ \A i \in 1 .. 1 + Len(mid) : b[i] = IF i <= 1 THEN a[i] ELSE mid[i - 1]
  <2>1. /\ a \o mid \in Seq(S) /\ Len(a \o mid) = Len(a) + Len(mid)
        /\ \A i \in 1 .. Len(a) + Len(mid) : (a \o mid)[i] = IF i <= Len(a) THEN a[i] ELSE mid[i - Len(a)]
    BY <1>6, ConcatProperties
  <2>2. QED
    BY <2>1, <1>6
<1>9. c = b \o g
  BY DEF a, g
<1> HIDE DEF b, c
<1>10. /\ c \in Seq(S) /\ Len(c) = Len(mid) + 2
       /\ \A i \in 1 .. Len(mid) + 2 : c[i] = IF i <= 1 + Len(mid) THEN b[i] ELSE g[i - (1 + Len(mid))]
  <2>1. /\ b \o g \in Seq(S) /\ Len(b \o g) = Len(b) + Len(g)
        /\ \A i \in 1 .. Len(b) + Len(g) : (b \o g)[i] = IF i <= Len(b) THEN b[i] ELSE g[i - Len(b)]
    BY <1>6, <1>8, ConcatProperties
  <2>2. Len(b) + Len(g) = Len(mid) + 2 /\ Len(b) = 1 + Len(mid)
    BY <1>6, <1>8
  <2>3. QED
    BY <2>1, <2>2, <1>9
<1>11. DOMAIN c = 1 .. Len(mid) + 2
  BY <1>10, LenProperties
<1>12. 1 \in DOMAIN c /\ c[1] = Authored(s)
  BY <1>6, <1>8, <1>10, <1>11
<1>13. ASSUME NEW i \in DOMAIN c
       PROVE  c[i] = Authored(s) \/ c[i] \in CycleRounds(s) \/ (c[i] = GateOf(s) /\ i > 1)
  <2>1. CASE i = 1
    BY <2>1, <1>12
  <2>2. CASE i > 1 /\ i <= 1 + Len(mid)
    <3>1. i - 1 \in 1 .. Len(mid) /\ c[i] = mid[i - 1]
      BY <2>2, <1>6, <1>8, <1>10, <1>11
    <3>2. QED
      BY <3>1, <1>7
  <2>3. CASE i > 1 + Len(mid)
    <3>1. i = Len(mid) + 2 /\ i - (1 + Len(mid)) = 1
      BY <2>3, <1>6, <1>11
    <3>2. QED
      BY <3>1, <2>3, <1>6, <1>10, <1>11
  <2>4. QED
    BY <2>1, <2>2, <2>3, <1>6, <1>11
<1>14. QED
  BY <1>1, <1>10, <1>12, <1>13 DEF S

(* Who acts in a step of a cycle. *)
PartOf(e, s) ==
    /\ e.part = "review" => s.kind = "review-cycle" /\ e.cycle = s.id /\ e.actor = s.reviewer
    /\ e.part = "consolidate" =>
         s.kind = "review-cycle" /\ e.cycle = s.id /\ e.actor = s.actor /\ e.retryFrom = Nil

LEMMA UnrolledSound ==
  ASSUME NEW s, MappedSound(s), NEW e \in ToSet(CycleUnrolled(s))
  PROVE  PlanSound(e) /\ PartOf(e, s)
<1>1. /\ s.part = Nil /\ s.id # << >> /\ s.cycle = << >> /\ s.origin = s.id
      /\ DOMAIN s.params = DOMAIN s.declared
  BY DEF MappedSound
<1>2. Nil # "review" /\ Nil # "consolidate"
  BY ExpansionAssumption DEF ExpansionAssumption
<1>3. CASE s.kind # "review-cycle"
  <2>1. e = s
    BY <1>3 DEF CycleUnrolled, ToSet
  <2>2. PlanSound(s)
    BY <1>1, <1>2, <1>3 DEF MappedSound, PlanSound
  <2>3. QED
    BY <2>1, <2>2, <1>1, <1>2 DEF PartOf
<1>4. CASE s.kind = "review-cycle"
  <2>1. e = Authored(s) \/ e \in CycleRounds(s) \/ e = GateOf(s)
    <3>1. PICK i \in DOMAIN CycleUnrolled(s) : e = CycleUnrolled(s)[i]
      BY DEF ToSet
    <3>2. QED
      BY <3>1, <1>4, CyclePlaced
  <2>2. CASE e = Authored(s)
    BY <2>2, <1>1, <1>2, <1>4, CycleFields DEF PlanSound, PartOf, HasOutput
  <2>3. CASE e = GateOf(s)
    BY <2>3, <1>1, <1>2, <1>4, CycleFields DEF PlanSound, PartOf, HasOutput
  <2>4. CASE e \in CycleRounds(s)
    <3>1. PICK n \in Nat : e = Review(s, n) \/ e = Consolidation(s, n)
      BY <2>4 DEF CycleRounds
    <3>2. CASE e = Review(s, n)
      BY <3>2, <1>1, <1>2, <1>4, CycleFields DEF PlanSound, PartOf, HasOutput
    <3>3. CASE e = Consolidation(s, n)
      BY <3>3, <1>1, <1>2, <1>4, CycleFields DEF PlanSound, PartOf, HasOutput
    <3>4. QED
      BY <3>1, <3>2, <3>3
  <2>5. QED
    BY <2>1, <2>2, <2>3, <2>4
<1>5. QED
  BY <1>3, <1>4

(* What a step writes or decides is still written and decided when its cycle *)
(* is unrolled.                                                              *)
LEMMA UnrolledKeeps ==
  ASSUME NEW t, MappedSound(t)
  PROVE  /\ \A a : Writes(t, a) => \E u \in ToSet(CycleUnrolled(t)) : Writes(u, a)
         /\ t.kind # "review-cycle" => t \in ToSet(CycleUnrolled(t))
<1>1. CASE t.kind # "review-cycle"
  <2>1. t \in ToSet(CycleUnrolled(t))
    BY <1>1 DEF CycleUnrolled, ToSet
  <2>2. QED
    BY <2>1
<1>2. CASE t.kind = "review-cycle"
  <2>1. Authored(t) \in ToSet(CycleUnrolled(t))
    BY <1>2, CyclePlaced DEF ToSet
  <2>2. \A a : Writes(t, a) => Writes(Authored(t), a)
    BY <1>2, CycleFields DEF Writes, Publishes
  <2>3. QED
    BY <2>1, <2>2, <1>2
<1>3. QED
  BY <1>1, <1>2

LEMMA UnrolledRefersBack ==
  ASSUME NEW s, MappedSound(s), NEW before, RefersBack(s, before),
         \A t \in before : MappedSound(t),
         NEW i \in DOMAIN CycleUnrolled(s),
         NEW after, \A t \in before : ToSet(CycleUnrolled(t)) \subseteq after,
         InFrontOf(CycleUnrolled(s), i) \subseteq after
  PROVE  RefersBack(CycleUnrolled(s)[i], after)
<1> DEFINE e == CycleUnrolled(s)[i]
<1>1. CASE s.kind # "review-cycle"
  <2>1. e = s
    <3>1. CycleUnrolled(s) = <<s>>
      BY <1>1 DEF CycleUnrolled
    <3>2. i = 1
      BY <3>1
    <3>3. QED
      BY <3>1, <3>2
  <2>2. ASSUME NEW a, \E t \in before : Writes(t, a) PROVE \E u \in after : Writes(u, a)
    <3>1. PICK t \in before : Writes(t, a)
      BY <2>2
    <3>2. PICK u \in ToSet(CycleUnrolled(t)) : Writes(u, a)
      BY <3>1, UnrolledKeeps
    <3>3. QED
      BY <3>1, <3>2
  <2>3. \A t \in before : t.kind # "review-cycle" => t \in after
    BY UnrolledKeeps
  <2>4. s.kind \in {"gate", "implementation-phases"} => \E u \in after : Writes(u, s.artifact)
    BY <2>2 DEF RefersBack
  <2>5. ASSUME s.kind = "host-handoff", NEW a \in s.inputs
        PROVE  \E u \in after \cup {s} : Writes(u, a)
    BY <2>2, <2>5 DEF RefersBack
  <2>6. s.kind = "implementation-phases" =>
          \E t \in after : t.kind = "gate" /\ t.artifact = s.artifact
    BY <2>3 DEF RefersBack
  <2>7. s.kind = "agent" /\ s.retryFrom # Nil =>
          \E t \in after : t.id = s.retryFrom /\ HasOutput(t)
    BY <2>3 DEF RefersBack, HasOutput
  <2>8. RefersBack(s, after)
    BY <2>4, <2>5, <2>6, <2>7 DEF RefersBack
  <2>9. QED
    BY <2>1, <2>8
<1>2. CASE s.kind = "review-cycle"
  <2>1. \/ e = Authored(s) \/ e \in CycleRounds(s) \/ (e = GateOf(s) /\ i > 1)
    BY <1>2, CyclePlaced
  <2>2. ASSUME e.kind = "agent", e.retryFrom = Nil PROVE RefersBack(e, after)
    BY <2>2 DEF RefersBack
  <2>3. CASE e = Authored(s)
    BY <2>2, <2>3, <1>2, CycleFields
  <2>4. CASE e \in CycleRounds(s)
    <3>1. PICK n \in Nat : e = Review(s, n) \/ e = Consolidation(s, n)
      BY <2>4 DEF CycleRounds
    <3>2. e.kind = "agent" /\ e.retryFrom = Nil
      <4>1. CASE e = Review(s, n)
        BY <4>1, <1>2, CycleFields
      <4>2. CASE e = Consolidation(s, n)
        BY <4>2, <1>2, CycleFields
      <4>3. QED
        BY <3>1, <4>1, <4>2
    <3>3. QED
      BY <3>2, <2>2
  <2>5. CASE e = GateOf(s) /\ i > 1
    <3>1. CycleUnrolled(s)[1] = Authored(s) /\ i \in Nat
      <4>1. CycleUnrolled(s) \in Seq({Authored(s), GateOf(s)} \cup CycleRounds(s)) /\ CycleUnrolled(s)[1] = Authored(s)
        BY <1>2, CyclePlaced
      <4>2. QED
        BY <4>1, LenProperties
    <3>2. Authored(s) \in InFrontOf(CycleUnrolled(s), i)
      <4>1. 1 \in 1 .. i - 1
        BY <2>5, <3>1
      <4>2. QED
        BY <4>1, <3>1 DEF InFrontOf
    <3>3. Writes(Authored(s), s.output)
      BY <1>2, CycleFields DEF Writes, Publishes
    <3>4. e.kind = "gate" /\ e.artifact = s.output
      BY <2>5, <1>2, CycleFields
    <3>5. QED
      BY <3>2, <3>3, <3>4 DEF RefersBack
  <2>6. QED
    BY <2>1, <2>3, <2>4, <2>5
<1>3. QED
  BY <1>1, <1>2

AnyUnrolled == UNION {ToSet(CycleUnrolled(s)) : s \in AnyMapped}

LEMMA CycleIsSeq ==
  ASSUME NEW s, MappedSound(s)
  PROVE  CycleUnrolled(s) \in Seq(ToSet(CycleUnrolled(s)))
<1>1. CASE s.kind # "review-cycle"
  <2>1. CycleUnrolled(s) = <<s>> /\ ToSet(<<s>>) = {s}
    BY <1>1 DEF CycleUnrolled, ToSet
  <2>2. QED
    BY <2>1
<1>2. CASE s.kind = "review-cycle"
  <2> DEFINE c == CycleUnrolled(s)
  <2>1. c \in Seq({Authored(s), GateOf(s)} \cup CycleRounds(s))
    BY <1>2, CyclePlaced
  <2> HIDE DEF c
  <2>2. c \in Seq(ToSet(c))
    BY <2>1 DEF ToSet
  <2>3. QED
    BY <2>2 DEF c
<1>3. QED
  BY <1>1, <1>2

(* The plan an expansion is unrolled into: every step refers to steps in     *)
(* front of it, and the steps of a cycle stand for the same step of the      *)
(* expansion, whose author is in the plan.                                   *)
StepOfExpansion(e, mapped, p) ==
    \E s \in ToSet(mapped) :
        /\ MappedSound(s) /\ PartOf(e, s)
        /\ s.kind = "review-cycle" => Authored(s) \in ToSet(p)

LEMMA UnrolledPlan ==
  ASSUME ReadInv, NEW mapped, Expansion(mapped)
  PROVE  LET p == Unrolled(mapped)
         IN  /\ p \in Seq(ToSet(p))
             /\ \A i \in DOMAIN p : /\ PlanSound(p[i]) /\ RefersBack(p[i], InFrontOf(p, i))
                                    /\ StepOfExpansion(p[i], mapped, p)
<1> DEFINE q == [k \in DOMAIN mapped |-> CycleUnrolled(mapped[k])]
           p == FlattenSeq(q)
<1>1. /\ mapped \in Seq(AnyMapped) /\ DOMAIN mapped = 1 .. Len(mapped) /\ Len(mapped) \in Nat
      /\ \A k \in DOMAIN mapped : /\ mapped[k] \in AnyMapped /\ mapped[k] \in ToSet(mapped)
                                  /\ RefersBack(mapped[k], InFrontOf(mapped, k))
  BY LenProperties, ElementOfSeq DEF Expansion, ToSet
<1>2. \A k \in DOMAIN mapped : MappedSound(mapped[k])
  BY <1>1, AnyMappedSound
<1>3. ASSUME NEW k \in DOMAIN mapped
      PROVE  CycleUnrolled(mapped[k]) \in Seq(AnyUnrolled)
  <2> DEFINE c == CycleUnrolled(mapped[k])
  <2>1. c \in Seq(ToSet(c))
    BY <1>2, CycleIsSeq
  <2>2. ToSet(c) \subseteq AnyUnrolled
    BY <1>1 DEF AnyUnrolled
  <2> HIDE DEF c
  <2>3. c \in Seq(AnyUnrolled)
    BY <2>1, <2>2
  <2>4. QED
    BY <2>3 DEF c
<1>4. q \in Seq(Seq(AnyUnrolled))
  <2>1. q = [k \in 1 .. Len(mapped) |-> CycleUnrolled(mapped[k])]
    BY <1>1
  <2>2. q \in [1 .. Len(mapped) -> Seq(AnyUnrolled)]
    BY <2>1, <1>1, <1>3
  <2> HIDE DEF q
  <2>3. QED
    BY <2>2, <1>1
<1>5. DOMAIN q = DOMAIN mapped /\ \A k \in DOMAIN mapped : q[k] = CycleUnrolled(mapped[k])
  OBVIOUS
<1>6. Unrolled(mapped) = p
  BY DEF Unrolled
<1> HIDE DEF q
<1>7. p \in Seq(AnyUnrolled) /\ \E o : Placed(q, p, o)
  BY <1>4, FlattenPlaces
<1>8. p \in Seq(ToSet(p))
  <2> HIDE DEF p
  <2>1. QED
    BY <1>7 DEF ToSet
<1>9. ASSUME NEW k \in DOMAIN mapped PROVE ToSet(CycleUnrolled(mapped[k])) \subseteq ToSet(p)
  <2>1. PICK o : Placed(q, p, o)
    BY <1>7
  <2> HIDE DEF p
  <2>2. ASSUME NEW j \in DOMAIN q[k] PROVE q[k][j] \in ToSet(p)
    <3>1. o[k] + j \in DOMAIN p /\ p[o[k] + j] = q[k][j]
      BY <2>1, <1>5 DEF Placed
    <3>2. QED
      BY <3>1 DEF ToSet
  <2>3. QED
    BY <2>2, <1>5 DEF ToSet
<1>10. ASSUME NEW i \in DOMAIN p
       PROVE  /\ PlanSound(p[i]) /\ RefersBack(p[i], InFrontOf(p, i))
              /\ StepOfExpansion(p[i], mapped, p)
  <2> DEFINE after == InFrontOf(p, i)
  <2>1. PICK k \in DOMAIN q : \E j \in DOMAIN q[k] :
          /\ p[i] = q[k][j]
          /\ InFrontOf(q[k], j) \subseteq after
          /\ \A l \in 1 .. k - 1 : ToSet(q[l]) \subseteq after
    BY <1>4, FlattenBefore
  <2>2. PICK j \in DOMAIN q[k] :
          /\ p[i] = q[k][j]
          /\ InFrontOf(q[k], j) \subseteq after
          /\ \A l \in 1 .. k - 1 : ToSet(q[l]) \subseteq after
    BY <2>1
  <2> HIDE DEF after, p
  <2> DEFINE s == mapped[k]
             before == InFrontOf(mapped, k)
  <2>3. /\ s \in ToSet(mapped) /\ MappedSound(s) /\ q[k] = CycleUnrolled(s)
        /\ RefersBack(s, before)
    BY <1>1, <1>2, <1>5
  <2>4. ASSUME NEW t \in before
        PROVE  MappedSound(t) /\ ToSet(CycleUnrolled(t)) \subseteq after
    <3>1. PICK l \in 1 .. k - 1 : t = mapped[l]
      BY DEF InFrontOf
    <3>2. l \in DOMAIN mapped
      BY <1>1, <1>5
    <3>3. QED
      BY <3>1, <3>2, <1>2, <1>5, <2>2
  <2>5. p[i] = CycleUnrolled(s)[j] /\ j \in DOMAIN CycleUnrolled(s) /\ p[i] \in ToSet(CycleUnrolled(s))
    BY <2>2, <2>3 DEF ToSet
  <2>6. InFrontOf(CycleUnrolled(s), j) \subseteq after
    BY <2>2, <2>3
  <2> HIDE DEF s, before
  <2>7. RefersBack(p[i], after)
    BY <2>3, <2>4, <2>5, <2>6, UnrolledRefersBack
  <2>8. PlanSound(p[i]) /\ PartOf(p[i], s)
    BY <2>3, <2>5, UnrolledSound
  <2>9. ASSUME s.kind = "review-cycle" PROVE Authored(s) \in ToSet(p)
    <3>1. Authored(s) \in ToSet(CycleUnrolled(s))
      BY <2>3, <2>9, CyclePlaced DEF ToSet
    <3>2. QED
      BY <3>1, <1>5, <1>9 DEF s
  <2>10. StepOfExpansion(p[i], mapped, p)
    BY <2>3, <2>8, <2>9 DEF StepOfExpansion
  <2>11. QED
    BY <2>7, <2>8, <2>10 DEF after
<1>11. QED
  BY <1>6, <1>8, <1>10

-----------------------------------------------------------------------------
(* The frozen plan *)

ReviewersApart(p) ==
    \A i, j \in DOMAIN p :
        /\ p[i].part = "review"
        /\ \/ p[j].id = p[i].cycle
           \/ p[j].cycle = p[i].cycle /\ p[j].part = "consolidate"
        => p[i].actor # p[j].actor

(* A step that may be retried alone writes its artifact. *)
PoliciesAlone(p) ==
    \A i, j \in DOMAIN p :
        /\ HasOutput(p[i]) /\ p[i].retryFrom # Nil
        /\ HasOutput(p[j]) /\ p[j].output = p[i].output
        => i = j

PlanOK(p, profiles) ==
    /\ p \in Seq(ToSet(p))
    /\ \A i \in DOMAIN p : /\ PlanSound(p[i]) /\ RefersBack(p[i], InFrontOf(p, i))
                           /\ RolesOf(p[i]) \subseteq profiles
    /\ NoCollision(p) /\ ConditionsSound(p) /\ DestinationsDiffer(p)
    /\ ReviewersApart(p) /\ PoliciesAlone(p)

PlanInv == PlanOK(plan, bound) /\ (call # "frozen" => plan = << >>)

(* In one plan no two steps are the author of the same cycle, and the mapped *)
(* roles of a cycle differ.                                                  *)
LEMMA ReviewersDiffer ==
  ASSUME NEW mapped, NEW p, NoCollision(p), CycleActorsDiffer(mapped),
         \A i \in DOMAIN p : StepOfExpansion(p[i], mapped, p)
  PROVE  ReviewersApart(p)
<1> SUFFICES ASSUME NEW i \in DOMAIN p, NEW j \in DOMAIN p, p[i].part = "review",
                    \/ p[j].id = p[i].cycle
                    \/ p[j].cycle = p[i].cycle /\ p[j].part = "consolidate"
             PROVE  p[i].actor # p[j].actor
  BY DEF ReviewersApart
<1>1. PICK s \in ToSet(mapped) : /\ MappedSound(s) /\ PartOf(p[i], s)
                                 /\ s.kind = "review-cycle" => Authored(s) \in ToSet(p)
  BY DEF StepOfExpansion
<1>2. s.kind = "review-cycle" /\ p[i].cycle = s.id /\ p[i].actor = s.reviewer
  BY <1>1 DEF PartOf
<1>3. s.actor # s.reviewer
  BY <1>2 DEF CycleActorsDiffer
<1>4. PICK a \in DOMAIN p : p[a] = Authored(s)
  BY <1>1, <1>2 DEF ToSet
<1>5. p[a].id = s.id /\ p[a].actor = s.actor
  BY <1>1, <1>2, <1>4, CycleFields
<1>6. CASE p[j].id = p[i].cycle
  <2>1. j = a
    BY <1>2, <1>5, <1>6 DEF NoCollision
  <2>2. QED
    BY <2>1, <1>2, <1>3, <1>5
<1>7. CASE p[j].cycle = p[i].cycle /\ p[j].part = "consolidate"
  <2>1. PICK t \in ToSet(mapped) : /\ MappedSound(t) /\ PartOf(p[j], t)
                                   /\ t.kind = "review-cycle" => Authored(t) \in ToSet(p)
    BY DEF StepOfExpansion
  <2>2. t.kind = "review-cycle" /\ p[j].cycle = t.id /\ p[j].actor = t.actor
    BY <2>1, <1>7 DEF PartOf
  <2>3. PICK b \in DOMAIN p : p[b] = Authored(t)
    BY <2>1, <2>2 DEF ToSet
  <2>4. p[b].id = t.id /\ p[b].actor = t.actor
    BY <2>1, <2>2, <2>3, CycleFields
  <2>5. a = b
    BY <2>2, <2>4, <1>2, <1>5, <1>7 DEF NoCollision
  <2>6. QED
    BY <2>2, <2>4, <2>5, <1>2, <1>3, <1>5
<1>8. QED
  BY <1>6, <1>7

LEMMA PoliciesWriteAlone ==
  ASSUME NEW mapped, NEW p, NoCollision(p),
         \A i \in DOMAIN p : PlanSound(p[i]) /\ StepOfExpansion(p[i], mapped, p)
  PROVE  PoliciesAlone(p)
<1> SUFFICES ASSUME NEW i \in DOMAIN p, NEW j \in DOMAIN p, HasOutput(p[i]), p[i].retryFrom # Nil,
                    HasOutput(p[j]), p[j].output = p[i].output, i # j
             PROVE  FALSE
  BY DEF PoliciesAlone
<1>1. p[i].id # p[j].id /\ p[i].origin = p[j].origin
  BY DEF NoCollision
<1>2. p[i].part # "consolidate" /\ p[i].origin = p[i].id
  <2>1. PICK s \in ToSet(mapped) : MappedSound(s) /\ PartOf(p[i], s)
    BY DEF StepOfExpansion
  <2>2. p[i].part # "consolidate"
    BY <2>1 DEF PartOf
  <2>3. QED
    BY <2>2 DEF PlanSound
<1>3. p[j].part = "consolidate" /\ p[j].cycle = p[i].id
  BY <1>1, <1>2 DEF PlanSound
<1>4. PICK t \in ToSet(mapped) : /\ MappedSound(t) /\ PartOf(p[j], t)
                                 /\ t.kind = "review-cycle" => Authored(t) \in ToSet(p)
  BY DEF StepOfExpansion
<1>5. t.kind = "review-cycle" /\ p[j].cycle = t.id
  BY <1>3, <1>4 DEF PartOf
<1>6. PICK b \in DOMAIN p : p[b] = Authored(t)
  BY <1>4, <1>5 DEF ToSet
<1>7. p[b].id = t.id /\ p[b].retryFrom = Nil
  BY <1>4, <1>5, <1>6, CycleFields
<1>8. b = i
  BY <1>3, <1>5, <1>7 DEF NoCollision
<1>9. QED
  BY <1>7, <1>8

LEMMA AcceptedPlan ==
  ASSUME ReadInv, agenda = << >>, call = "reading", Acceptable(Flattened, Unrolled(Flattened))
  PROVE  PlanOK(Unrolled(Flattened), bound)
<1> DEFINE mapped == Flattened
           p == Unrolled(mapped)
<1>1. Expansion(mapped)
  BY FlattenedExpands
<1> HIDE DEF mapped
<1>2. /\ p \in Seq(ToSet(p))
      /\ \A i \in DOMAIN p : /\ PlanSound(p[i]) /\ RefersBack(p[i], InFrontOf(p, i))
                             /\ StepOfExpansion(p[i], mapped, p)
  BY <1>1, UnrolledPlan
<1> HIDE DEF p
<1>3. /\ CycleActorsDiffer(mapped) /\ NoCollision(p) /\ ConditionsSound(p)
      /\ DestinationsDiffer(p) /\ Actors(p) = bound
  BY DEF Acceptable, p, mapped
<1>4. ReviewersApart(p)
  BY <1>2, <1>3, ReviewersDiffer
<1>5. \A i \in DOMAIN p : RolesOf(p[i]) \subseteq bound
  BY <1>3 DEF Actors
<1>6. PoliciesAlone(p)
  BY <1>2, <1>3, PoliciesWriteAlone
<1>8. PlanOK(p, bound)
  BY <1>2, <1>3, <1>4, <1>5, <1>6 DEF PlanOK
<1>9. QED
  BY <1>8 DEF p, mapped

LEMMA EmptyPlan ==
  ASSUME NEW profiles
  PROVE  PlanOK(<< >>, profiles)
  BY DEF PlanOK, NoCollision, ConditionsSound, DestinationsDiffer, ReviewersApart, PoliciesAlone, ToSet

LEMMA FreezePlans ==
  ASSUME ReadInv, PlanInv, Freeze
  PROVE  PlanInv'
<1>1. call = "reading" /\ agenda = << >> /\ plan = << >>
  BY DEF Freeze, PlanInv
<1>2. CASE Refuses
  <2>1. plan' = << >> /\ call' = "none"
    BY <1>1, <1>2 DEF Refuses
  <2>2. QED
    BY <2>1, EmptyPlan DEF PlanInv
<1>3. CASE ~Refuses
  <2>1. /\ Acceptable(Flattened, Unrolled(Flattened)) /\ plan' = Unrolled(Flattened)
        /\ call' = "frozen" /\ bound' = bound
    BY <1>3 DEF Freeze
  <2>2. PlanOK(plan', bound')
    BY <1>1, <2>1, AcceptedPlan
  <2>3. QED
    BY <2>1, <2>2 DEF PlanInv
<1>4. QED
  BY <1>2, <1>3

LEMMA PlanStep == ReadInv /\ PlanInv /\ [RunNext]_runVars => PlanInv'
<1> SUFFICES ASSUME ReadInv, PlanInv, [RunNext]_runVars PROVE PlanInv'
  OBVIOUS
<1>1. CASE Creates
  BY <1>1, FreezePlans DEF Creates
<1>2. CASE StartBegins \/ Read
  <2>1. call # "frozen" /\ plan' = plan /\ call' # "frozen"
    BY <1>2 DEF StartBegins, Read, Refuses
  <2>2. plan' = << >>
    BY <2>1 DEF PlanInv
  <2>3. QED
    BY <2>1, <2>2, EmptyPlan DEF PlanInv
<1>3. CASE RunStep \/ NextStops \/ EditStep \/ UNCHANGED runVars
  <2>1. UNCHANGED <<call, bound, plan>>
    BY <1>3, RunStepIsOfRun DEF EditStep, Edit, NextStops, runVars, startVars
  <2>2. QED
    BY <2>1 DEF PlanInv
<1>4. QED
  BY <1>1, <1>2, <1>3 DEF RunNext, StartStep

LEMMA PlanInit == RunInit => PlanInv
<1> SUFFICES ASSUME RunInit PROVE PlanInv
  OBVIOUS
<1>1. plan = << >>
  BY DEF RunInit, ExpansionInit
<1>2. QED
  BY <1>1, EmptyPlan DEF PlanInv

LEMMA PlanInvariant == RunSpec => []PlanInv
<1>1. RunInit => PlanInv
  BY PlanInit
<1>2. ReadInv /\ PlanInv /\ [RunNext]_runVars => PlanInv'
  BY PlanStep
<1>3. QED
  BY <1>1, <1>2, ReadInvariant, PTL DEF RunSpec

(* In no frozen cycle is the reviewer the actor of the author or of a        *)
(* consolidation, whatever the mounts map roles to                           *)
(* (WorkflowExpanderService.flatten).                                        *)
THEOREM ReviewersAreNotAuthors == RunSpec => []CycleReviewerIsNotAuthor
<1>1. PlanInv => CycleReviewerIsNotAuthor
  BY DEF PlanInv, PlanOK, ReviewersApart, CycleReviewerIsNotAuthor
<1>2. QED
  BY <1>1, PlanInvariant, PTL

(* What OperandType finds a type for is known. *)
LEMMA OperandIsKnown ==
  ASSUME NEW i \in DOMAIN plan, NEW o, OperandType(plan, i, o) # Nil,
         DOMAIN plan[i].params = DOMAIN plan[i].declared,
         o.kind \in {"parameter", "result"}
  PROVE  /\ o.kind = "parameter" => o.name \in DOMAIN plan[i].params
         /\ o.kind = "result" =>
              \E j \in 1 .. i - 1 : /\ plan[j].kind = "agent" /\ plan[j].id = o.step
                                    /\ o.name \in DOMAIN plan[j].result
<1> DEFINE sources == {j \in 1 .. i - 1 : /\ plan[j].kind = "agent" /\ plan[j].id = o.step
                                          /\ o.name \in DOMAIN plan[j].result}
<1>1. CASE o.kind = "parameter"
  BY <1>1 DEF OperandType
<1>2. CASE o.kind = "result"
  <2>1. OperandType(plan, i, o) =
          IF sources = {} THEN Nil ELSE plan[CHOOSE j \in sources : TRUE].result[o.name].type
    BY <1>2 DEF OperandType
  <2>2. sources # {}
    BY <2>1
  <2>3. QED
    BY <2>2, <1>2
<1>3. QED
  BY <1>1, <1>2

LEMMA PlanAsksWhatIsKnown == PlanInv => ConditionsAskWhatIsKnown
<1> SUFFICES ASSUME PlanInv, NEW i \in DOMAIN plan, plan[i].when # Nil
             PROVE  /\ plan[i].kind = "agent" /\ plan[i].cycle = << >>
                    /\ \A c \in Comparisons(plan[i].when) :
                         /\ OperandType(plan, i, c.left) = OperandType(plan, i, c.right)
                         /\ \A o \in {c.left, c.right} :
                              /\ o.kind = "parameter" => o.name \in DOMAIN plan[i].params
                              /\ o.kind = "result" =>
                                   \E j \in 1 .. i - 1 : /\ plan[j].kind = "agent" /\ plan[j].id = o.step
                                                         /\ o.name \in DOMAIN plan[j].result
  BY DEF ConditionsAskWhatIsKnown
<1>1. /\ plan[i].kind = "agent" /\ plan[i].cycle = << >>
      /\ DOMAIN plan[i].params = DOMAIN plan[i].declared
  BY DEF PlanInv, PlanOK, PlanSound
<1>2. ASSUME NEW c \in Comparisons(plan[i].when)
      PROVE  /\ OperandType(plan, i, c.left) = OperandType(plan, i, c.right)
             /\ OperandType(plan, i, c.left) # Nil
  BY <1>1 DEF PlanInv, PlanOK, ConditionsSound
<1>3. ASSUME NEW c \in Comparisons(plan[i].when), NEW o \in {c.left, c.right}
      PROVE  /\ o.kind = "parameter" => o.name \in DOMAIN plan[i].params
             /\ o.kind = "result" =>
                  \E j \in 1 .. i - 1 : /\ plan[j].kind = "agent" /\ plan[j].id = o.step
                                        /\ o.name \in DOMAIN plan[j].result
  <2>1. OperandType(plan, i, o) # Nil
    BY <1>2
  <2>2. CASE o.kind \in {"parameter", "result"}
    BY <2>1, <2>2, <1>1, OperandIsKnown
  <2>3. QED
    BY <2>2
<1>4. QED
  BY <1>1, <1>2, <1>3

LEMMA PlanRuns == PlanInv => FrozenPlanIsRunnable
<1> SUFFICES ASSUME PlanInv, NEW i \in DOMAIN plan
             PROVE  LET s == plan[i]
                        Written(j, a) == HasOutput(plan[j]) /\ plan[j].output = a /\ plan[j].when = Nil
                    IN  /\ \A j \in DOMAIN plan :
                             /\ i # j => plan[j].id # s.id
                             /\ HasOutput(s) /\ HasOutput(plan[j]) /\ plan[j].output # s.output
                                => <<plan[j].internal, plan[j].file>> # <<s.internal, s.file>>
                             /\ /\ s.kind = "agent" /\ s.retryFrom # Nil
                                /\ HasOutput(plan[j]) /\ plan[j].output = s.output
                                => i = j
                        /\ s.kind \in {"gate", "implementation-phases"} =>
                             \E j \in 1 .. i - 1 : Written(j, s.artifact)
                        /\ s.kind = "host-handoff" => \A a \in s.inputs : \E j \in 1 .. i : Written(j, a)
                        /\ s.kind = "implementation-phases" =>
                             \E g \in 1 .. i - 1 : plan[g].kind = "gate" /\ plan[g].artifact = s.artifact
                        /\ s.kind = "agent" /\ s.retryFrom # Nil =>
                             \E j \in 1 .. i - 1 : plan[j].id = s.retryFrom /\ HasOutput(plan[j])
                        /\ s.kind # "gate" => s.actor \in bound \cup {Nil}
                        /\ s.kind = "implementation-phases" => s.reviewer \in bound \cup {Nil}
  BY PlanAsksWhatIsKnown DEF FrozenPlanIsRunnable
<1> DEFINE s == plan[i]
           Written(j, a) == HasOutput(plan[j]) /\ plan[j].output = a /\ plan[j].when = Nil
<1>1. /\ plan \in Seq(ToSet(plan)) /\ DOMAIN plan = 1 .. Len(plan) /\ Len(plan) \in Nat
      /\ \A j \in DOMAIN plan : PlanSound(plan[j])
      /\ RefersBack(s, InFrontOf(plan, i)) /\ RolesOf(s) \subseteq bound
      /\ NoCollision(plan) /\ DestinationsDiffer(plan) /\ PoliciesAlone(plan)
  BY LenProperties DEF PlanInv, PlanOK
<1>2. \A j \in 1 .. i : j \in DOMAIN plan
  BY <1>1
<1>3. ASSUME NEW j \in DOMAIN plan, NEW a, Writes(plan[j], a) PROVE Written(j, a)
  <2>1. PlanSound(plan[j])
    BY <1>1
  <2>2. QED
    BY <2>1, <1>3 DEF PlanSound, Writes, Publishes, HasOutput
<1>4. ASSUME NEW j \in DOMAIN plan
      PROVE  /\ i # j => plan[j].id # s.id
             /\ HasOutput(s) /\ HasOutput(plan[j]) /\ plan[j].output # s.output
                => <<plan[j].internal, plan[j].file>> # <<s.internal, s.file>>
             /\ /\ s.kind = "agent" /\ s.retryFrom # Nil
                /\ HasOutput(plan[j]) /\ plan[j].output = s.output
                => i = j
  BY <1>1 DEF NoCollision, DestinationsDiffer, PoliciesAlone, HasOutput
<1>5. \A t \in InFrontOf(plan, i) : \E j \in 1 .. i - 1 : t = plan[j] /\ j \in DOMAIN plan
  BY <1>1 DEF InFrontOf
<1> HIDE DEF Written
<1>6. s.kind \in {"gate", "implementation-phases"} => \E j \in 1 .. i - 1 : Written(j, s.artifact)
  BY <1>1, <1>3, <1>5 DEF RefersBack
<1>7. ASSUME s.kind = "host-handoff", NEW a \in s.inputs PROVE \E j \in 1 .. i : Written(j, a)
  <2>1. PICK t \in InFrontOf(plan, i) \cup {s} : Writes(t, a)
    BY <1>1, <1>7 DEF RefersBack
  <2>2. CASE t = s
    <3>1. i \in 1 .. i
      BY <1>1
    <3>2. QED
      BY <2>1, <2>2, <3>1, <1>3
  <2>3. CASE t \in InFrontOf(plan, i)
    <3>1. PICK j \in 1 .. i - 1 : t = plan[j] /\ j \in DOMAIN plan
      BY <2>3, <1>5
    <3>2. j \in 1 .. i
      BY <1>1
    <3>3. QED
      BY <2>1, <3>1, <3>2, <1>3
  <2>4. QED
    BY <2>1, <2>2, <2>3
<1>8. s.kind = "implementation-phases" =>
        \E g \in 1 .. i - 1 : plan[g].kind = "gate" /\ plan[g].artifact = s.artifact
  BY <1>1, <1>5 DEF RefersBack
<1>9. s.kind = "agent" /\ s.retryFrom # Nil =>
        \E j \in 1 .. i - 1 : plan[j].id = s.retryFrom /\ HasOutput(plan[j])
  BY <1>1, <1>5 DEF RefersBack
<1>10. /\ s.kind # "gate" => s.actor \in bound \cup {Nil}
       /\ s.kind = "implementation-phases" => s.reviewer \in bound \cup {Nil}
  BY <1>1 DEF RolesOf
<1>11. QED
  BY <1>4, <1>6, <1>7, <1>8, <1>9, <1>10 DEF Written

(* What the runner, the gates, the handoffs, the materializer and advance    *)
(* rely on, of every plan that was ever frozen, for all workflow files and   *)
(* whatever is edited while they are read.                                   *)
THEOREM FrozenPlansAreRunnable == RunSpec => []FrozenPlanIsRunnable
<1>1. PlanInv => FrozenPlanIsRunnable
  BY PlanRuns
<1>2. QED
  BY <1>1, PlanInvariant, PTL

-----------------------------------------------------------------------------
(* The evaluation of a condition *)

(* The node k of condition c of step i, its parts evaluated by f. *)
TruthAt(i, c, f, k) ==
    /\ c[k].op = "equals" => Operand(i, c[k].left) = Operand(i, c[k].right)
    /\ c[k].op = "notEquals" => Operand(i, c[k].left) # Operand(i, c[k].right)
    /\ c[k].op = "all" => \A j \in c[k].of : f[j]
    /\ c[k].op = "any" => \E j \in c[k].of : f[j]
    /\ c[k].op = "not" => \A j \in c[k].of : ~f[j]

ValueAt(i, c, f, k) ==
    IF IsComparison(c[k])
    THEN LET l == Operand(i, c[k].left)  r == Operand(i, c[k].right)
         IN  [unresolved |-> Nil \in {l, r},
              value |-> Nil \notin {l, r} /\ (l = r) = (c[k].op = "equals")]
    ELSE LET parts == {f[j] : j \in c[k].of}
             unresolved == \E e \in parts : e.unresolved
         IN  [unresolved |-> unresolved,
              value |-> /\ ~unresolved
                        /\ CASE c[k].op = "all" -> \A e \in parts : e.value
                             [] c[k].op = "any" -> \E e \in parts : e.value
                             [] c[k].op = "not" -> \A e \in parts : ~e.value]

(* A node looks at its parts alone, which stand in front of it. *)
LEMMA TruthLocal ==
  ASSUME NEW i, NEW c, ConditionSound(c), NEW k \in DOMAIN c, NEW f, NEW g,
         \A j \in 1 .. k - 1 : f[j] = g[j]
  PROVE  TruthAt(i, c, f, k) = TruthAt(i, c, g, k)
<1>1. c[k].op \in {"equals", "notEquals", "all", "any", "not"}
      /\ (IsComparison(c[k]) \/ c[k].of \subseteq 1 .. k - 1)
  BY DEF ConditionSound, WellFormed
<1>2. CASE IsComparison(c[k])
  BY <1>2 DEF TruthAt, IsComparison
<1>3. CASE c[k].of \subseteq 1 .. k - 1
  <2>1. \A j \in c[k].of : f[j] = g[j]
    BY <1>3
  <2>2. CASE c[k].op = "all"
    BY <2>1, <2>2 DEF TruthAt
  <2>3. CASE c[k].op = "any"
    BY <2>1, <2>3 DEF TruthAt
  <2>4. CASE c[k].op = "not"
    BY <2>1, <2>4 DEF TruthAt
  <2>5. CASE c[k].op \in {"equals", "notEquals"}
    BY <2>5 DEF TruthAt
  <2>6. QED
    BY <1>1, <2>2, <2>3, <2>4, <2>5
<1>4. QED
  BY <1>1, <1>2, <1>3

LEMMA ValueLocal ==
  ASSUME NEW i, NEW c, ConditionSound(c), NEW k \in DOMAIN c, NEW f, NEW g,
         \A j \in 1 .. k - 1 : f[j] = g[j]
  PROVE  ValueAt(i, c, f, k) = ValueAt(i, c, g, k)
<1>1. IsComparison(c[k]) \/ c[k].of \subseteq 1 .. k - 1
  BY DEF ConditionSound, WellFormed
<1>2. CASE IsComparison(c[k])
  BY <1>2 DEF ValueAt
<1>3. CASE ~IsComparison(c[k])
  <2>1. \A j \in c[k].of : f[j] = g[j]
    BY <1>1, <1>3
  <2>2. {f[j] : j \in c[k].of} = {g[j] : j \in c[k].of}
    BY <2>1
  <2>3. QED
    BY <2>2, <1>3 DEF ValueAt
<1>4. QED
  BY <1>2, <1>3

LEMMA TruthExists ==
  ASSUME NEW i, NEW c, ConditionSound(c)
  PROVE  \E f : f = [k \in DOMAIN c |-> TruthAt(i, c, f, k)]
<1> DEFINE Exists(m) == \E f : f = [k \in 1 .. m |-> TruthAt(i, c, f, k)]
           T == {m \in Nat : m <= Len(c) => Exists(m)}
<1>1. DOMAIN c = 1 .. Len(c) /\ Len(c) \in Nat
  BY LenProperties DEF ConditionSound
<1>2. 0 \in T
  <2>1. [k \in 1 .. 0 |-> 0] = [k \in 1 .. 0 |-> TruthAt(i, c, [x \in 1 .. 0 |-> 0], k)]
    OBVIOUS
  <2>2. Exists(0)
    BY <2>1
  <2> HIDE DEF Exists
  <2>3. QED
    BY <2>2
<1>3. \A m \in Nat : m \in T => m + 1 \in T
  <2> SUFFICES ASSUME NEW m \in Nat, Exists(m), m + 1 <= Len(c) PROVE Exists(m + 1)
    <3> HIDE DEF Exists
    <3> QED
      BY <1>1
  <2>1. PICK g : g = [k \in 1 .. m |-> TruthAt(i, c, g, k)]
    OBVIOUS
  <2> DEFINE h == [k \in 1 .. m + 1 |-> TruthAt(i, c, g, k)]
  <2>2. \A k \in 1 .. m : h[k] = g[k]
    <3>1. \A k \in 1 .. m : g[k] = TruthAt(i, c, g, k)
      BY <2>1
    <3>2. QED
      BY <3>1
  <2>3. ASSUME NEW k \in 1 .. m + 1 PROVE h[k] = TruthAt(i, c, h, k)
    <3>1. h[k] = TruthAt(i, c, g, k)
      OBVIOUS
    <3> HIDE DEF h
    <3>2. k \in DOMAIN c /\ \A j \in 1 .. k - 1 : g[j] = h[j]
      BY <1>1, <2>2
    <3>3. QED
      BY <3>1, <3>2, TruthLocal
  <2>4. h = [k \in 1 .. m + 1 |-> h[k]]
    OBVIOUS
  <2> HIDE DEF h
  <2>5. h = [k \in 1 .. m + 1 |-> TruthAt(i, c, h, k)]
    BY <2>3, <2>4
  <2>6. QED
    BY <2>5
<1>4. Len(c) \in T
  <2> HIDE DEF T
  <2>1. QED
    BY <1>1, <1>2, <1>3, NatSteps
<1>5. QED
  BY <1>1, <1>4

LEMMA ValueExists ==
  ASSUME NEW i, NEW c, ConditionSound(c)
  PROVE  \E f : f = [k \in DOMAIN c |-> ValueAt(i, c, f, k)]
<1> DEFINE Exists(m) == \E f : f = [k \in 1 .. m |-> ValueAt(i, c, f, k)]
           T == {m \in Nat : m <= Len(c) => Exists(m)}
<1>1. DOMAIN c = 1 .. Len(c) /\ Len(c) \in Nat
  BY LenProperties DEF ConditionSound
<1>2. 0 \in T
  <2>1. [k \in 1 .. 0 |-> 0] = [k \in 1 .. 0 |-> ValueAt(i, c, [x \in 1 .. 0 |-> 0], k)]
    OBVIOUS
  <2>2. Exists(0)
    BY <2>1
  <2> HIDE DEF Exists
  <2>3. QED
    BY <2>2
<1>3. \A m \in Nat : m \in T => m + 1 \in T
  <2> SUFFICES ASSUME NEW m \in Nat, Exists(m), m + 1 <= Len(c) PROVE Exists(m + 1)
    <3> HIDE DEF Exists
    <3> QED
      BY <1>1
  <2>1. PICK g : g = [k \in 1 .. m |-> ValueAt(i, c, g, k)]
    OBVIOUS
  <2> DEFINE h == [k \in 1 .. m + 1 |-> ValueAt(i, c, g, k)]
  <2>2. \A k \in 1 .. m : h[k] = g[k]
    <3>1. \A k \in 1 .. m : g[k] = ValueAt(i, c, g, k)
      BY <2>1
    <3>2. QED
      BY <3>1
  <2>3. ASSUME NEW k \in 1 .. m + 1 PROVE h[k] = ValueAt(i, c, h, k)
    <3>1. h[k] = ValueAt(i, c, g, k)
      OBVIOUS
    <3> HIDE DEF h
    <3>2. k \in DOMAIN c /\ \A j \in 1 .. k - 1 : g[j] = h[j]
      BY <1>1, <2>2
    <3>3. QED
      BY <3>1, <3>2, ValueLocal
  <2>4. h = [k \in 1 .. m + 1 |-> h[k]]
    OBVIOUS
  <2> HIDE DEF h
  <2>5. h = [k \in 1 .. m + 1 |-> ValueAt(i, c, h, k)]
    BY <2>3, <2>4
  <2>6. QED
    BY <2>5
<1>4. Len(c) \in T
  <2> HIDE DEF T
  <2>1. QED
    BY <1>1, <1>2, <1>3, NatSteps
<1>5. QED
  BY <1>1, <1>4

(* The value of one node: nothing without value is true, what every operand  *)
(* below was answered for has a value, and that value is the truth.          *)
NodeMeans(e, t, allAnswered) ==
    /\ e.unresolved \in BOOLEAN /\ e.value \in BOOLEAN /\ t \in BOOLEAN
    /\ e.value => ~e.unresolved
    /\ ~e.unresolved => (e.value <=> t)
    /\ allAnswered => ~e.unresolved

AllAnswered(i, c) ==
    \A n \in Comparisons(c) : Operand(i, n.left) # Nil /\ Operand(i, n.right) # Nil

LEMMA NodeOfParts ==
  ASSUME NEW i, NEW c, ConditionSound(c), NEW k \in DOMAIN c, NEW E, NEW T,
         \A j \in 1 .. k - 1 : NodeMeans(E[j], T[j], AllAnswered(i, c))
  PROVE  NodeMeans(ValueAt(i, c, E, k), TruthAt(i, c, T, k), AllAnswered(i, c))
<1> DEFINE l == Operand(i, c[k].left)
           r == Operand(i, c[k].right)
           e == ValueAt(i, c, E, k)
           t == TruthAt(i, c, T, k)
<1> SUFFICES NodeMeans(e, t, AllAnswered(i, c))
  OBVIOUS
<1>1. /\ c[k].op \in {"equals", "notEquals", "all", "any", "not"}
      /\ IsComparison(c[k]) \/ c[k].of \subseteq 1 .. k - 1
  BY DEF ConditionSound, WellFormed
<1>2. CASE IsComparison(c[k])
  <2>1. c[k].op \in {"equals", "notEquals"}
    BY <1>2 DEF IsComparison
  <2>2. e.unresolved = (Nil \in {l, r}) /\ e.value = (Nil \notin {l, r} /\ (l = r) = (c[k].op = "equals"))
    BY <1>2 DEF ValueAt
  <2>3. AllAnswered(i, c) => l # Nil /\ r # Nil
    <3>1. c[k] \in Comparisons(c)
      BY <1>2 DEF Comparisons, ToSet
    <3>2. QED
      BY <3>1 DEF AllAnswered
  <2>4. CASE c[k].op = "equals"
    <3>1. t \in BOOLEAN /\ (t <=> l = r)
      BY <2>4 DEF TruthAt
    <3>2. e.unresolved \in BOOLEAN /\ (e.unresolved <=> l = Nil \/ r = Nil)
      <4> HIDE DEF e, l, r
      <4>1. (Nil \in {l, r}) \in BOOLEAN /\ (Nil \in {l, r} <=> l = Nil \/ r = Nil)
        OBVIOUS
      <4>2. QED
        BY Zenon, <2>2, <4>1
    <3>3. e.value \in BOOLEAN /\ (e.value <=> l # Nil /\ r # Nil /\ l = r)
      BY <2>2, <2>4
    <3> HIDE DEF e, t, l, r
    <3>4. QED
      BY <2>3, <3>1, <3>2, <3>3 DEF NodeMeans
  <2>5. CASE c[k].op = "notEquals"
    <3>1. t \in BOOLEAN /\ (t <=> l # r)
      BY <2>5 DEF TruthAt
    <3>2. e.unresolved \in BOOLEAN /\ (e.unresolved <=> l = Nil \/ r = Nil)
      <4> HIDE DEF e, l, r
      <4>1. (Nil \in {l, r}) \in BOOLEAN /\ (Nil \in {l, r} <=> l = Nil \/ r = Nil)
        OBVIOUS
      <4>2. QED
        BY Zenon, <2>2, <4>1
    <3>3. e.value \in BOOLEAN /\ (e.value <=> l # Nil /\ r # Nil /\ l # r)
      BY <2>2, <2>5
    <3> HIDE DEF e, t, l, r
    <3>4. QED
      BY <2>3, <3>1, <3>2, <3>3 DEF NodeMeans
  <2>6. QED
    BY <2>1, <2>4, <2>5
<1>3. CASE ~IsComparison(c[k])
  <2> DEFINE parts == {E[j] : j \in c[k].of}
             u == \E p \in parts : p.unresolved
  <2>1. c[k].op \in {"all", "any", "not"}
    BY <1>1, <1>3 DEF IsComparison
  <2>2. \A j \in c[k].of : NodeMeans(E[j], T[j], AllAnswered(i, c))
    BY <1>1, <1>3
  <2>3. e.unresolved = u
    BY <1>3 DEF ValueAt
  <2>4. u \in BOOLEAN /\ (~u => \A j \in c[k].of : ~E[j].unresolved)
    OBVIOUS
  <2>5. AllAnswered(i, c) => ~u
    BY <2>2 DEF NodeMeans
  <2>6. CASE c[k].op = "all"
    <3>1. e.value = (~u /\ \A p \in parts : p.value) /\ t = \A j \in c[k].of : T[j]
      BY <2>6, <1>3 DEF ValueAt, TruthAt, IsComparison
    <3>2. (\A p \in parts : p.value) <=> \A j \in c[k].of : E[j].value
      OBVIOUS
    <3> HIDE DEF e, t, u, parts
    <3>3. ~u => ((\A j \in c[k].of : E[j].value) <=> \A j \in c[k].of : T[j])
      BY <2>2, <2>4 DEF NodeMeans
    <3>4. QED
      BY <2>3, <2>4, <2>5, <3>1, <3>2, <3>3 DEF NodeMeans
  <2>7. CASE c[k].op = "any"
    <3>1. e.value = (~u /\ \E p \in parts : p.value) /\ t = \E j \in c[k].of : T[j]
      BY <2>7, <1>3 DEF ValueAt, TruthAt, IsComparison
    <3>2. (\E p \in parts : p.value) <=> \E j \in c[k].of : E[j].value
      OBVIOUS
    <3> HIDE DEF e, t, u, parts
    <3>3. ~u => ((\E j \in c[k].of : E[j].value) <=> \E j \in c[k].of : T[j])
      BY <2>2, <2>4 DEF NodeMeans
    <3>4. QED
      BY <2>3, <2>4, <2>5, <3>1, <3>2, <3>3 DEF NodeMeans
  <2>8. CASE c[k].op = "not"
    <3>1. e.value = (~u /\ \A p \in parts : ~p.value) /\ t = \A j \in c[k].of : ~T[j]
      BY <2>8, <1>3 DEF ValueAt, TruthAt, IsComparison
    <3>2. (\A p \in parts : ~p.value) <=> \A j \in c[k].of : ~E[j].value
      OBVIOUS
    <3> HIDE DEF e, t, u, parts
    <3>3. ~u => ((\A j \in c[k].of : ~E[j].value) <=> \A j \in c[k].of : ~T[j])
      BY <2>2, <2>4 DEF NodeMeans
    <3>4. QED
      BY <2>3, <2>4, <2>5, <3>1, <3>2, <3>3 DEF NodeMeans
  <2>9. QED
    BY <2>1, <2>6, <2>7, <2>8
<1>4. QED
  BY <1>2, <1>3

(* A node with a value has parts with values, and a comparison with one was  *)
(* answered.                                                                 *)
LEMMA PartsResolved ==
  ASSUME NEW i, NEW c, NEW k \in DOMAIN c, NEW E, ~ValueAt(i, c, E, k).unresolved
  PROVE  /\ IsComparison(c[k]) => Operand(i, c[k].left) # Nil /\ Operand(i, c[k].right) # Nil
         /\ ~IsComparison(c[k]) => \A j \in c[k].of : ~E[j].unresolved
  BY DEF ValueAt

(* A condition is evaluated to true when every operand was answered and it   *)
(* is true of the answers, and only then.                                    *)
LEMMA EvaluationMeans ==
  ASSUME NEW i, NEW c, ConditionSound(c)
  PROVE  Evaluation(i, c).value <=> AllAnswered(i, c) /\ Holds(i, c)
<1> DEFINE E == CHOOSE f : f = [k \in DOMAIN c |-> ValueAt(i, c, f, k)]
           T == CHOOSE f : f = [k \in DOMAIN c |-> TruthAt(i, c, f, k)]
           N == Len(c)
<1>1. DOMAIN c = 1 .. N /\ N \in Nat \ {0}
  BY LenProperties, EmptySeq DEF ConditionSound, WellFormed
<1>2. E = [k \in DOMAIN c |-> ValueAt(i, c, E, k)]
  BY ValueExists
<1>3. T = [k \in DOMAIN c |-> TruthAt(i, c, T, k)]
  BY TruthExists
<1>4. Evaluation(i, c) = E[N]
  BY DEF Evaluation, ValueAt
<1>5. Holds(i, c) = T[N]
  BY DEF Holds, TruthAt
<1> HIDE DEF E, T, N
<1>6. \A k \in DOMAIN c : E[k] = ValueAt(i, c, E, k) /\ T[k] = TruthAt(i, c, T, k)
  BY <1>2, <1>3
<1> DEFINE Up == {m \in Nat : \A k \in DOMAIN c : k <= m => NodeMeans(E[k], T[k], AllAnswered(i, c))}
<1>7. Nat \subseteq Up
  <2>1. 0 \in Up
    BY <1>1
  <2>2. ASSUME NEW m \in Nat, m \in Up PROVE m + 1 \in Up
    <3> SUFFICES ASSUME NEW k \in DOMAIN c, k <= m + 1
                 PROVE  NodeMeans(E[k], T[k], AllAnswered(i, c))
      OBVIOUS
    <3>1. \A j \in 1 .. k - 1 : j \in DOMAIN c /\ j <= m
      BY <1>1
    <3>2. \A j \in 1 .. k - 1 : NodeMeans(E[j], T[j], AllAnswered(i, c))
      BY <2>2, <3>1
    <3>3. NodeMeans(ValueAt(i, c, E, k), TruthAt(i, c, T, k), AllAnswered(i, c))
      BY <3>2, NodeOfParts
    <3>4. QED
      BY <3>3, <1>6
  <2> HIDE DEF Up
  <2>3. QED
    BY <2>1, <2>2, NatSteps
<1>8. NodeMeans(E[N], T[N], AllAnswered(i, c))
  BY <1>1, <1>7
<1>9. ASSUME ~E[N].unresolved PROVE AllAnswered(i, c)
  <2> DEFINE Down == {m \in Nat : \A k \in DOMAIN c : k + m >= N => ~E[k].unresolved}
  <2>1. 0 \in Down
    <3>1. \A k \in DOMAIN c : k + 0 >= N => k = N
      BY <1>1
    <3>2. QED
      BY <3>1, <1>9
  <2>2. ASSUME NEW m \in Nat, m \in Down PROVE m + 1 \in Down
    <3> SUFFICES ASSUME NEW k \in DOMAIN c, k + (m + 1) >= N PROVE ~E[k].unresolved
      OBVIOUS
    <3>1. CASE k = N
      BY <3>1, <1>9
    <3>2. CASE k # N
      <4>1. k < Len(c)
        BY <3>2, <1>1 DEF N
      <4>2. PICK j \in DOMAIN c : ~IsComparison(c[j]) /\ k \in c[j].of
        BY <4>1 DEF ConditionSound, WellFormed
      <4>3. k \in 1 .. j - 1
        BY <4>2 DEF ConditionSound, WellFormed
      <4>4. j + m >= N
        BY <4>3, <1>1
      <4>5. ~E[j].unresolved
        BY <4>4, <2>2
      <4>6. QED
        BY <4>2, <4>5, <1>6, PartsResolved
    <3>3. QED
      BY <3>1, <3>2
  <2>3. Nat \subseteq Down
    <3> HIDE DEF Down
    <3>1. QED
      BY <2>1, <2>2, NatSteps
  <2>4. \A k \in DOMAIN c : ~E[k].unresolved
    BY <2>3, <1>1
  <2>5. ASSUME NEW n \in Comparisons(c) PROVE Operand(i, n.left) # Nil /\ Operand(i, n.right) # Nil
    <3>1. PICK k \in DOMAIN c : n = c[k] /\ IsComparison(c[k])
      BY DEF Comparisons, ToSet
    <3>2. ~ValueAt(i, c, E, k).unresolved
      BY <2>4, <1>6
    <3>3. QED
      BY <3>1, <3>2, PartsResolved
  <2>6. QED
    BY <2>5 DEF AllAnswered
<1>10. QED
  BY <1>4, <1>5, <1>8, <1>9 DEF NodeMeans

-----------------------------------------------------------------------------
(* The steps of a run *)

(* A step has a status and, if it was answered, every field it declares with *)
(* an accepted value.                                                        *)
Conforms(a, declared) ==
    a # None => /\ DOMAIN a = DOMAIN declared
                /\ \A f \in DOMAIN declared : a[f] \in declared[f].values

EntryTyped(r, s) ==
    DOMAIN r = {"status", "result"} /\ r.status \in Status /\ Conforms(r.result, s.result)

RunTyped ==
    /\ DOMAIN steps = DOMAIN plan /\ \A i \in DOMAIN plan : EntryTyped(steps[i], plan[i])
    /\ reopened \in {0} \cup DOMAIN plan

LEMMA EntryReset ==
  ASSUME NEW r, NEW s, EntryTyped(r, s)
  PROVE  EntryTyped(Reset(r), s) /\ Reset(r).status = "pending" /\ Reset(r).result = None
<1>1. DOMAIN Reset(r) = {"status", "result"} /\ Reset(r).status = "pending" /\ Reset(r).result = None
  BY DEF EntryTyped, Reset
<1>2. QED
  BY <1>1 DEF EntryTyped, Conforms, Status

LEMMA EntryMoves ==
  ASSUME NEW r, NEW s, EntryTyped(r, s), NEW v \in Status
  PROVE  LET t == [r EXCEPT !.status = v]
         IN  EntryTyped(t, s) /\ t.status = v /\ t.result = r.result
<1> DEFINE t == [r EXCEPT !.status = v]
<1>1. DOMAIN t = {"status", "result"} /\ t.status = v /\ t.result = r.result
  BY DEF EntryTyped
<1> HIDE DEF t
<1>2. EntryTyped(t, s)
  BY <1>1 DEF EntryTyped
<1>3. QED
  BY <1>1, <1>2 DEF t

LEMMA EntryGiven ==
  ASSUME NEW s, NEW v \in Status, NEW a, Conforms(a, s.result)
  PROVE  LET t == [status |-> v, result |-> a]
         IN  EntryTyped(t, s) /\ t.status = v /\ t.result = a
  BY DEF EntryTyped

(* What Invalidated leaves of a step: nothing moves in front of the one it   *)
(* starts from, a result goes with what becomes stale, and a step that was   *)
(* skipped for its condition is asked again.                                 *)
LEMMA InvalidatedEntry ==
  ASSUME RunTyped, NEW i \in DOMAIN plan, NEW j \in DOMAIN plan
  PROVE  LET t == Invalidated(i)[j]
         IN  /\ EntryTyped(t, plan[j])
             /\ j < i => t = steps[j]
             /\ ~(j < i) /\ plan[j].kind = "agent" => t.status # "skipped"
             /\ t.status # "in_progress" \/ t = steps[j]
<1> DEFINE t == Invalidated(i)[j]
           stale == [status |-> "stale", result |-> None]
<1>1. EntryTyped(steps[j], plan[j])
  BY DEF RunTyped
<1>2. EntryTyped(stale, plan[j]) /\ stale.status = "stale"
  <2>1. Conforms(None, plan[j].result)
    BY DEF Conforms
  <2>2. QED
    BY <2>1 DEF EntryTyped, Status
<1>3. t = IF j < i THEN steps[j]
          ELSE IF steps[j].status \in {"complete", "halted", "in_progress"} THEN stale
          ELSE IF steps[j].status = "skipped" /\ plan[j].kind = "agent" THEN Reset(steps[j])
          ELSE steps[j]
  BY DEF Invalidated
<1> HIDE DEF stale, t
<1>4. EntryTyped(Reset(steps[j]), plan[j]) /\ Reset(steps[j]).status = "pending"
  BY <1>1, EntryReset
<1>5. EntryTyped(t, plan[j]) /\ (j < i => t = steps[j])
  BY <1>1, <1>2, <1>3, <1>4
<1>6. ~(j < i) /\ plan[j].kind = "agent" => t.status # "skipped"
  BY <1>2, <1>3, <1>4
<1>7. t.status # "in_progress" \/ t = steps[j]
  BY <1>2, <1>3, <1>4
<1>8. QED
  BY <1>5, <1>6, <1>7 DEF t

(* What an action at step i leaves of step j. *)
Left(i, j) ==
    /\ EntryTyped(steps'[j], plan[j])
    /\ j < i => steps'[j] = steps[j]
    /\ steps'[j].status = "skipped" /\ plan[j].when # Nil
       => \/ j = i /\ NextSkips(j)
          \/ steps[j].status = "skipped" /\ (j < i \/ ~Done(i))
    /\ steps[j].status = "pending" /\ steps'[j].status = "in_progress" => j = i /\ NextStarts(i)

LEMMA PlanPlaces == PlanInv => DOMAIN plan = 1 .. Len(plan) /\ Len(plan) \in Nat
  BY LenProperties DEF PlanInv, PlanOK

(* An action that sets step i alone. *)
LEMMA SetLeaves ==
  ASSUME RunTyped, PlanInv, NEW i \in DOMAIN plan, NEW r, Sets(i, r), EntryTyped(r, plan[i]),
         r.status = "skipped" => NextSkips(i),
         steps[i].status = "pending" /\ r.status = "in_progress" => NextStarts(i),
         ~Done(i)
  PROVE  DOMAIN steps' = DOMAIN plan /\ \A j \in DOMAIN plan : Left(i, j)
<1>1. DOMAIN steps = DOMAIN plan /\ \A j \in DOMAIN plan : EntryTyped(steps[j], plan[j])
  BY DEF RunTyped
<1>2. DOMAIN steps' = DOMAIN plan /\ steps'[i] = r /\ \A j \in DOMAIN plan : j # i => steps'[j] = steps[j]
  BY <1>1 DEF Sets
<1>3. ASSUME NEW j \in DOMAIN plan PROVE Left(i, j)
  <2>0. i \in 1 .. Len(plan) /\ i \in Nat
    BY PlanPlaces
  <2>1. CASE j = i
    <3>1. steps'[j] = r /\ ~(j < i)
      BY <1>2, <2>1, <2>0
    <3>2. QED
      BY <3>1, <2>1 DEF Left
  <2>2. CASE j # i
    <3>1. steps'[j] = steps[j]
      BY <1>2, <2>2
    <3>2. ~(steps[j].status = "pending" /\ steps[j].status = "in_progress")
      OBVIOUS
    <3>3. QED
      BY <3>1, <3>2, <1>1 DEF Left
  <2>3. QED
    BY <2>1, <2>2
<1>4. QED
  BY <1>2, <1>3

LEMMA CycleEndLeaves ==
  ASSUME RunTyped, PlanInv, NEW i \in DOMAIN plan, CycleEnds(i)
  PROVE  DOMAIN steps' = DOMAIN plan /\ \A j \in DOMAIN plan : Left(i, j)
<1> DEFINE ended == [status |-> "complete", result |-> None]
<1>1. DOMAIN steps = DOMAIN plan /\ \A j \in DOMAIN plan : EntryTyped(steps[j], plan[j])
  BY DEF RunTyped
<1>2. /\ DOMAIN steps' = DOMAIN plan
      /\ \A j \in DOMAIN plan : steps'[j] =
           IF j = i THEN ended
           ELSE IF j > i /\ plan[j].cycle = plan[i].cycle /\ steps[j].status = "pending"
           THEN [steps[j] EXCEPT !.status = "skipped"] ELSE steps[j]
  BY DEF CycleEnds
<1>3. plan[i].cycle # << >> /\ ~Done(i)
  BY DEF CycleEnds, Done, PlanInv, PlanOK, PlanSound
<1>4. ASSUME NEW s PROVE EntryTyped(ended, s) /\ ended.status = "complete"
  <2>1. Conforms(None, s.result)
    BY DEF Conforms
  <2>2. QED
    BY <2>1 DEF EntryTyped, Status
<1> HIDE DEF ended
<1>5. ASSUME NEW j \in DOMAIN plan PROVE Left(i, j)
  <2>0. i \in Nat /\ j \in Nat
    BY PlanPlaces
  <2>1. CASE j = i
    BY <2>0, <2>1, <1>2, <1>4 DEF Left
  <2>2. CASE j # i /\ j > i /\ plan[j].cycle = plan[i].cycle /\ steps[j].status = "pending"
    <3>1. plan[j].when = Nil
      BY <2>2, <1>3 DEF PlanInv, PlanOK, PlanSound
    <3>2. EntryTyped(steps'[j], plan[j]) /\ steps'[j].status = "skipped"
      <4>1. steps'[j] = [steps[j] EXCEPT !.status = "skipped"]
        BY <2>2, <1>2
      <4>2. EntryTyped(steps[j], plan[j]) /\ "skipped" \in Status
        BY <1>1 DEF Status
      <4>3. QED
        BY <4>1, <4>2, EntryMoves
    <3>3. ~(j < i)
      BY <2>0, <2>2
    <3>4. QED
      BY <3>1, <3>2, <3>3 DEF Left
  <2>3. CASE j # i /\ ~(j > i /\ plan[j].cycle = plan[i].cycle /\ steps[j].status = "pending")
    <3>1. steps'[j] = steps[j]
      BY <2>3, <1>2
    <3>2. ~(steps[j].status = "pending" /\ steps[j].status = "in_progress")
      OBVIOUS
    <3>3. QED
      BY <3>1, <3>2, <1>1, <1>3 DEF Left
  <2>4. QED
    BY <2>1, <2>2, <2>3
<1>6. QED
  BY <1>2, <1>5

LEMMA SentBackLeaves ==
  ASSUME RunTyped, PlanInv, NEW i \in DOMAIN plan, SentBack(i)
  PROVE  DOMAIN steps' = DOMAIN plan /\ \A j \in DOMAIN plan : Left(i, j)
<1> DEFINE left == Invalidated(i)
<1>1. DOMAIN left = DOMAIN plan
  BY DEF Invalidated
<1>2. \A j \in DOMAIN plan : steps'[j] = left[j] \/ (steps'[j] = Reset(left[j]) /\ ~(j < i))
  <2>0. i \in Nat
    BY PlanPlaces
  <2>1. CASE steps' = left
    BY <2>1
  <2>2. CASE steps' = [left EXCEPT ![i] = Reset(@)]
    <3> HIDE DEF left
    <3>1. QED
      BY <1>1, <2>0, <2>2
  <2>3. ASSUME NEW p \in DOMAIN plan,
               steps' = [j \in DOMAIN plan |->
                 IF j = i \/ (plan[j].kind = "agent" /\ left[j].status = "stale"
                              /\ steps[j].status # "stale")
                 THEN Reset(left[j]) ELSE left[j]]
        PROVE  \A j \in DOMAIN plan : steps'[j] = left[j] \/ (steps'[j] = Reset(left[j]) /\ ~(j < i))
    <3>1. \A j \in DOMAIN plan : j < i => left[j] = steps[j]
      BY InvalidatedEntry
    <3> HIDE DEF left
    <3>2. ASSUME NEW j \in DOMAIN plan
          PROVE  steps'[j] = left[j] \/ (steps'[j] = Reset(left[j]) /\ ~(j < i))
      <4>1. CASE j = i
        BY <4>1, <2>0, <2>3
      <4>2. CASE j # i /\ j < i
        BY <4>2, <3>1, <2>3
      <4>3. CASE j # i /\ ~(j < i)
        BY <4>3, <2>3
      <4>4. QED
        BY <4>1, <4>2, <4>3
    <3>3. QED
      BY <3>2
  <2>4. QED
    BY <2>1, <2>2, <2>3 DEF SentBack
<1>3. DOMAIN steps' = DOMAIN plan
  <2> HIDE DEF left
  <2>1. QED
    BY <1>1 DEF SentBack, left
<1>4. ASSUME NEW j \in DOMAIN plan PROVE Left(i, j)
  <2>1. /\ EntryTyped(left[j], plan[j])
        /\ j < i => left[j] = steps[j]
        /\ ~(j < i) /\ plan[j].kind = "agent" => left[j].status # "skipped"
        /\ left[j].status # "in_progress" \/ left[j] = steps[j]
    BY InvalidatedEntry
  <2> HIDE DEF left
  <2>2. plan[j].when # Nil => plan[j].kind = "agent"
    BY DEF PlanInv, PlanOK, PlanSound
  <2>3. CASE steps'[j] = left[j]
    <3>1. steps[j].status = "pending" => steps'[j].status # "in_progress"
      BY <2>1, <2>3
    <3>2. QED
      BY <2>1, <2>2, <2>3, <3>1 DEF Left
  <2>4. CASE steps'[j] = Reset(left[j]) /\ ~(j < i)
    <3>1. EntryTyped(steps'[j], plan[j]) /\ steps'[j].status = "pending"
      BY <2>1, <2>4, EntryReset
    <3>2. QED
      BY <2>4, <3>1 DEF Left
  <2>5. QED
    BY <1>2, <2>3, <2>4
<1>5. QED
  BY <1>3, <1>4

(* What each action of the run leaves of each step. *)
LEMMA StepLeaves ==
  ASSUME RunTyped, PlanInv, RunStep
  PROVE  \E i \in DOMAIN plan : DOMAIN steps' = DOMAIN plan /\ \A j \in DOMAIN plan : Left(i, j)
<1>1. PICK i \in DOMAIN plan :
        \/ NextReopens(i) \/ NextStarts(i)
        \/ NextSkips(i) \/ Completes(i) \/ Fails(i) \/ Acknowledged(i) \/ Passes(i)
        \/ CycleEnds(i) \/ SentBack(i) \/ Retry(i)
  BY DEF RunStep
<1> DEFINE Goal == DOMAIN steps' = DOMAIN plan /\ \A j \in DOMAIN plan : Left(i, j)
<1>2. EntryTyped(steps[i], plan[i])
  BY DEF RunTyped
<1>3. ASSUME NEW v \in Status, Sets(i, [steps[i] EXCEPT !.status = v]), ~Done(i),
             v # "in_progress", v = "skipped" => NextSkips(i)
      PROVE  Goal
  <2> DEFINE r == [steps[i] EXCEPT !.status = v]
  <2>1. EntryTyped(r, plan[i]) /\ r.status = v
    BY <1>2, EntryMoves
  <2>2. Sets(i, r)
    BY <1>3
  <2> HIDE DEF r
  <2>3. QED
    BY <2>1, <2>2, <1>3, SetLeaves
<1>4. CASE NextSkips(i)
  BY <1>3, <1>4 DEF NextSkips, FirstOpen, Status
<1>5. CASE NextStarts(i)
  <2> DEFINE r == [Reset(steps[i]) EXCEPT !.status = "in_progress"]
  <2>1. EntryTyped(r, plan[i]) /\ r.status = "in_progress"
    <3>1. EntryTyped(Reset(steps[i]), plan[i]) /\ "in_progress" \in Status
      BY <1>2, EntryReset DEF Status
    <3>2. QED
      BY <3>1, EntryMoves
  <2>2. Sets(i, r) /\ ~Done(i)
    BY <1>5 DEF NextStarts, FirstOpen
  <2> HIDE DEF r
  <2>3. QED
    BY <2>1, <2>2, <1>5, SetLeaves
<1>6. CASE Completes(i)
  <2>1. PICK a \in Answers(i) : \/ Sets(i, [status |-> "complete", result |-> a])
                                \/ Sets(i, [status |-> "halted", result |-> a])
    BY <1>6 DEF Completes
  <2>0. PICK v \in {"complete", "halted"} : Sets(i, [status |-> v, result |-> a])
    BY <2>1
  <2> DEFINE r == [status |-> v, result |-> a]
  <2>2. Conforms(a, plan[i].result)
    BY DEF Answers, Conforms
  <2>3. EntryTyped(r, plan[i]) /\ r.status \in {"complete", "halted"}
    BY <2>2, EntryGiven DEF Status
  <2>4. Sets(i, r) /\ ~Done(i)
    BY <2>0, <1>6 DEF Completes, Done
  <2> HIDE DEF r
  <2>5. QED
    BY <2>3, <2>4, SetLeaves
<1>7. CASE Fails(i)
  BY <1>3, <1>7 DEF Fails, Done, Status
<1>8. CASE Passes(i)
  BY <1>3, <1>8 DEF Passes, Status
<1>13. CASE Acknowledged(i)
  BY <1>3, <1>13 DEF Acknowledged, Done, Status
<1>9. CASE CycleEnds(i)
  BY <1>9, CycleEndLeaves
<1>10. CASE SentBack(i)
  BY <1>10, SentBackLeaves
<1>14. CASE NextReopens(i)
  <2> DEFINE r == Reset(steps[i])
  <2>1. EntryTyped(r, plan[i]) /\ r.status = "pending"
    BY <1>2, EntryReset
  <2>2. Sets(i, r) /\ ~Done(i)
    BY <1>14 DEF NextReopens, FirstOpen
  <2> HIDE DEF r
  <2>3. QED
    BY <2>1, <2>2, SetLeaves
<1>11. CASE Retry(i)
  <2> DEFINE r == Reset(steps[i])
  <2>1. EntryTyped(r, plan[i]) /\ r.status = "pending"
    BY <1>2, EntryReset
  <2>2. Sets(i, r) /\ ~Done(i)
    BY <1>11 DEF Retry, Done
  <2> HIDE DEF r
  <2>3. QED
    BY <2>1, <2>2, SetLeaves
<1>12. QED
  BY <1>1, <1>4, <1>5, <1>6, <1>7, <1>8, <1>9, <1>10, <1>11, <1>13, <1>14

(* No step of the run but a start that asks the condition takes up a pending *)
(* step that no next has just reopened.                                      *)
LEMMA StartsAreAsked ==
  ASSUME RunTyped, PlanInv, RunStep, NEW x \in DOMAIN plan,
         steps[x].status = "pending", steps'[x].status = "in_progress", reopened # x,
         plan[x].kind = "agent", plan[x].when # Nil
  PROVE  Answered(x) /\ Holds(x, plan[x].when)
<1>1. NextStarts(x)
  BY StepLeaves DEF Left
<1>2. Evaluation(x, plan[x].when).value
  BY <1>1 DEF NextStarts, Allows
<1>3. ConditionSound(plan[x].when)
  BY DEF PlanInv, PlanOK, PlanSound
<1>4. AllAnswered(x, plan[x].when) /\ Holds(x, plan[x].when)
  BY <1>2, <1>3, EvaluationMeans
<1>5. QED
  BY <1>4 DEF AllAnswered, Answered

LEMMA RunTypedInit == RunInit => RunTyped
  BY DEF RunInit, ExpansionInit, RunTyped

LEMMA RunTypedStep == RunTyped /\ PlanInv /\ [RunNext]_runVars => RunTyped'
<1> SUFFICES ASSUME RunTyped, PlanInv, [RunNext]_runVars PROVE RunTyped'
  OBVIOUS
<1>1. CASE RunStep
  <2>1. DOMAIN steps' = DOMAIN plan /\ \A j \in DOMAIN plan : EntryTyped(steps'[j], plan[j])
    BY <1>1, StepLeaves DEF Left
  <2>2. plan' = plan
    BY <1>1, RunStepIsOfRun DEF startVars
  <2>3. reopened' \in {0} \cup DOMAIN plan
    BY <1>1 DEF RunStep, NextReopens, NextStarts
  <2>4. QED
    BY <2>1, <2>2, <2>3 DEF RunTyped
<1>2. CASE Creates /\ UNCHANGED reopened
  <2> DEFINE fresh == [status |-> "pending", result |-> None]
  <2>1. ASSUME NEW s PROVE EntryTyped(fresh, s)
    BY DEF EntryTyped, Conforms, Status
  <2>2. steps' = [i \in DOMAIN plan' |-> fresh]
    BY <1>2 DEF Creates
  <2> HIDE DEF fresh
  <2>3. plan = << >> /\ reopened' = 0
    BY <1>2 DEF Creates, Freeze, PlanInv, RunTyped
  <2>4. QED
    BY <2>1, <2>2, <2>3 DEF RunTyped
<1>3. CASE UNCHANGED <<plan, steps>> /\ reopened' \in {0, reopened}
  BY <1>3 DEF RunTyped
<1>4. QED
  <2>1. CASE StartBegins /\ UNCHANGED <<steps, reopened>>
    BY <2>1, <1>3 DEF StartBegins
  <2>2. CASE Read /\ UNCHANGED <<steps, reopened>>
    BY <2>2, <1>3 DEF Read, Refuses
  <2>3. CASE EditStep
    BY <2>3, <1>3 DEF EditStep, Edit
  <2>4. CASE NextStops \/ UNCHANGED runVars
    BY <2>4, <1>3 DEF NextStops, runVars, startVars
  <2>5. QED
    BY <1>1, <1>2, <2>1, <2>2, <2>3, <2>4 DEF RunNext, StartStep

LEMMA RunTypedInvariant == RunSpec => []RunTyped
<1>1. RunInit => RunTyped
  BY RunTypedInit
<1>2. RunTyped /\ PlanInv /\ [RunNext]_runVars => RunTyped'
  BY RunTypedStep
<1>3. QED
  BY <1>1, <1>2, PlanInvariant, PTL DEF RunSpec

(* Types: nothing is read at a place that was read, no mount stands deeper   *)
(* than allowed, and a result has the declared fields with accepted values.  *)
THEOREM ConditionalTypeCorrect == RunSpec => []TypeOK
<1>1. ReadInv /\ RunTyped => TypeOK
  <2> SUFFICES ASSUME ReadInv, RunTyped PROVE TypeOK
    OBVIOUS
  <2>1. \A f \in Path : files[f] \in MayHold[f]
    BY DEF ReadInv, FilesTyped
  <2>2. ASSUME NEW k \in DOMAIN agenda
        PROVE  Len(agenda[k].stack) <= MaxDepth /\ agenda[k].ns \notin DOMAIN nodes
    <3>1. MountTyped(agenda[k]) /\ \A n \in DOMAIN nodes : ~Prefix(agenda[k].ns, n)
      BY DEF ReadInv, AgendaSound
    <3>2. Prefix(agenda[k].ns, agenda[k].ns)
      BY <3>1, LenProperties DEF Prefix, MountTyped
    <3>3. QED
      BY <3>1, <3>2 DEF MountTyped
  <2>3. ASSUME NEW i \in DOMAIN plan
        PROVE  /\ steps[i].status \in Status
               /\ steps[i].result # None
                  => /\ DOMAIN steps[i].result = DOMAIN plan[i].result
                     /\ \A f \in DOMAIN plan[i].result : steps[i].result[f] \in plan[i].result[f].values
    BY DEF RunTyped, EntryTyped, Conforms
  <2>4. QED
    BY <2>1, <2>2, <2>3 DEF TypeOK, ReadInv, RunTyped
<1>2. QED
  BY <1>1, ReadInvariant, RunTypedInvariant, PTL

(* Whatever was answered and sent back before, a step with a condition that  *)
(* no next has just reopened is started only when its condition is answered  *)
(* and true (ConditionEvaluatorService.evaluate).                            *)
THEOREM ConditionsHold == RunSpec => ConditionHeldAtStart
<1> DEFINE A == \A i \in DOMAIN plan :
                  /\ steps[i].status = "pending" /\ steps'[i].status = "in_progress" /\ reopened # i
                  /\ plan[i].kind = "agent" /\ plan[i].when # Nil
                  => Answered(i) /\ Holds(i, plan[i].when)
<1>1. RunTyped /\ PlanInv /\ [RunNext]_runVars => A
  <2> SUFFICES ASSUME RunTyped, PlanInv, [RunNext]_runVars, NEW i \in DOMAIN plan,
                      steps[i].status = "pending", steps'[i].status = "in_progress", reopened # i,
                      plan[i].kind = "agent", plan[i].when # Nil
               PROVE  Answered(i) /\ Holds(i, plan[i].when)
    OBVIOUS
  <2>1. CASE RunStep
    BY <2>1, StartsAreAsked
  <2>2. CASE Creates
    <3>1. plan = << >>
      BY <2>2 DEF Creates, Freeze, PlanInv
    <3>2. QED
      BY <3>1
  <2>3. CASE UNCHANGED steps
    BY <2>3
  <2>4. QED
    BY <2>1, <2>2, <2>3 DEF RunNext, StartStep, NextStops, EditStep, runVars
<1>2. RunTyped /\ PlanInv /\ [RunNext]_runVars => [A]_runVars
  BY <1>1
<1>3. QED
  BY <1>2, RunTypedInvariant, PlanInvariant, PTL DEF RunSpec, ConditionHeldAtStart

-----------------------------------------------------------------------------
(* What was skipped *)

(* The answer a condition waits for is given by one step in front of it.     *)
LEMMA OperandKept ==
  ASSUME PlanInv, UNCHANGED plan, NEW x \in DOMAIN plan,
         \A j \in DOMAIN plan : j < x => steps'[j] = steps[j],
         plan[x].kind = "agent", plan[x].when # Nil,
         NEW n \in Comparisons(plan[x].when), NEW o \in {n.left, n.right}
  PROVE  Operand(x, o)' = Operand(x, o)
<1>1. OperandType(plan, x, o) # Nil
  <2>1. OperandType(plan, x, n.left) = OperandType(plan, x, n.right) /\ OperandType(plan, x, n.left) # Nil
    BY DEF PlanInv, PlanOK, ConditionsSound
  <2>2. QED
    BY <2>1
<1>2. CASE o.kind = "value" \/ o.kind = "parameter"
  BY <1>2 DEF Operand
<1>3. CASE ~(o.kind = "value" \/ o.kind = "parameter")
  <2> DEFINE given == {j \in 1 .. x - 1 : /\ plan[j].kind = "agent" /\ plan[j].id = o.step
                                          /\ o.name \in DOMAIN plan[j].result}
             asked == {j \in DOMAIN plan : plan[j].kind = "agent" /\ plan[j].id = o.step}
  <2>1. given # {}
    BY <1>1, <1>3 DEF OperandType
  <2>2. PICK s \in given : TRUE
    BY <2>1
  <2>3. s \in DOMAIN plan /\ s < x /\ plan[s].kind = "agent" /\ plan[s].id = o.step
    BY <2>2, PlanPlaces
  <2>4. \A j \in DOMAIN plan : plan[j].id = o.step => j = s
    BY <2>3 DEF PlanInv, PlanOK, NoCollision
  <2>5. steps'[s] = steps[s]
    BY <2>3
  <2> DEFINE from(st) == {j \in DOMAIN plan : /\ plan[j].kind = "agent" /\ plan[j].id = o.step
                                              /\ o.name \in DOMAIN st[j].result}
             answers(st) == {st[j].result[o.name] : j \in from(st)}
  <2>6. from(steps') = from(steps)
    BY <2>4, <2>5
  <2>7. \A j \in from(steps) : j = s
    BY <2>4
  <2>8. answers(steps') = answers(steps)
    BY <2>5, <2>6, <2>7
  <2>9. Operand(x, o) = IF answers(steps) = {} THEN Nil ELSE CHOOSE v \in answers(steps) : TRUE
    BY <1>3 DEF Operand
  <2>10. Operand(x, o)' = IF answers(steps') = {} THEN Nil ELSE CHOOSE v \in answers(steps') : TRUE
    BY <1>3 DEF Operand
  <2> HIDE DEF answers
  <2>11. QED
    BY <2>8, <2>9, <2>10
<1>4. QED
  BY <1>2, <1>3

(* While nothing in front of a step changes, its condition keeps its truth.  *)
LEMMA ConditionKept ==
  ASSUME PlanInv, UNCHANGED plan, NEW x \in DOMAIN plan,
         \A j \in DOMAIN plan : j < x => steps'[j] = steps[j],
         plan[x].kind = "agent", plan[x].when # Nil
  PROVE  /\ Answered(x)' <=> Answered(x)
         /\ Holds(x, plan[x].when)' <=> Holds(x, plan[x].when)
<1> DEFINE c == plan[x].when
<1>1. \A n \in Comparisons(c) : /\ Operand(x, n.left)' = Operand(x, n.left)
                                /\ Operand(x, n.right)' = Operand(x, n.right)
  <2>1. ASSUME NEW n \in Comparisons(plan[x].when), NEW o \in {n.left, n.right}
        PROVE  Operand(x, o)' = Operand(x, o)
    BY <2>1, OperandKept
  <2>2. QED
    BY <2>1
<1>2. Answered(x)' <=> Answered(x)
  <2>1. Comparisons(plan[x].when)' = Comparisons(plan[x].when)
    BY DEF Comparisons, ToSet
  <2>2. QED
    BY <1>1, <2>1 DEF Answered
<1>3. ASSUME NEW k \in DOMAIN c, NEW f PROVE TruthAt(x, c, f, k)' = TruthAt(x, c, f, k)
  <2>1. IsComparison(c[k]) => c[k] \in Comparisons(c)
    BY DEF Comparisons, ToSet
  <2>2. IsComparison(c[k]) => /\ Operand(x, c[k].left)' = Operand(x, c[k].left)
                              /\ Operand(x, c[k].right)' = Operand(x, c[k].right)
    BY <2>1, <1>1
  <2>3. c' = c
    OBVIOUS
  <2> HIDE DEF c
  <2>4. QED
    BY <2>2, <2>3 DEF TruthAt, IsComparison
<1>4. \A f : [k \in DOMAIN c |-> TruthAt(x, c, f, k)]' = [k \in DOMAIN c |-> TruthAt(x, c, f, k)]
  <2>1. c' = c
    OBVIOUS
  <2> HIDE DEF c
  <2>2. QED
    BY <2>1, <1>3
<1> DEFINE T == CHOOSE f : f = [k \in DOMAIN c |-> TruthAt(x, c, f, k)]
<1>5. T' = T
  BY <1>4
<1>6. Holds(x, c) = T[Len(c)]
  BY DEF Holds, TruthAt
<1>7. Holds(x, c)' = T'[Len(c)]
  <2>1. c' = c
    OBVIOUS
  <2>2. QED
    BY <1>6, <2>1 DEF Holds, TruthAt
<1>8. QED
  BY <1>2, <1>5, <1>6, <1>7

(* A step skipped for its condition stands behind finished steps alone, and  *)
(* the condition is not true of their answers.                               *)
SkipInv ==
    \A x \in DOMAIN plan :
        steps[x].status = "skipped" /\ plan[x].when # Nil
        => /\ \A j \in DOMAIN plan : j < x => Done(j)
           /\ ~(Answered(x) /\ Holds(x, plan[x].when))

LEMMA SkipKept ==
  ASSUME RunTyped, PlanInv, SkipInv, RunStep
  PROVE  SkipInv'
<1>1. UNCHANGED plan
  BY RunStepIsOfRun DEF startVars
<1>2. PICK i \in DOMAIN plan : DOMAIN steps' = DOMAIN plan /\ \A j \in DOMAIN plan : Left(i, j)
  BY StepLeaves
<1> SUFFICES ASSUME NEW x \in DOMAIN plan, steps'[x].status = "skipped", plan[x].when # Nil
             PROVE  /\ \A j \in DOMAIN plan : j < x => Done(j)'
                    /\ ~(Answered(x)' /\ Holds(x, plan[x].when)')
  BY <1>1 DEF SkipInv
<1>3. plan[x].kind = "agent" /\ ConditionSound(plan[x].when)
  BY DEF PlanInv, PlanOK, PlanSound
<1>4. i \in Nat /\ x \in Nat /\ DOMAIN plan \subseteq Nat
  BY PlanPlaces
<1>5. \/ x = i /\ NextSkips(x)
      \/ steps[x].status = "skipped" /\ (x < i \/ ~Done(i))
  BY <1>2 DEF Left
<1>6. \A j \in DOMAIN plan : j < i => steps'[j] = steps[j]
  BY <1>2 DEF Left
<1>7. /\ \A j \in DOMAIN plan : j < x => Done(j)
      /\ \A j \in DOMAIN plan : j < x => steps'[j] = steps[j]
      /\ ~(Answered(x) /\ Holds(x, plan[x].when))
  <2>1. CASE x = i /\ NextSkips(x)
    <3>1. \A j \in DOMAIN plan : j < x => Done(j)
      <4>1. \A j \in 1 .. x - 1 : Done(j)
        BY <2>1 DEF NextSkips, FirstOpen
      <4>2. \A j \in DOMAIN plan : j < x => j \in 1 .. x - 1
        BY PlanPlaces
      <4>3. QED
        BY <4>1, <4>2
    <3>2. ~Evaluation(x, plan[x].when).value
      BY <2>1 DEF NextSkips, Allows
    <3>3. ~(AllAnswered(x, plan[x].when) /\ Holds(x, plan[x].when))
      BY <3>2, <1>3, EvaluationMeans
    <3>4. QED
      BY <3>1, <3>3, <2>1, <1>6 DEF AllAnswered, Answered
  <2>2. CASE steps[x].status = "skipped" /\ (x < i \/ ~Done(i))
    <3>1. /\ \A j \in DOMAIN plan : j < x => Done(j)
          /\ ~(Answered(x) /\ Holds(x, plan[x].when))
      BY <2>2 DEF SkipInv
    <3>2. x < i
      <4>1. CASE i < x
        BY <4>1, <3>1, <2>2
      <4>2. CASE i = x
        BY <4>2, <2>2 DEF Done
      <4>3. QED
        BY <4>1, <4>2, <1>4
    <3>3. \A j \in DOMAIN plan : j < x => j < i
      BY <3>2, <1>4
    <3>4. QED
      BY <3>1, <3>3, <1>6
  <2>3. QED
    BY <1>5, <2>1, <2>2
<1>8. /\ Answered(x)' <=> Answered(x)
      /\ Holds(x, plan[x].when)' <=> Holds(x, plan[x].when)
  BY <1>1, <1>3, <1>7, ConditionKept
<1>9. \A j \in DOMAIN plan : j < x => Done(j)'
  BY <1>7 DEF Done
<1>10. QED
  BY <1>7, <1>8, <1>9

LEMMA SkipStays ==
  ASSUME SkipInv, UNCHANGED <<plan, steps>>
  PROVE  SkipInv'
<1> SUFFICES ASSUME NEW x \in DOMAIN plan, steps[x].status = "skipped", plan[x].when # Nil
             PROVE  /\ \A j \in DOMAIN plan : j < x => Done(j)'
                    /\ ~(Answered(x)' /\ Holds(x, plan[x].when)')
  BY DEF SkipInv
<1>1. /\ \A j \in DOMAIN plan : j < x => Done(j)
      /\ ~(Answered(x) /\ Holds(x, plan[x].when))
  BY DEF SkipInv
<1>2. Answered(x)' = Answered(x) /\ Holds(x, plan[x].when)' = Holds(x, plan[x].when)
  BY DEF Answered, Holds, Operand, Comparisons, IsComparison, ToSet
<1>3. QED
  BY <1>1, <1>2 DEF Done

LEMMA SkipStep == RunTyped /\ PlanInv /\ SkipInv /\ [RunNext]_runVars => SkipInv'
<1> SUFFICES ASSUME RunTyped, PlanInv, SkipInv, [RunNext]_runVars PROVE SkipInv'
  OBVIOUS
<1>1. CASE RunStep
  BY <1>1, SkipKept
<1>2. CASE Creates
  <2>1. \A x \in DOMAIN plan' : steps'[x].status # "skipped"
    BY <1>2 DEF Creates
  <2>2. QED
    BY <2>1 DEF SkipInv
<1>3. CASE StartBegins /\ UNCHANGED <<steps, reopened>>
  BY <1>3, SkipStays DEF StartBegins
<1>4. CASE Read /\ UNCHANGED <<steps, reopened>>
  BY <1>4, SkipStays DEF Read, Refuses
<1>5. CASE EditStep
  BY <1>5, SkipStays DEF EditStep, Edit
<1>6. CASE NextStops \/ UNCHANGED runVars
  BY <1>6, SkipStays DEF NextStops, runVars, startVars
<1>7. QED
  BY <1>1, <1>2, <1>3, <1>4, <1>5, <1>6 DEF RunNext, StartStep

(* A step that is left out is left out for the answers the run holds now,    *)
(* however often they were withdrawn and given anew (step-invalidation.ts).  *)
THEOREM SkippedForTheseAnswers == RunSpec => []SkippedIsFalseNow
<1>1. RunInit => SkipInv
  BY DEF RunInit, ExpansionInit, SkipInv
<1>2. RunTyped /\ PlanInv /\ SkipInv /\ [RunNext]_runVars => SkipInv'
  BY SkipStep
<1>3. SkipInv => SkippedIsFalseNow
  BY DEF SkipInv, SkippedIsFalseNow
<1>4. QED
  BY <1>1, <1>2, <1>3, RunTypedInvariant, PlanInvariant, PTL DEF RunSpec
=============================================================================
