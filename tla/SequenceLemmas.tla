--------------------------- MODULE SequenceLemmas ---------------------------
(***************************************************************************)
(* Induction on Nat in the form of a set closed under successor, and what   *)
(* FlattenSeq of the community modules computes: facts that the proofs of   *)
(* several components cite.                                                 *)
(***************************************************************************)
EXTENDS SequencesExt, WellFoundedInduction, SequenceTheorems, TLAPS

(* A set that holds 0 and the successor of each number it holds, holds Nat. *)
LEMMA NatSteps ==
  ASSUME NEW S, 0 \in S, \A n \in Nat : n \in S => n + 1 \in S
  PROVE  Nat \subseteq S
<1> DEFINE T == Nat \ S
<1>1. SUFFICES ASSUME T # {} PROVE FALSE
  BY DEF T
<1> DEFINE R == OpToRel(<, Nat)
<1>2. IsWellFoundedOn(R, Nat)
  BY NatLessThanWellFounded
<1> HIDE DEF R
<1>3. PICK x \in T : \A y \in T : ~ (<<y, x>> \in R)
  BY <1>1, <1>2, WFMin
<1>4. \A x1, y1 \in Nat : y1 < x1 => <<y1, x1>> \in R
  BY DEF R, OpToRel
<1>5. x # 0 /\ x \in Nat
  OBVIOUS
<1>6. x - 1 \in Nat /\ x - 1 < x /\ (x - 1) + 1 = x
  BY <1>5
<1>7. x - 1 \notin T
  BY <1>3, <1>4, <1>5, <1>6
<1>8. x \in S
  BY <1>6, <1>7
<1>9. QED
  BY <1>8

(* Arithmetic of the places of a part that starts behind place a. *)
LEMMA Within ==
  ASSUME NEW a \in Nat, NEW n \in Nat, NEW m \in Nat, a + n <= m, NEW j \in 1 .. n
  PROVE  a + j \in 1 .. m
  OBVIOUS

LEMMA InFront ==
  ASSUME NEW m \in Nat, NEW p \in 1 .. m, NEW i \in 1 .. m, p < i
  PROVE  p \in 1 .. i - 1
  OBVIOUS

LEMMA FirstOfSeq ==
  ASSUME NEW S, NEW q \in Seq(S), q # << >>
  PROVE  1 \in DOMAIN q /\ Head(q) = q[1]
<1>1. Len(q) \in Nat /\ DOMAIN q = 1 .. Len(q)
  BY LenProperties
<1>2. Len(q) # 0
  BY EmptySeq
<1>3. QED
  BY <1>1, <1>2

-----------------------------------------------------------------------------
(* FlattenSeq concatenates from the left. *)
LEMMA FlattenSteps ==
  ASSUME NEW S, NEW q \in Seq(Seq(S)), q # << >>
  PROVE  \E f \in [1 .. Len(q) -> Seq(S)] :
           /\ f[1] = q[1]
           /\ \A k \in 2 .. Len(q) : f[k] = f[k - 1] \o q[k]
           /\ FlattenSeq(q) = f[Len(q)]
<1> DEFINE N == Len(q)
           Grows(g, n) == /\ g \in [1 .. n -> Seq(S)]
                          /\ \A k \in 1 .. n : g[k] = IF k = 1 THEN q[k] ELSE g[k - 1] \o q[k]
           Exists(n) == \E g \in [1 .. n -> Seq(S)] : Grows(g, n)
           T == {n \in Nat : n <= N => Exists(n)}
<1>1. N \in Nat \ {0} /\ \A k \in 1 .. N : q[k] \in Seq(S)
  BY EmptySeq, ElementOfSeq
<1>2. 0 \in T
  <2>1. 1 .. 0 = {}
    OBVIOUS
  <2>2. [k \in 1 .. 0 |-> q[k]] \in [1 .. 0 -> Seq(S)]
    BY <2>1
  <2>3. Grows([k \in 1 .. 0 |-> q[k]], 0)
    BY <2>1, <2>2
  <2>4. QED
    BY <2>2, <2>3
<1>3. \A n \in Nat : n \in T => n + 1 \in T
  <2> SUFFICES ASSUME NEW n \in Nat, n \in T, n + 1 <= N PROVE Exists(n + 1)
    <3> HIDE DEF Exists, N
    <3> QED
      OBVIOUS
  <2>0. Exists(n)
    <3> HIDE DEF Exists
    <3> QED
      BY <1>1
  <2>1. PICK g \in [1 .. n -> Seq(S)] : Grows(g, n)
    BY <2>0
  <2> DEFINE h == [k \in 1 .. n + 1 |-> IF k <= n THEN g[k]
                                        ELSE IF k = 1 THEN q[k] ELSE g[n] \o q[k]]
  <2>2. h \in [1 .. n + 1 -> Seq(S)]
    <3> SUFFICES ASSUME NEW k \in 1 .. n + 1 PROVE h[k] \in Seq(S)
      OBVIOUS
    <3>1. CASE k <= n
      BY <3>1
    <3>2. CASE k > n /\ k = 1
      BY <3>2, <1>1
    <3>3. CASE k > n /\ k # 1
      <4>1. k = n + 1 /\ n \in 1 .. n /\ g[n] \in Seq(S) /\ q[k] \in Seq(S)
        BY <3>3, <1>1
      <4>2. g[n] \o q[k] \in Seq(S)
        BY <4>1, ConcatProperties
      <4>3. QED
        BY <3>3, <4>2
    <3>4. QED
      BY <3>1, <3>2, <3>3
  <2>3. ASSUME NEW k \in 1 .. n + 1
        PROVE  h[k] = IF k = 1 THEN q[k] ELSE h[k - 1] \o q[k]
    <3>1. CASE k <= n
      <4>1. k \in 1 .. n /\ h[k] = g[k]
        BY <3>1
      <4>2. g[k] = IF k = 1 THEN q[k] ELSE g[k - 1] \o q[k]
        BY <2>1, <4>1
      <4>3. k = 1 \/ h[k - 1] = g[k - 1]
        BY <4>1
      <4>4. QED
        BY <4>1, <4>2, <4>3
    <3>2. CASE k > n
      <4>1. k = n + 1 /\ (k = 1 \/ (n \in 1 .. n + 1 /\ k - 1 = n /\ h[n] = g[n]))
        BY <3>2
      <4>2. QED
        BY <3>2, <4>1
    <3>3. QED
      BY <3>1, <3>2
  <2>4. QED
    BY <2>2, <2>3
<1>4. PICK g \in [1 .. N -> Seq(S)] : Grows(g, N)
  <2>1. N \in T
    BY <1>1, <1>2, <1>3, NatSteps
  <2>2. QED
    BY <2>1, <1>1
<1> DEFINE f == CHOOSE f : f = [k \in 1 .. N |-> IF k = 1 THEN q[k] ELSE f[k - 1] \o q[k]]
<1>5. g = [k \in 1 .. N |-> IF k = 1 THEN q[k] ELSE g[k - 1] \o q[k]]
  BY <1>4
<1>6. f = [k \in 1 .. N |-> IF k = 1 THEN q[k] ELSE f[k - 1] \o q[k]]
  BY <1>5
<1>7. FlattenSeq(q) = f[N]
  BY <1>1 DEF FlattenSeq
<1> HIDE DEF f
<1>8. f[1] = q[1] /\ \A k \in 2 .. N : f[k] = f[k - 1] \o q[k]
  <2>1. \A k \in 1 .. N : f[k] = IF k = 1 THEN q[k] ELSE f[k - 1] \o q[k]
    BY <1>6
  <2>2. 1 \in 1 .. N /\ \A k \in 2 .. N : k \in 1 .. N /\ k # 1
    BY <1>1
  <2> HIDE DEF N
  <2>3. QED
    BY <2>1, <2>2
<1> DEFINE U == {n \in Nat : n \in 1 .. N => f[n] \in Seq(S)}
<1>9. 0 \in U
  OBVIOUS
<1>10. \A n \in Nat : n \in U => n + 1 \in U
  <2> SUFFICES ASSUME NEW n \in Nat, n \in U, n + 1 \in 1 .. N PROVE f[n + 1] \in Seq(S)
    OBVIOUS
  <2>1. CASE n = 0
    BY <2>1, <1>1, <1>8
  <2>2. CASE n # 0
    <3>1. n \in 1 .. N /\ n + 1 \in 2 .. N /\ (n + 1) - 1 = n /\ f[n] \in Seq(S) /\ q[n + 1] \in Seq(S)
      BY <2>2, <1>1
    <3>2. f[n + 1] = f[n] \o q[n + 1]
      BY <3>1, <1>8
    <3>3. QED
      BY <3>1, <3>2, ConcatProperties
  <2>3. QED
    BY <2>1, <2>2
<1>11. \A n \in 1 .. N : f[n] \in Seq(S)
  <2>1. Nat \subseteq U
    BY <1>9, <1>10, NatSteps
  <2>2. QED
    BY <2>1
<1>12. f \in [1 .. N -> Seq(S)]
  BY <1>6, <1>11
<1>13. QED
  BY <1>7, <1>8, <1>12
-----------------------------------------------------------------------------
(* Where the parts of a flattened sequence stand in it: part k behind o[k]   *)
(* elements, one part behind the other, and nothing else.                    *)
Placed(q, flat, o) ==
    /\ o \in [DOMAIN q -> Nat]
    /\ \A k \in DOMAIN q : \A j \in DOMAIN q[k] :
         o[k] + j \in DOMAIN flat /\ flat[o[k] + j] = q[k][j]
    /\ \A k, l \in DOMAIN q : k < l => o[k] + Len(q[k]) <= o[l]
    /\ \A i \in DOMAIN flat : \E k \in DOMAIN q : \E j \in DOMAIN q[k] : i = o[k] + j

(* The first n parts, as far as they are flattened in f[n]. *)
FirstPlaces(q, f, o, n) ==
    /\ \A k \in 1 .. n : /\ o[k] + Len(q[k]) <= Len(f[n])
                         /\ \A j \in 1 .. Len(q[k]) : f[n][o[k] + j] = q[k][j]
    /\ \A i \in 1 .. Len(f[n]) : \E k \in 1 .. n : \E j \in 1 .. Len(q[k]) : i = o[k] + j

LEMMA NextPlace ==
  ASSUME NEW S, NEW q \in Seq(Seq(S)), NEW n \in Nat \ {0}, n + 1 <= Len(q),
         NEW f \in [1 .. Len(q) -> Seq(S)], f[n + 1] = f[n] \o q[n + 1],
         NEW o \in [1 .. Len(q) -> Nat], o[n + 1] = Len(f[n]),
         FirstPlaces(q, f, o, n)
  PROVE  FirstPlaces(q, f, o, n + 1)
<1> DEFINE a == f[n]
           b == q[n + 1]
<1>1. /\ a \in Seq(S) /\ b \in Seq(S) /\ Len(a) \in Nat /\ Len(b) \in Nat
      /\ \A k \in 1 .. n + 1 : q[k] \in Seq(S) /\ Len(q[k]) \in Nat /\ o[k] \in Nat
  <2>1. Len(q) \in Nat /\ \A k \in 1 .. n + 1 : k \in 1 .. Len(q)
    BY LenProperties
  <2>2. \A k \in 1 .. n + 1 : q[k] \in Seq(S) /\ o[k] \in Nat
    BY <2>1, ElementOfSeq
  <2>3. n \in 1 .. Len(q) /\ n + 1 \in 1 .. n + 1
    BY <2>1
  <2>4. a \in Seq(S) /\ b \in Seq(S)
    BY <2>2, <2>3
  <2>5. QED
    BY <2>2, <2>4, LenProperties
<1>2. /\ Len(a \o b) = Len(a) + Len(b)
      /\ \A j \in 1 .. Len(a) : (a \o b)[j] = a[j]
      /\ \A j \in 1 .. Len(b) : (a \o b)[Len(a) + j] = b[j]
  <2> HIDE DEF a, b
  <2>1. QED
    BY <1>1, ConcatProperties
<1>3. /\ \A k \in 1 .. n : /\ o[k] + Len(q[k]) <= Len(a)
                           /\ \A j \in 1 .. Len(q[k]) : a[o[k] + j] = q[k][j]
      /\ \A i \in 1 .. Len(a) : \E k \in 1 .. n : \E j \in 1 .. Len(q[k]) : i = o[k] + j
  BY DEF FirstPlaces
<1>4. f[n + 1] = a \o b /\ o[n + 1] = Len(a)
  OBVIOUS
<1>5a. b = q[n + 1]
  OBVIOUS
<1> HIDE DEF a, b
<1>5. ASSUME NEW k \in 1 .. n + 1
      PROVE  /\ o[k] + Len(q[k]) <= Len(a \o b)
             /\ \A j \in 1 .. Len(q[k]) : (a \o b)[o[k] + j] = q[k][j]
  <2>1. CASE k = n + 1
    <3>1. q[k] = b /\ o[k] = Len(a)
      BY <2>1, <1>4, <1>5a
    <3>2. QED
      BY <3>1, <1>1, <1>2
  <2>2. CASE k \in 1 .. n
    <3>1. o[k] + Len(q[k]) <= Len(a)
      BY <2>2, <1>3
    <3>2. ASSUME NEW j \in 1 .. Len(q[k])
          PROVE  o[k] + j \in 1 .. Len(a) /\ a[o[k] + j] = q[k][j]
      <4>1. o[k] \in Nat /\ Len(q[k]) \in Nat /\ Len(a) \in Nat
        BY <1>1
      <4>2. o[k] + j \in 1 .. Len(a)
        BY <4>1, <3>1, Within
      <4>3. QED
        BY <2>2, <4>2, <1>3
    <3>3. o[k] \in Nat /\ Len(q[k]) \in Nat
      BY <1>1
    <3>4. o[k] + Len(q[k]) <= Len(a \o b)
      BY SMTT(40), <3>1, <3>3, <1>1, <1>2
    <3>5. QED
      BY <3>2, <3>4, <1>2
  <2>3. k = n + 1 \/ k \in 1 .. n
    OBVIOUS
  <2>4. QED
    BY <2>1, <2>2, <2>3
<1>6. ASSUME NEW i \in 1 .. Len(a \o b)
      PROVE  \E k \in 1 .. n + 1 : \E j \in 1 .. Len(q[k]) : i = o[k] + j
  <2>1. CASE i <= Len(a)
    <3>1. i \in 1 .. Len(a)
      BY <2>1, <1>1, <1>2
    <3>2. PICK k \in 1 .. n : \E j \in 1 .. Len(q[k]) : i = o[k] + j
      BY <3>1, <1>3
    <3>3. k \in 1 .. n + 1
      OBVIOUS
    <3>4. QED
      BY <3>2, <3>3
  <2>2. CASE i > Len(a)
    <3>1. n + 1 \in 1 .. n + 1 /\ i - Len(a) \in 1 .. Len(b) /\ i = Len(a) + (i - Len(a))
      BY <2>2, <1>1, <1>2
    <3>2. q[n + 1] = b /\ o[n + 1] = Len(a)
      BY <1>4, <1>5a
    <3>3. QED
      BY <3>1, <3>2
  <2>3. QED
    BY <2>1, <2>2, <1>1, <1>2
<1>7. QED
  BY <1>4, <1>5, <1>6 DEF FirstPlaces

(* FlattenSeq puts the parts one behind the other. *)
LEMMA FlattenPlaces ==
  ASSUME NEW S, NEW q \in Seq(Seq(S))
  PROVE  /\ FlattenSeq(q) \in Seq(S)
         /\ \E o : Placed(q, FlattenSeq(q), o)
<1>1. CASE q = << >>
  <2>1. FlattenSeq(q) = << >>
    BY <1>1 DEF FlattenSeq
  <2>2. Placed(q, << >>, [k \in {} |-> 0])
    BY <1>1 DEF Placed
  <2>3. QED
    BY <2>1, <2>2
<1>2. CASE q # << >>
  <2> DEFINE N == Len(q)
  <2>1. N \in Nat \ {0} /\ DOMAIN q = 1 .. N /\ \A k \in 1 .. N : q[k] \in Seq(S) /\ DOMAIN q[k] = 1 .. Len(q[k])
    BY <1>2, EmptySeq, ElementOfSeq
  <2>2. PICK f \in [1 .. N -> Seq(S)] :
          /\ f[1] = q[1]
          /\ \A k \in 2 .. N : f[k] = f[k - 1] \o q[k]
          /\ FlattenSeq(q) = f[N]
    BY <1>2, FlattenSteps
  <2> DEFINE o == [k \in 1 .. N |-> IF k = 1 THEN 0 ELSE Len(f[k - 1])]
             T == {n \in Nat : n + 1 <= N => FirstPlaces(q, f, o, n + 1)}
  <2>3. o \in [1 .. N -> Nat] /\ o[1] = 0 /\ \A n \in 1 .. N - 1 : o[n + 1] = Len(f[n])
    BY <2>1, <2>2
  <2>3a. \A k \in 1 .. N : o[k] \in Nat /\ Len(q[k]) \in Nat
    <3>1. \A k \in 1 .. N : Len(q[k]) \in Nat
      BY <2>1, LenProperties
    <3> HIDE DEF o, N
    <3>2. \A k \in 1 .. N : o[k] \in Nat
      BY <2>3
    <3>3. QED
      BY <3>1, <3>2
  <2>4. 0 \in T
    <3>1. Len(q[1]) \in Nat
      BY <2>1
    <3>2. FirstPlaces(q, f, o, 1)
      BY <2>2, <2>3, <3>1 DEF FirstPlaces
    <3>3. QED
      BY <3>2
  <2> HIDE DEF o, N
  <2>5. \A n \in Nat : n \in T => n + 1 \in T
    <3> SUFFICES ASSUME NEW n \in Nat, n \in T, (n + 1) + 1 <= N
                 PROVE  FirstPlaces(q, f, o, (n + 1) + 1)
      OBVIOUS
    <3>1. n + 1 \in Nat \ {0} /\ n + 1 <= N /\ (n + 1) + 1 \in 2 .. N /\ n + 1 \in 1 .. N - 1
          /\ ((n + 1) + 1) - 1 = n + 1
      BY <2>1
    <3>2. FirstPlaces(q, f, o, n + 1)
      BY <3>1
    <3>3. f[(n + 1) + 1] = f[n + 1] \o q[(n + 1) + 1] /\ o[(n + 1) + 1] = Len(f[n + 1])
      BY <3>1, <2>2, <2>3
    <3> HIDE DEF T
    <3>4. QED
      BY <3>1, <3>2, <3>3, <2>2, <2>3, NextPlace DEF N
  <2>6. \A n \in 1 .. N : FirstPlaces(q, f, o, n)
    <3>1. Nat \subseteq T
      <4> HIDE DEF T
      <4> QED
        BY <2>4, <2>5, NatSteps
    <3>2. ASSUME NEW n \in 1 .. N PROVE FirstPlaces(q, f, o, n)
      <4>1. n - 1 \in Nat /\ (n - 1) + 1 = n /\ n <= N
        BY <2>1
      <4>2. QED
        BY <3>1, <4>1
    <3>3. QED
      BY <3>2
  <2>7. /\ FlattenSeq(q) = f[N] /\ f[N] \in Seq(S) /\ DOMAIN f[N] = 1 .. Len(f[N])
        /\ Len(f[N]) \in Nat /\ N \in 1 .. N
    BY <2>1, <2>2
  <2>8. FirstPlaces(q, f, o, N)
    BY <2>6, <2>7
  <2>9. ASSUME NEW k \in 1 .. N, NEW j \in 1 .. Len(q[k])
        PROVE  o[k] + j \in 1 .. Len(f[N]) /\ f[N][o[k] + j] = q[k][j]
    <3>1. o[k] \in Nat /\ Len(q[k]) \in Nat
      BY <2>1, <2>3a
    <3>2. o[k] + Len(q[k]) <= Len(f[N]) /\ f[N][o[k] + j] = q[k][j]
      BY <2>8 DEF FirstPlaces
    <3>3. o[k] + j \in 1 .. Len(f[N])
      BY <2>7, <3>1, <3>2, Within
    <3>4. QED
      BY <3>2, <3>3
  <2>10. ASSUME NEW k \in 1 .. N, NEW l \in 1 .. N, k < l
         PROVE  o[k] + Len(q[k]) <= o[l]
    <3>1. l - 1 \in 1 .. N /\ k \in 1 .. l - 1 /\ l - 1 \in 1 .. N - 1 /\ (l - 1) + 1 = l
      BY <2>1, <2>10
    <3>2. o[l] = Len(f[l - 1])
      BY <2>3, <3>1
    <3>3. FirstPlaces(q, f, o, l - 1)
      BY <2>6, <3>1
    <3>4. QED
      BY <3>1, <3>2, <3>3 DEF FirstPlaces
  <2>11. ASSUME NEW i \in 1 .. Len(f[N])
         PROVE  \E k \in 1 .. N : \E j \in 1 .. Len(q[k]) : i = o[k] + j
    BY <2>8 DEF FirstPlaces
  <2>12. Placed(q, f[N], o)
    <3>1. \A k \in 1 .. N : DOMAIN q[k] = 1 .. Len(q[k])
      BY <2>1
    <3>2. DOMAIN q = 1 .. N /\ DOMAIN f[N] = 1 .. Len(f[N])
      BY <2>1, <2>7
    <3>3. \A k \in DOMAIN q : \A j \in DOMAIN q[k] :
            o[k] + j \in DOMAIN f[N] /\ f[N][o[k] + j] = q[k][j]
      BY <3>1, <3>2, <2>9
    <3>4. \A k, l \in DOMAIN q : k < l => o[k] + Len(q[k]) <= o[l]
      BY <3>2, <2>10
    <3>5. \A i \in DOMAIN f[N] : \E k \in DOMAIN q : \E j \in DOMAIN q[k] : i = o[k] + j
      BY <3>1, <3>2, <2>11
    <3>6. o \in [DOMAIN q -> Nat]
      BY <3>2, <2>3
    <3>7. QED
      BY <3>3, <3>4, <3>5, <3>6 DEF Placed
  <2>13. QED
    BY <2>7, <2>12
<1>3. QED
  BY <1>1, <1>2

(* The elements in front of place i. *)
InFrontOf(p, i) == {p[j] : j \in 1 .. i - 1}

(* In front of an element of a flattened sequence stands what is in front of *)
(* it in its own part, and every part in front of that one.                  *)
LEMMA FlattenBefore ==
  ASSUME NEW S, NEW q \in Seq(Seq(S)), NEW i \in DOMAIN FlattenSeq(q)
  PROVE  \E k \in DOMAIN q : \E j \in DOMAIN q[k] :
           /\ FlattenSeq(q)[i] = q[k][j]
           /\ InFrontOf(q[k], j) \subseteq InFrontOf(FlattenSeq(q), i)
           /\ \A l \in 1 .. k - 1 : ToSet(q[l]) \subseteq InFrontOf(FlattenSeq(q), i)
<1> DEFINE flat == FlattenSeq(q)
<1>1. flat \in Seq(S) /\ \E o : Placed(q, flat, o)
  BY FlattenPlaces
<1>2. PICK o : Placed(q, flat, o)
  BY <1>1
<1> HIDE DEF flat
<1>3. /\ DOMAIN q = 1 .. Len(q) /\ Len(q) \in Nat /\ DOMAIN flat = 1 .. Len(flat) /\ Len(flat) \in Nat
      /\ \A k \in DOMAIN q : /\ q[k] \in Seq(S) /\ Len(q[k]) \in Nat /\ DOMAIN q[k] = 1 .. Len(q[k])
                             /\ o[k] \in Nat
  BY <1>1, <1>2, LenProperties, ElementOfSeq DEF Placed
<1>0. PICK k \in DOMAIN q : \E j \in DOMAIN q[k] : i = o[k] + j
  BY <1>2 DEF Placed, flat
<1>4. PICK j \in DOMAIN q[k] : i = o[k] + j
  BY <1>0
<1>5. /\ \A l \in DOMAIN q : \A x \in DOMAIN q[l] :
           o[l] + x \in DOMAIN flat /\ flat[o[l] + x] = q[l][x]
      /\ \A l \in DOMAIN q : l < k => o[l] + Len(q[l]) <= o[k]
  BY <1>2 DEF Placed
<1>6. flat[i] = q[k][j]
  BY <1>4, <1>5
<1>7. ASSUME NEW l \in DOMAIN q, NEW x \in DOMAIN q[l], o[l] + x < i
      PROVE  q[l][x] \in InFrontOf(flat, i)
  <2>1. o[l] + x \in 1 .. i - 1 /\ flat[o[l] + x] = q[l][x]
    <3>1. o[l] + x \in 1 .. Len(flat) /\ flat[o[l] + x] = q[l][x]
      BY Zenon, <1>3, <1>5
    <3>2. i \in 1 .. Len(flat)
      BY <1>3 DEF flat
    <3>3. o[l] + x \in 1 .. i - 1
      BY <3>1, <3>2, <1>3, <1>7, InFront
    <3>4. QED
      BY <3>1, <3>3
  <2>2. QED
    BY <2>1 DEF InFrontOf
<1>8. InFrontOf(q[k], j) \subseteq InFrontOf(flat, i)
  <2>1. ASSUME NEW x \in 1 .. j - 1 PROVE q[k][x] \in InFrontOf(flat, i)
    <3>1. j \in 1 .. Len(q[k]) /\ Len(q[k]) \in Nat /\ o[k] \in Nat /\ DOMAIN q[k] = 1 .. Len(q[k])
      BY <1>3
    <3>2. x \in 1 .. Len(q[k]) /\ o[k] + x < o[k] + j
      BY <3>1
    <3>3. x \in DOMAIN q[k] /\ o[k] + x < i
      BY <3>1, <3>2, <1>4
    <3>4. QED
      BY <3>3, <1>7
  <2>2. QED
    BY <2>1 DEF InFrontOf
<1>9. ASSUME NEW l \in 1 .. k - 1 PROVE ToSet(q[l]) \subseteq InFrontOf(flat, i)
  <2>1. ASSUME NEW x \in DOMAIN q[l] PROVE q[l][x] \in InFrontOf(flat, i)
    <3>1. l \in DOMAIN q /\ l < k
      BY <1>3
    <3>2. o[l] + Len(q[l]) <= o[k] /\ o[l] \in Nat /\ x \in 1 .. Len(q[l]) /\ Len(q[l]) \in Nat
      BY <3>1, <1>3, <1>5
    <3>3. o[k] \in Nat /\ j \in Nat /\ j >= 1
      BY <1>3
    <3>4. o[l] + x < i
      <4>1. ASSUME NEW a \in Nat, NEW b \in Nat, NEW c \in Nat, NEW n \in Nat, NEW y \in 1 .. n,
                   a + n <= b, c >= 1
            PROVE  a + y < b + c
        BY <4>1
      <4>2. QED
        BY <4>1, <3>2, <3>3, <1>4
    <3>5. QED
      BY <3>1, <3>4, <1>7
  <2>2. QED
    BY <2>1 DEF ToSet
<1>10. QED
  BY <1>4, <1>6, <1>8, <1>9 DEF flat
=============================================================================
