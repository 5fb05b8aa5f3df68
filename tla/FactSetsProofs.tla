----------------------------- MODULE FactSetsProofs -----------------------------
(***************************************************************************)
(* Theorems about module FactSets, for any number of facts, sources and    *)
(* selectors, and any fields.                                              *)
(***************************************************************************)
EXTENDS FactSets, FiniteSetTheorems, WellFoundedInduction, TLAPS

(* A set that has 0 and with each number the next one has all up to N. *)
LEMMA UpTo ==
  ASSUME NEW N \in Nat, NEW S, 0 \in S, \A n \in 1 .. N : n - 1 \in S => n \in S
  PROVE  \A n \in 0 .. N : n \in S
<1> SUFFICES ASSUME NEW m \in 0 .. N, m \notin S PROVE FALSE
  OBVIOUS
<1> DEFINE R == {ss \in Nat \X Nat : ss[1] < ss[2]}
           T == (0 .. N) \ S
<1>1. IsWellFoundedOn(R, Nat)
  BY NatLessThanWellFounded DEF OpToRel
<1>2. PICK n \in T : \A j \in T : ~(<<j, n>> \in R)
  <2>1. T \subseteq Nat /\ m \in T
    OBVIOUS
  <2> HIDE DEF R, T
  <2> QED
    BY <1>1, <2>1, WFMin
<1>3. n \in 1 .. N /\ n - 1 \in 0 .. N /\ n \notin S
  OBVIOUS
<1>4. n - 1 \in S
  <2>1. <<n - 1, n>> \in R
    BY <1>3
  <2>2. ~(n - 1 \in T)
    <3> HIDE DEF R
    <3> QED
      BY <1>2, <2>1
  <2> QED
    BY <1>3, <2>2
<1> QED
  BY <1>3, <1>4

(* A loop over 1 .. N whose progress is in V and whose body is F. *)
IsLoop(g, N, V, B, F) ==
  /\ g \in [0 .. N -> V] /\ g[0] = B
  /\ \A n \in 1 .. N : g[n] = F[<<n, g[n - 1]>>]

LEMMA LoopExists ==
  ASSUME NEW N \in Nat, NEW V, NEW B \in V, NEW F \in [(1 .. N) \X V -> V]
  PROVE  \E g : IsLoop(g, N, V, B, F)
<1> DEFINE Loop(m, g) == IsLoop(g, m, V, B, F)
           S == {m \in 0 .. N : \E g : Loop(m, g)}
<1> USE DEF IsLoop
<1>1. 0 \in S
  <2>1. Loop(0, [n \in 0 .. 0 |-> B])
    OBVIOUS
  <2> HIDE DEF Loop
  <2> QED
    BY <2>1
<1>2. ASSUME NEW m \in 1 .. N, m - 1 \in S PROVE m \in S
  <2>1. PICK g : Loop(m - 1, g)
    BY <1>2
  <2> DEFINE last == F[<<m, g[m - 1]>>]
             h == [n \in 0 .. m |-> IF n = m THEN last ELSE g[n]]
  <2>2. g[m - 1] \in V /\ last \in V
    BY <2>1
  <2>3. h \in [0 .. m -> V] /\ h[0] = B /\ h[m] = last
    <3> HIDE DEF last
    <3> QED
      BY <2>1, <2>2
  <2>4. ASSUME NEW n \in 1 .. m PROVE h[n] = F[<<n, h[n - 1]>>]
    <3>1. h[n - 1] = g[n - 1]
      BY <2>1
    <3>2. CASE n = m
      BY <2>3, <3>1, <3>2
    <3>3. CASE n # m
      <4>1. n \in 1 .. m - 1 /\ h[n] = g[n]
        BY <3>3
      <4> QED
        BY <2>1, <3>1, <4>1
    <3> QED
      BY <3>2, <3>3
  <2>5. Loop(m, h)
    <3> HIDE DEF h, last
    <3> QED
      BY <2>3, <2>4
  <2> HIDE DEF h, Loop
  <2> QED
    BY <2>5
<1>3. N \in S
  <2> HIDE DEF S
  <2> QED
    BY <1>1, <1>2, UpTo
<1> QED
  BY <1>3

-------------------------------------------------------------------------------
(* Sequences of ids. *)

Increasing(ids) == \A a, b \in 1 .. Len(ids) : a < b => ids[a] < ids[b]

IsPacking(g, ids, S) ==
  /\ g[0] = <<>>
  /\ \A n \in 1 .. Len(ids) :
       g[n] = IF ids[n] \in S THEN Append(g[n - 1], ids[n]) ELSE g[n - 1]

LEMMA PackingExists ==
  ASSUME NEW ids \in Seq(Nat), NEW S
  PROVE  \E g : IsPacking(g, ids, S) /\ Packed(ids, S) = g[Len(ids)]
<1> DEFINE N == Len(ids)
           V == Seq(Nat)
           B == <<>>
           body(p, n) == IF ids[n] \in S THEN Append(p, ids[n]) ELSE p
           F == [x \in (1 .. N) \X V |-> body(x[2], x[1])]
           Is(g) == g = [n \in 0 .. N |-> IF n = 0 THEN <<>> ELSE body(g[n - 1], n)]
<1>1. N \in Nat /\ B \in V /\ F \in [(1 .. N) \X V -> V]
  OBVIOUS
<1>2. \A n \in 1 .. N, p \in V : F[<<n, p>>] = body(p, n)
  <2> HIDE DEF body, V, N
  <2> QED
    OBVIOUS
<1>3. PICK g : IsLoop(g, N, V, B, F)
  <2> HIDE DEF F, V, N, B
  <2> QED
    BY <1>1, LoopExists
<1>4. Is(g)
  <2> HIDE DEF F, body, V, N
  <2>1. ASSUME NEW n \in 1 .. N PROVE g[n] = body(g[n - 1], n)
    <3>1. n - 1 \in 0 .. N
      BY <1>1
    <3>2. g[n - 1] \in V /\ g[n] = F[<<n, g[n - 1]>>]
      BY <1>3, <3>1 DEF IsLoop
    <3> QED
      BY <1>2, <3>2
  <2> QED
    BY <1>1, <1>3, <2>1 DEF IsLoop
<1>5. PICK h : h = (CHOOSE f : Is(f))
  OBVIOUS
<1>6. Is(h)
  <2> HIDE DEF Is
  <2> QED
    BY <1>4, <1>5
<1>7. Packed(ids, S) = h[N]
  BY <1>5 DEF Packed
<1>8. h[0] = <<>> /\ \A n \in 1 .. N : h[n] = body(h[n - 1], n)
  <2> HIDE DEF body, N
  <2> QED
    BY <1>1, <1>6
<1> QED
  BY <1>7, <1>8 DEF IsPacking

(* What is packed is the ids in S, in the same order. *)
LEMMA PackedIs ==
  ASSUME NEW ids \in Seq(Nat), NEW S
  PROVE  /\ Packed(ids, S) \in Seq(Nat)
         /\ ToSet(Packed(ids, S)) = ToSet(ids) \cap S
         /\ Increasing(ids) => Increasing(Packed(ids, S))
<1> DEFINE N == Len(ids)
           Taken(n) == {ids[i] : i \in 1 .. n} \cap S
           OK(p, n) == /\ p \in Seq(Nat)
                       /\ \A a \in 1 .. Len(p) : p[a] \in Taken(n)
                       /\ \A x \in Taken(n) : \E a \in 1 .. Len(p) : p[a] = x
                       /\ Increasing(ids) => Increasing(p)
<1>1. PICK g : IsPacking(g, ids, S) /\ Packed(ids, S) = g[N]
  BY PackingExists
<1>2. N \in Nat /\ \A n \in 1 .. N : ids[n] \in Nat
  OBVIOUS
<1> DEFINE A == {n \in 0 .. N : OK(g[n], n)}
<1>3. 0 \in A
  <2>1. OK(<<>>, 0)
    BY DEF Increasing
  <2>2. g[0] = <<>> /\ 0 \in 0 .. N
    BY <1>1, <1>2 DEF IsPacking
  <2> HIDE DEF OK
  <2> QED
    BY <2>1, <2>2
<1>4. ASSUME NEW n \in 1 .. N, n - 1 \in A PROVE n \in A
  <2>1. PICK p : p = g[n - 1]
    OBVIOUS
  <2>2. OK(p, n - 1) /\ n - 1 \in 0 .. N
    BY <1>4, <2>1
  <2>3. Taken(n) = Taken(n - 1) \cup ({ids[n]} \cap S)
    BY <1>2
  <2>4. CASE ids[n] \notin S
    <3>1. g[n] = p /\ Taken(n) = Taken(n - 1)
      <4> HIDE DEF Taken
      <4> QED
        BY <1>1, <2>1, <2>3, <2>4 DEF IsPacking
    <3>2. OK(p, n)
      <4> HIDE DEF Taken
      <4> QED
        BY <2>2, <3>1
    <3> HIDE DEF OK
    <3> QED
      BY <3>1, <3>2
  <2>5. CASE ids[n] \in S
    <3>1. g[n] = Append(p, ids[n]) /\ Taken(n) = Taken(n - 1) \cup {ids[n]}
      <4> HIDE DEF Taken
      <4> QED
        BY <1>1, <2>1, <2>3, <2>5 DEF IsPacking
    <3>2. PICK q : q = g[n]
      OBVIOUS
    <3>3. /\ q \in Seq(Nat) /\ Len(p) \in Nat /\ Len(q) = Len(p) + 1
          /\ q[Len(p) + 1] = ids[n] /\ \A a \in 1 .. Len(p) : q[a] = p[a]
      BY <1>2, <2>2, <3>1, <3>2
    <3>4. ASSUME NEW a \in 1 .. Len(q) PROVE q[a] \in Taken(n)
      <4>1. a \in 1 .. Len(p) \/ a = Len(p) + 1
        BY <3>3
      <4> HIDE DEF Taken
      <4> QED
        BY <2>2, <3>1, <3>3, <4>1
    <3>5. \A x \in Taken(n) : \E a \in 1 .. Len(q) : q[a] = x
      <4> SUFFICES ASSUME NEW x \in Taken(n) PROVE \E a \in 1 .. Len(q) : q[a] = x
        OBVIOUS
      <4> HIDE DEF Taken
      <4>1. CASE x = ids[n]
        BY <3>3, <4>1
      <4>2. CASE x # ids[n]
        <5>1. PICK a \in 1 .. Len(p) : p[a] = x
          BY <2>2, <3>1, <4>2
        <5> QED
          BY <3>3, <5>1
      <4> QED
        BY <4>1, <4>2
    <3>6. ASSUME Increasing(ids) PROVE Increasing(q)
      <4>1. \A a \in 1 .. Len(p) : p[a] < ids[n]
        <5> SUFFICES ASSUME NEW a \in 1 .. Len(p) PROVE p[a] < ids[n]
          OBVIOUS
        <5>1. p[a] \in Taken(n - 1)
          BY <2>2
        <5>2. PICK i \in 1 .. n - 1 : p[a] = ids[i]
          BY <5>1
        <5> QED
          BY <1>2, <3>6, <5>2 DEF Increasing
      <4>2. Increasing(p)
        BY <2>2, <3>6
      <4>3. SUFFICES ASSUME NEW a \in 1 .. Len(q), NEW b \in 1 .. Len(q), a < b
                     PROVE  q[a] < q[b]
        BY DEF Increasing
      <4>4. a \in 1 .. Len(p) /\ (b \in 1 .. Len(p) \/ b = Len(p) + 1)
        <5>1. PICK m : m = Len(p)
          OBVIOUS
        <5>2. m \in Nat /\ a \in 1 .. m + 1 /\ b \in 1 .. m + 1 /\ a < b
          BY <3>3, <4>3, <5>1
        <5>3. a \in 1 .. m /\ (b \in 1 .. m \/ b = m + 1)
          BY <5>2
        <5> QED
          BY <5>1, <5>3
      <4>5. CASE b \in 1 .. Len(p)
        BY <3>3, <4>2, <4>3, <4>4, <4>5 DEF Increasing
      <4>6. CASE b = Len(p) + 1
        BY <3>3, <4>1, <4>4, <4>6
      <4> QED
        BY <4>4, <4>5, <4>6
    <3>7. OK(q, n)
      <4> HIDE DEF Taken
      <4> QED
        BY <3>3, <3>4, <3>5, <3>6
    <3> HIDE DEF OK
    <3> QED
      BY <3>2, <3>7
  <2> QED
    BY <2>4, <2>5
<1>5. N \in 0 .. N
  BY <1>2
<1>6. OK(g[N], N)
  <2>1. N \in A
    <3> HIDE DEF A
    <3> QED
      BY <1>2, <1>3, <1>4, <1>5, UpTo
  <2> HIDE DEF OK
  <2> QED
    BY <2>1
<1>7. Taken(N) = ToSet(ids) \cap S
  BY <1>2 DEF ToSet
<1>8. PICK p : p = Packed(ids, S)
  OBVIOUS
<1>9. OK(p, N)
  <2> HIDE DEF OK
  <2> QED
    BY <1>1, <1>6, <1>8
<1>10. ToSet(p) = Taken(N)
  <2>1. DOMAIN p = 1 .. Len(p)
    BY <1>9
  <2> HIDE DEF Taken
  <2> QED
    BY <1>9, <2>1 DEF ToSet
<1> QED
  <2> HIDE DEF Taken
  <2> QED
    BY <1>7, <1>8, <1>9, <1>10

LEMMA PackedAll ==
  ASSUME NEW ids \in Seq(Nat), NEW S, ToSet(ids) \subseteq S
  PROVE  Packed(ids, S) = ids
<1> DEFINE N == Len(ids)
           OK(p, n) == p \in Seq(Nat) /\ Len(p) = n /\ \A a \in 1 .. n : p[a] = ids[a]
<1>1. PICK g : IsPacking(g, ids, S) /\ Packed(ids, S) = g[N]
  BY PackingExists
<1>2. N \in Nat /\ \A n \in 1 .. N : ids[n] \in Nat /\ ids[n] \in S
  BY DEF ToSet
<1> DEFINE A == {n \in 0 .. N : OK(g[n], n)}
<1>3. 0 \in A
  <2>1. OK(<<>>, 0)
    OBVIOUS
  <2>2. g[0] = <<>> /\ 0 \in 0 .. N
    BY <1>1, <1>2 DEF IsPacking
  <2> HIDE DEF OK
  <2> QED
    BY <2>1, <2>2
<1>4. ASSUME NEW n \in 1 .. N, n - 1 \in A PROVE n \in A
  <2>1. PICK p : p = g[n - 1]
    OBVIOUS
  <2>2. OK(p, n - 1)
    BY <1>4, <2>1
  <2>3. PICK q : q = Append(p, ids[n])
    OBVIOUS
  <2>4. g[n] = q
    BY <1>1, <1>2, <2>1, <2>3 DEF IsPacking
  <2>5. OK(q, n)
    BY <1>2, <2>2, <2>3
  <2> HIDE DEF OK
  <2> QED
    BY <2>4, <2>5
<1>5. N \in A
  <2>1. N \in 0 .. N
    BY <1>2
  <2> HIDE DEF A
  <2> QED
    BY <1>2, <1>3, <1>4, <2>1, UpTo
<1>6. PICK p : p = Packed(ids, S)
  OBVIOUS
<1>7. OK(p, N)
  <2> HIDE DEF OK
  <2> QED
    BY <1>1, <1>5, <1>6
<1>8. p = [n \in 1 .. N |-> p[n]] /\ ids = [n \in 1 .. N |-> ids[n]]
  BY <1>7
<1>9. \A n \in 1 .. N : p[n] = ids[n]
  BY <1>7
<1>10. p = ids
  BY <1>8, <1>9
<1> QED
  BY <1>6, <1>10

-------------------------------------------------------------------------------
(* FILTER. *)

(* The states in which an assignment begins. *)
Ready == /\ facts \in Seq(Contents)
         /\ store \in Seq(Nat) /\ ToSet(store) \subseteq DOMAIN facts /\ Increasing(store)

Filterings == [ids : Seq(Nat), raised : BOOLEAN]

LEMMA FilterPassTyped ==
  ASSUME NEW g \in Filterings, NEW sel
  PROVE  FilterPass(sel, g) \in Filterings
<1>1. Packed(g.ids, {i \in DOMAIN facts : Kept(sel, facts[i])}) \in Seq(Nat)
  BY PackedIs DEF Filterings
<1> QED
  BY <1>1 DEF FilterPass, Filterings

IsFiltering(g, filter) ==
  /\ g[0] = [ids |-> store, raised |-> FALSE]
  /\ \A n \in 1 .. Len(filter) :
       g[n] = FilterPass(filter[Len(filter) + 1 - n], g[n - 1])

LEMMA FilteringExists ==
  ASSUME NEW filter \in Seq(Selectors), Ready
  PROVE  \E g : IsFiltering(g, filter) /\ Filtered(filter) = g[Len(filter)]
<1> DEFINE N == Len(filter)
           B == [ids |-> store, raised |-> FALSE]
           body(p, n) == FilterPass(filter[N + 1 - n], p)
           F == [x \in (1 .. N) \X Filterings |-> body(x[2], x[1])]
           Is(g) == g = [n \in 0 .. N |-> IF n = 0 THEN B ELSE body(g[n - 1], n)]
<1>1. N \in Nat /\ B \in Filterings /\ F \in [(1 .. N) \X Filterings -> Filterings]
  BY FilterPassTyped DEF Ready, Filterings
<1>2. \A n \in 1 .. N, p \in Filterings : F[<<n, p>>] = body(p, n)
  <2> HIDE DEF body, N
  <2> QED
    OBVIOUS
<1>3. PICK g : IsLoop(g, N, Filterings, B, F)
  <2> HIDE DEF F, N, B
  <2> QED
    BY <1>1, LoopExists
<1>4. Is(g)
  <2> HIDE DEF F, body, N, B
  <2>1. ASSUME NEW n \in 1 .. N PROVE g[n] = body(g[n - 1], n)
    <3>1. n - 1 \in 0 .. N
      BY <1>1
    <3>2. g[n - 1] \in Filterings /\ g[n] = F[<<n, g[n - 1]>>]
      BY <1>3, <3>1 DEF IsLoop
    <3> QED
      BY <1>2, <3>2
  <2> QED
    BY <1>1, <1>3, <2>1 DEF IsLoop
<1>5. PICK h : h = (CHOOSE f : Is(f))
  OBVIOUS
<1>6. Is(h)
  <2> HIDE DEF Is
  <2> QED
    BY <1>4, <1>5
<1>7. Filtered(filter) = h[N]
  BY <1>5 DEF Filtered
<1>8. h[0] = B /\ \A n \in 1 .. N : h[n] = body(h[n - 1], n)
  <2> HIDE DEF body, N, B
  <2> QED
    BY <1>1, <1>6
<1> QED
  BY <1>7, <1>8 DEF IsFiltering

(* A filter that does not raise leaves the facts that all selectors keep,  *)
(* and it does not if none of the values compared differs in type.         *)
LEMMA FilterMeans ==
  ASSUME Ready, NEW s, s.filter \in Seq(Selectors)
  PROVE  /\ Destinations(s) \in Seq(Nat) /\ Increasing(Destinations(s))
         /\ ToSet(Destinations(s)) \subseteq ToSet(store)
         /\ ~Filtered(s.filter).raised => ToSet(Destinations(s)) = Selected(s)
         /\ Comparable(s) => ~Filtered(s.filter).raised
<1> DEFINE filter == s.filter
           N == Len(filter)
           Left(n) == {i \in ToSet(store) : \A m \in (N + 1 - n) .. N : Kept(filter[m], facts[i])}
           OK(p, n) == /\ p \in Filterings /\ Increasing(p.ids)
                       /\ ToSet(p.ids) \subseteq ToSet(store)
                       /\ ~p.raised => ToSet(p.ids) = Left(n)
                       /\ Comparable(s) => ~p.raised
<1>1. PICK g : IsFiltering(g, filter) /\ Filtered(filter) = g[N]
  BY FilteringExists
<1>2. N \in Nat /\ DOMAIN filter = 1 .. N
  OBVIOUS
<1> DEFINE A == {n \in 0 .. N : OK(g[n], n)}
<1>3. 0 \in A
  <2> DEFINE p == [ids |-> store, raised |-> FALSE]
  <2>1. Left(0) = ToSet(store)
    BY <1>2
  <2>2. p \in Filterings /\ p.ids = store /\ ~p.raised
    BY DEF Ready, Filterings
  <2>3. OK(p, 0)
    <3> HIDE DEF Left, p
    <3> QED
      BY <2>1, <2>2 DEF Ready
  <2>4. g[0] = p /\ 0 \in 0 .. N
    BY <1>1, <1>2 DEF IsFiltering
  <2> HIDE DEF OK, p
  <2> QED
    BY <2>3, <2>4
<1>4. ASSUME NEW n \in 1 .. N, n - 1 \in A PROVE n \in A
  <2>1. PICK p : p = g[n - 1]
    OBVIOUS
  <2>2. PICK j : j = N + 1 - n
    OBVIOUS
  <2>3. OK(p, n - 1)
    BY <1>4, <2>1
  <2>4. j \in 1 .. N /\ g[n] = FilterPass(filter[j], p)
    BY <1>1, <1>2, <2>1, <2>2 DEF IsFiltering
  <2> DEFINE S == {i \in DOMAIN facts : Kept(filter[j], facts[i])}
             q == Packed(p.ids, S)
  <2>5. Left(n) = Left(n - 1) \cap S
    <3>1. (N + 1 - n) .. N = {j} \cup ((N + 1 - (n - 1)) .. N)
      BY <1>2, <2>2
    <3>2. ToSet(store) \subseteq DOMAIN facts
      BY DEF Ready
    <3> QED
      BY <3>1, <3>2
  <2>6. q \in Seq(Nat) /\ Increasing(q) /\ ToSet(q) = ToSet(p.ids) \cap S
    <3>1. p.ids \in Seq(Nat) /\ Increasing(p.ids)
      BY <2>3 DEF Filterings
    <3> HIDE DEF S
    <3> QED
      BY <3>1, PackedIs
  <2>7. CASE p.raised \/ \E m \in DOMAIN p.ids : Clash(filter[j], facts[p.ids[m]])
    <3>1. g[n] = [p EXCEPT !.raised = TRUE]
      BY <2>4, <2>7 DEF FilterPass
    <3>2. ~Comparable(s)
      <4>1. CASE p.raised
        BY <2>3, <4>1
      <4>2. CASE \E m \in DOMAIN p.ids : Clash(filter[j], facts[p.ids[m]])
        <5>1. PICK m \in DOMAIN p.ids : Clash(filter[j], facts[p.ids[m]])
          BY <4>2
        <5>2. p.ids[m] \in ToSet(store)
          BY <2>3, <5>1 DEF ToSet
        <5> QED
          BY <1>2, <2>4, <5>1, <5>2 DEF Comparable
      <4> QED
        BY <2>7, <4>1, <4>2
    <3>3. OK(g[n], n)
      <4>1. g[n] \in Filterings /\ g[n].ids = p.ids /\ g[n].raised
        BY <2>3, <3>1 DEF Filterings
      <4> HIDE DEF Left
      <4> QED
        BY <2>3, <3>2, <4>1
    <3> HIDE DEF OK
    <3> QED
      BY <3>3
  <2>8. CASE ~(p.raised \/ \E m \in DOMAIN p.ids : Clash(filter[j], facts[p.ids[m]]))
    <3>1. g[n] = [p EXCEPT !.ids = q]
      BY <2>4, <2>8 DEF FilterPass
    <3>2. g[n] \in Filterings /\ g[n].ids = q /\ ~g[n].raised
      <4> HIDE DEF q
      <4> QED
        BY <2>3, <2>6, <2>8, <3>1 DEF Filterings
    <3>3. OK(g[n], n)
      <4> HIDE DEF Left, q, S
      <4> QED
        BY <2>3, <2>5, <2>6, <2>8, <3>2
    <3> HIDE DEF OK
    <3> QED
      BY <3>3
  <2> QED
    BY <2>7, <2>8
<1>5. N \in A
  <2>1. N \in 0 .. N
    BY <1>2
  <2> HIDE DEF A
  <2> QED
    BY <1>2, <1>3, <1>4, <2>1, UpTo
<1>6. PICK p : p = Filtered(filter)
  OBVIOUS
<1>7. OK(p, N)
  <2> HIDE DEF OK
  <2> QED
    BY <1>1, <1>5, <1>6
<1>8. Left(N) = Selected(s)
  BY <1>2 DEF Selected
<1>9. Destinations(s) = p.ids /\ Filtered(s.filter) = p
  BY <1>6 DEF Destinations
<1> QED
  <2> HIDE DEF Left
  <2> QED
    BY <1>7, <1>8, <1>9 DEF Filterings

-------------------------------------------------------------------------------
(* Numbers of ids, and of functions that are sequences. *)

LEMMA Counted ==
  ASSUME NEW d \in Seq(Nat), Increasing(d), NEW m \in 0 .. Len(d)
  PROVE  IsFiniteSet({d[a] : a \in 1 .. m}) /\ Cardinality({d[a] : a \in 1 .. m}) = m
<1> DEFINE T == {d[a] : a \in 1 .. m}
           f == [a \in 1 .. m |-> d[a]]
<1>1. m \in Nat /\ \A a \in 1 .. m : a \in 1 .. Len(d) /\ d[a] \in Nat
  OBVIOUS
<1>2. ASSUME NEW a \in 1 .. m, NEW b \in 1 .. m, d[a] = d[b] PROVE a = b
  <2>1. ~(a < b) /\ ~(b < a)
    BY <1>1, <1>2 DEF Increasing
  <2> QED
    BY <1>1, <2>1
<1>3. f \in Bijection(1 .. m, T)
  <2>1. f \in [1 .. m -> T]
    OBVIOUS
  <2>2. IsInjective(f)
    BY <1>2 DEF IsInjective
  <2>3. \A t \in T : \E a \in 1 .. m : f[a] = t
    OBVIOUS
  <2> QED
    BY <2>1, <2>2, <2>3 DEF Bijection, Injection, Surjection
<1>4. ExistsBijection(1 .. m, T)
  BY <1>3 DEF ExistsBijection
<1> QED
  BY <1>1, <1>4, FS_CountingElements, FS_NatBijection

(* The ids of a sequence are as many as its length, and so are those up to *)
(* one of them.                                                            *)
LEMMA PlaceIs ==
  ASSUME NEW d \in Seq(Nat), Increasing(d), NEW D, D = ToSet(d)
  PROVE  /\ IsFiniteSet(D) /\ Cardinality(D) = Len(d)
         /\ \A m \in 1 .. Len(d) : Cardinality({j \in D : j <= d[m]}) = m
<1>1. Len(d) \in Nat /\ \A a \in 1 .. Len(d) : d[a] \in Nat
  OBVIOUS
<1>2. D = {d[a] : a \in 1 .. Len(d)}
  BY DEF ToSet
<1>3. ASSUME NEW m \in 1 .. Len(d) PROVE {j \in D : j <= d[m]} = {d[a] : a \in 1 .. m}
  <2>1. ASSUME NEW a \in 1 .. Len(d) PROVE d[a] <= d[m] <=> a \in 1 .. m
    <3>1. a < m => d[a] < d[m]
      BY DEF Increasing
    <3>2. m < a => d[m] < d[a]
      BY DEF Increasing
    <3>3. d[a] \in Nat /\ d[m] \in Nat /\ a \in Nat /\ m \in Nat /\ a >= 1
      BY <1>1
    <3> QED
      BY <3>1, <3>2, <3>3
  <2>2. 1 .. m \subseteq 1 .. Len(d)
    BY <1>1
  <2> QED
    BY <1>2, <2>1, <2>2
<1>4. Len(d) \in 0 .. Len(d) /\ \A m \in 1 .. Len(d) : m \in 0 .. Len(d)
  BY <1>1
<1> QED
  BY <1>2, <1>3, <1>4, Counted

(* A set of numbers up to N that is not empty has a greatest one. *)
LEMMA GreatestIs ==
  ASSUME NEW N \in Nat, NEW S \in SUBSET (1 .. N), S # {}
  PROVE  Max(S) \in S /\ \A n \in S : n <= Max(S)
<1> DEFINE R == {ss \in Nat \X Nat : ss[1] < ss[2]}
           T == {N - n : n \in S}
<1>1. IsWellFoundedOn(R, Nat)
  BY NatLessThanWellFounded DEF OpToRel
<1>2. PICK t \in T : \A j \in T : ~(<<j, t>> \in R)
  <2>1. T \subseteq Nat
    OBVIOUS
  <2>2. PICK u : u \in T
    OBVIOUS
  <2> HIDE DEF R, T
  <2> QED
    BY <1>1, <2>1, <2>2, WFMin
<1>3. PICK x \in S : t = N - x
  OBVIOUS
<1>4. ASSUME NEW n \in S PROVE x >= n
  <2>1. N - n \in T /\ N - n \in Nat /\ t \in Nat
    BY <1>3
  <2>2. ~(N - n < t)
    BY <1>2, <2>1
  <2> QED
    BY <1>3, <2>2
<1>5. Max(S) \in S /\ \A n \in S : Max(S) >= n
  BY <1>3, <1>4 DEF Max
<1> QED
  BY <1>5

Files == [DOMAIN facts -> Contents]

LEMMA FilesAre ==
  ASSUME facts \in Seq(Contents)
  PROVE  /\ facts \in Files
         /\ \A f \in Files : f \in Seq(Contents) /\ Len(f) = Len(facts) /\ f \o <<>> = f
<1>1. Len(facts) \in Nat /\ DOMAIN facts = 1 .. Len(facts)
  OBVIOUS
<1>2. facts \in Files
  BY DEF Files
<1>3. ASSUME NEW f \in Files PROVE f \in Seq(Contents) /\ Len(f) = Len(facts)
  BY <1>1 DEF Files
<1>4. ASSUME NEW f \in Files PROVE f \o <<>> = f
  BY <1>3
<1> QED
  BY <1>2, <1>3, <1>4

-------------------------------------------------------------------------------
(* Work on facts. *)

Progress ==
  [facts : Files, touched : SUBSET ((DOMAIN facts) \X Fields), dst : Seq(Nat), nfact : Int,
   left : Seq(Contents), match : BOOLEAN, error : BOOLEAN]

LEMMA BeginTyped ==
  ASSUME facts \in Seq(Contents), NEW d \in Seq(Nat)
  PROVE  Begin(d) \in Progress /\ Failed(Begin(d)) \in Progress
<1>1. facts \in Files /\ Len(d) \in Int
  BY FilesAre
<1>2. Begin(d) \in Progress
  BY <1>1 DEF Begin, Progress
<1>3. ASSUME NEW st \in Progress PROVE Failed(st) \in Progress
  BY DEF Failed, Progress
<1> QED
  BY <1>2, <1>3

LEMMA WrittenTyped ==
  ASSUME NEW fact \in Contents, NEW src \in Contents, NEW partial \in BOOLEAN
  PROVE  /\ Written(partial, fact, src) \in Contents
         /\ \A k \in Fields : Written(partial, fact, src)[k] =
              IF partial /\ src[k] = Absent THEN fact[k] ELSE src[k]
<1>1. CASE partial
  <2>1. \A k \in Fields : (IF src[k] = Absent THEN fact[k] ELSE src[k]) \in Scalars \cup {Absent}
    BY DEF Contents
  <2> QED
    BY <1>1, <2>1 DEF Written, Contents
<1>2. CASE ~partial
  BY <1>2 DEF Written, Contents
<1> QED
  BY <1>1, <1>2

IsWritten(w, st, ids, from, partial) ==
  /\ w \in Progress
  /\ \A i \in DOMAIN facts :
       w.facts[i] = IF i \in ids THEN Written(partial, st.facts[i], from) ELSE st.facts[i]
  /\ w.touched = st.touched
       \cup {x \in ids \X Fields : x[2] \in SetFields(partial, st.facts[x[1]], from)}
  /\ w.dst = st.dst /\ w.nfact = st.nfact /\ w.left = st.left
  /\ w.match = st.match /\ w.error = st.error

LEMMA WriteIs ==
  ASSUME NEW st \in Progress, NEW ids \in SUBSET DOMAIN facts, NEW from \in Contents,
         NEW partial \in BOOLEAN
  PROVE  IsWritten(Write(st, ids, from, partial), st, ids, from, partial)
<1> DEFINE fs == [i \in DOMAIN facts |->
                    IF i \in ids THEN Written(partial, st.facts[i], from) ELSE st.facts[i]]
           ts == st.touched
                   \cup {x \in ids \X Fields : x[2] \in SetFields(partial, st.facts[x[1]], from)}
           w == [st EXCEPT !.facts = fs, !.touched = ts]
<1>1. fs \in Files
  <2>1. \A i \in DOMAIN facts : st.facts[i] \in Contents
    BY DEF Progress, Files
  <2>2. \A i \in DOMAIN facts : Written(partial, st.facts[i], from) \in Contents
    BY <2>1, WrittenTyped
  <2> QED
    BY <2>1, <2>2 DEF Files
<1>2. ts \in SUBSET ((DOMAIN facts) \X Fields)
  <2>1. st.touched \subseteq (DOMAIN facts) \X Fields
    BY DEF Progress
  <2>2. ids \X Fields \subseteq (DOMAIN facts) \X Fields
    OBVIOUS
  <2> QED
    BY <2>1, <2>2
<1>3. Write(st, ids, from, partial) = w
  BY DEF Write
<1>4. w \in Progress /\ w.facts = fs /\ w.touched = ts
  <2> HIDE DEF fs, ts
  <2> QED
    BY <1>1, <1>2 DEF Progress
<1>5. /\ w.dst = st.dst /\ w.nfact = st.nfact /\ w.left = st.left
      /\ w.match = st.match /\ w.error = st.error
  <2> HIDE DEF fs, ts
  <2> QED
    BY DEF Progress
<1>6. \A i \in DOMAIN facts :
        fs[i] = IF i \in ids THEN Written(partial, st.facts[i], from) ELSE st.facts[i]
  OBVIOUS
<1> QED
  <2> HIDE DEF fs, ts, w
  <2>1. \A i \in DOMAIN facts :
          w.facts[i] = IF i \in ids THEN Written(partial, st.facts[i], from) ELSE st.facts[i]
    BY <1>4, <1>6
  <2> QED
    BY <1>3, <1>4, <1>5, <2>1 DEF ts, IsWritten

-------------------------------------------------------------------------------
(* UPDATE. *)

Working(H) == {st \in Progress : ToSet(st.dst) \subseteq (DOMAIN facts) \cup H}

(* Facts keep the fields of the matcher, so that a fact matches later if   *)
(* and only if it did at first.                                            *)
KeysKept(st, matcher) ==
  \A i \in DOMAIN facts, k \in ToSet(matcher) : st.facts[i][k] = facts[i][k]

HasKey(from, matcher) == matcher # <<>> /\ from[Last(matcher)] # Absent

LEMMA KeyedIs ==
  ASSUME NEW st, NEW matcher \in Seq(Fields), NEW from, HasKey(from, matcher),
         KeysKept(st, matcher), NEW i \in DOMAIN facts
  PROVE  Keyed(i, from, matcher)
           <=> Collected(from, matcher) /\ FactMatches(st.facts[i], from, matcher)
<1>1. Len(matcher) \in Nat /\ DOMAIN matcher = 1 .. Len(matcher) /\ Len(matcher) # 0
  BY DEF HasKey
<1>2. \A n \in 1 .. Len(matcher) : st.facts[i][matcher[n]] = facts[i][matcher[n]]
  BY <1>1 DEF KeysKept, ToSet
<1>3. Keyed(i, from, matcher)
        <=> \A n \in 1 .. Len(matcher) :
              from[matcher[n]] # Absent /\ facts[i][matcher[n]] = from[matcher[n]]
  BY <1>1 DEF Keyed, ToSet
<1>4. Collected(from, matcher)
        <=> \A n \in 1 .. Len(matcher) : from[matcher[n]] # Absent
  <2>1. PICK l : l = Len(matcher)
    OBVIOUS
  <2>2. l \in Nat /\ from[matcher[l]] # Absent
    BY <1>1, <2>1 DEF HasKey, Last
  <2>3. \A n \in 1 .. l : n \in 1 .. (l - 1) \/ n = l
    BY <2>2
  <2>4. \A n \in 1 .. (l - 1) : n \in 1 .. l
    BY <2>2
  <2>5. Collected(from, matcher) <=> \A n \in 1 .. (l - 1) : from[matcher[n]] # Absent
    BY <2>1 DEF Collected
  <2> QED
    BY <2>1, <2>2, <2>3, <2>4, <2>5
<1> QED
  BY <1>1, <1>2, <1>3, <1>4 DEF FactMatches

(* A fact that matches is written with the fields of the matcher it has.   *)
LEMMA WriteKeepsKeys ==
  ASSUME NEW st \in Progress, NEW ids \in SUBSET DOMAIN facts, NEW from \in Contents,
         NEW partial \in BOOLEAN, NEW matcher \in Seq(Fields), KeysKept(st, matcher),
         \A i \in ids : FactMatches(st.facts[i], from, matcher)
  PROVE  KeysKept(Write(st, ids, from, partial), matcher)
<1> DEFINE w == Write(st, ids, from, partial)
<1>1. \A i \in DOMAIN facts :
        w.facts[i] = IF i \in ids THEN Written(partial, st.facts[i], from) ELSE st.facts[i]
  <2> HIDE DEF w
  <2>1. IsWritten(w, st, ids, from, partial)
    BY WriteIs DEF w
  <2> QED
    BY <2>1 DEF IsWritten
<1> HIDE DEF w
<1>2. SUFFICES ASSUME NEW i \in DOMAIN facts, NEW k \in ToSet(matcher)
               PROVE  w.facts[i][k] = facts[i][k]
  BY DEF KeysKept, w
<1>3. st.facts[i][k] = facts[i][k]
  BY DEF KeysKept
<1>4. CASE i \in ids
  <2>1. PICK n \in DOMAIN matcher : k = matcher[n]
    BY DEF ToSet
  <2>2. k \in Fields /\ st.facts[i][k] = from[k]
    BY <1>4, <2>1 DEF FactMatches
  <2>3. st.facts[i] \in Contents
    BY DEF Progress, Files
  <2>4. \A j \in Fields : Written(partial, st.facts[i], from)[j] =
          IF partial /\ from[j] = Absent THEN st.facts[i][j] ELSE from[j]
    BY <2>3, WrittenTyped
  <2> QED
    BY <1>1, <1>3, <1>4, <2>2, <2>4
<1>5. CASE i \notin ids
  BY <1>1, <1>3, <1>5
<1> QED
  BY <1>4, <1>5

IsUpdating(g, d, src, matcher, partial) ==
  /\ g[0] = Begin(d)
  /\ \A n \in 1 .. Len(src) : g[n] = UpdateOne(g[n - 1], src[n], matcher, partial)

LEMMA UpdateOneTyped ==
  ASSUME NEW st \in Working({}), NEW from \in Contents, NEW matcher, NEW partial \in BOOLEAN
  PROVE  UpdateOne(st, from, matcher, partial) \in Working({})
<1> DEFINE ids == {i \in ToSet(st.dst) : FactMatches(st.facts[i], from, matcher)}
<1>1. st \in Progress /\ ToSet(st.dst) \subseteq DOMAIN facts
  BY DEF Working
<1>2. ids \in SUBSET DOMAIN facts
  BY <1>1
<1>3. Failed(st) \in Progress /\ Failed(st).dst = st.dst
  BY <1>1 DEF Failed, Progress
<1>4. Write(st, ids, from, partial) \in Progress /\ Write(st, ids, from, partial).dst = st.dst
  <2> HIDE DEF ids
  <2>1. IsWritten(Write(st, ids, from, partial), st, ids, from, partial)
    BY <1>1, <1>2, WriteIs
  <2> QED
    BY <2>1 DEF IsWritten
<1>5. \/ UpdateOne(st, from, matcher, partial) = Failed(st)
      \/ UpdateOne(st, from, matcher, partial) = Write(st, ids, from, partial)
  BY DEF UpdateOne
<1> QED
  <2> HIDE DEF ids
  <2> QED
    BY <1>1, <1>3, <1>4, <1>5 DEF Working

LEMMA UpdatingExists ==
  ASSUME facts \in Seq(Contents), NEW d \in Seq(Nat), ToSet(d) \subseteq DOMAIN facts,
         NEW src \in Seq(Contents), NEW matcher, NEW partial \in BOOLEAN
  PROVE  \E g : /\ IsUpdating(g, d, src, matcher, partial)
                /\ Update(d, src, matcher, partial) = g[Len(src)]
<1> DEFINE N == Len(src)
           V == Working({})
           B == Begin(d)
           body(p, n) == UpdateOne(p, src[n], matcher, partial)
           F == [x \in (1 .. N) \X V |-> body(x[2], x[1])]
           Is(g) == g = [n \in 0 .. N |-> IF n = 0 THEN B ELSE body(g[n - 1], n)]
<1>1. N \in Nat /\ \A n \in 1 .. N : src[n] \in Contents
  OBVIOUS
<1>2. B \in V
  <2>1. Begin(d) \in Progress /\ Begin(d).dst = d
    BY BeginTyped DEF Begin
  <2> QED
    BY <2>1 DEF Working
<1>3. F \in [(1 .. N) \X V -> V]
  <2> HIDE DEF V, N
  <2>1. \A x \in (1 .. N) \X V : body(x[2], x[1]) \in V
    BY <1>1, UpdateOneTyped DEF V
  <2> HIDE DEF body
  <2> QED
    BY <2>1
<1>4. \A n \in 1 .. N, p \in V : F[<<n, p>>] = body(p, n)
  <2> HIDE DEF body, N, V
  <2> QED
    OBVIOUS
<1>5. PICK g : IsLoop(g, N, V, B, F)
  <2> HIDE DEF F, N, B, V
  <2> QED
    BY <1>1, <1>2, <1>3, LoopExists
<1>6. Is(g)
  <2> HIDE DEF F, body, N, B, V
  <2>1. ASSUME NEW n \in 1 .. N PROVE g[n] = body(g[n - 1], n)
    <3>1. n - 1 \in 0 .. N
      BY <1>1
    <3>2. g[n - 1] \in V /\ g[n] = F[<<n, g[n - 1]>>]
      BY <1>5, <3>1 DEF IsLoop
    <3> QED
      BY <1>4, <3>2
  <2> QED
    BY <1>1, <1>5, <2>1 DEF IsLoop
<1>7. PICK h : h = (CHOOSE f : Is(f))
  OBVIOUS
<1>8. Is(h)
  <2> HIDE DEF Is
  <2> QED
    BY <1>6, <1>7
<1>9. Update(d, src, matcher, partial) = h[N]
  BY <1>7 DEF Update
<1>10. h[0] = B /\ \A n \in 1 .. N : h[n] = body(h[n - 1], n)
  <2> HIDE DEF body, N, B
  <2> QED
    BY <1>1, <1>8
<1> QED
  BY <1>9, <1>10 DEF IsUpdating

(* What is assigned to a field: the value of the last of the sources that  *)
(* give it one.                                                            *)
Givers(i, k, n, d, src, matcher, partial) ==
  {m \in 1 .. n : /\ i \in ToSet(d) /\ Keyed(i, src[m], matcher)
                  /\ partial => src[m][k] # Absent}

FromLast(v, i, k, S, src) ==
  /\ S = {} => v = facts[i][k]
  /\ \A m \in S : (\A l \in S : l <= m) => v = src[m][k]

(* One of the sources has another value. *)
Differs(i, k, n, src, matcher) ==
  \E m \in 1 .. n : Keyed(i, src[m], matcher) /\ src[m][k] \notin {Absent, facts[i][k]}

UpdateInv(st, n, d, src, matcher, partial) ==
  /\ st \in Working({}) /\ st.dst = d
  /\ KeysKept(st, matcher)
  /\ ~st.error <=> \A m \in 1 .. n : \E i \in ToSet(d) : Keyed(i, src[m], matcher)
  /\ ~st.error => \A i \in DOMAIN facts, k \in Fields :
       FromLast(st.facts[i][k], i, k, Givers(i, k, n, d, src, matcher, partial), src)
  /\ partial => \A i \in DOMAIN facts, k \in Fields :
       st.facts[i][k] = facts[i][k] \/ Differs(i, k, n, src, matcher)
  /\ partial => \A x \in st.touched : Differs(x[1], x[2], n, src, matcher)

LEMMA UpdateStep ==
  ASSUME facts \in Seq(Contents), NEW d \in Seq(Nat), ToSet(d) \subseteq DOMAIN facts,
         NEW src \in Seq(Contents), NEW matcher \in Seq(Fields), NEW partial \in BOOLEAN,
         NEW n \in 1 .. Len(src), HasKey(src[n], matcher),
         NEW p, UpdateInv(p, n - 1, d, src, matcher, partial)
  PROVE  UpdateInv(UpdateOne(p, src[n], matcher, partial), n, d, src, matcher, partial)
<1> DEFINE ids == {i \in ToSet(p.dst) : FactMatches(p.facts[i], src[n], matcher)}
<1>1. PICK q : q = UpdateOne(p, src[n], matcher, partial)
  OBVIOUS
<1>2. PICK from : from = src[n]
  OBVIOUS
<1>3. /\ p \in Working({}) /\ p \in Progress /\ p.dst = d /\ KeysKept(p, matcher)
      /\ n \in Nat /\ from \in Contents /\ HasKey(from, matcher)
  BY <1>2 DEF UpdateInv, Working
<1>4. 1 .. n = (1 .. n - 1) \cup {n}
  BY <1>3
<1>5. q \in Working({})
  BY <1>1, <1>2, <1>3, UpdateOneTyped
<1>6. \A i \in DOMAIN facts :
        Keyed(i, from, matcher)
          <=> Collected(from, matcher) /\ FactMatches(p.facts[i], from, matcher)
  BY <1>3, KeyedIs
<1>7. \A i, k : Differs(i, k, n - 1, src, matcher) => Differs(i, k, n, src, matcher)
  BY <1>4 DEF Differs
<1>8. CASE p.error \/ ~\E i \in ToSet(d) : Keyed(i, from, matcher)
  <2>1. q = Failed(p)
    BY <1>1, <1>2, <1>3, <1>6, <1>8 DEF UpdateOne
  <2>2. q.dst = d /\ q.facts = p.facts /\ q.touched = p.touched /\ q.error
    BY <1>3, <2>1 DEF Failed, Progress
  <2>3. KeysKept(q, matcher)
    BY <1>3, <2>2 DEF KeysKept
  <2>4. ~\A m \in 1 .. n : \E i \in ToSet(d) : Keyed(i, src[m], matcher)
    BY <1>2, <1>4, <1>8 DEF UpdateInv
  <2>5. partial => /\ \A i \in DOMAIN facts, k \in Fields :
                        q.facts[i][k] = facts[i][k] \/ Differs(i, k, n, src, matcher)
                   /\ \A x \in q.touched : Differs(x[1], x[2], n, src, matcher)
    BY <1>7, <2>2 DEF UpdateInv
  <2> QED
    BY <1>1, <1>5, <2>2, <2>3, <2>4, <2>5 DEF UpdateInv
<1>9. CASE ~p.error /\ \E i \in ToSet(d) : Keyed(i, from, matcher)
  <2>1. q = Write(p, ids, from, partial)
    BY <1>1, <1>2, <1>3, <1>6, <1>9 DEF UpdateOne
  <2>2. ids \in SUBSET DOMAIN facts /\ \A i \in ids : FactMatches(p.facts[i], from, matcher)
    BY <1>2, <1>3
  <2>3. \A i \in DOMAIN facts : i \in ids <=> i \in ToSet(d) /\ Keyed(i, from, matcher)
    BY <1>2, <1>3, <1>6, <1>9
  <2> HIDE DEF ids
  <2>4. IsWritten(q, p, ids, from, partial)
    BY <1>3, <2>1, <2>2, WriteIs
  <2>5. q.dst = d /\ ~q.error
    BY <1>3, <1>9, <2>4 DEF IsWritten
  <2>6. KeysKept(q, matcher)
    BY <1>3, <2>1, <2>2, WriteKeepsKeys
  <2>7. \A m \in 1 .. n : \E i \in ToSet(d) : Keyed(i, src[m], matcher)
    BY <1>2, <1>4, <1>9 DEF UpdateInv
  <2>8. ASSUME NEW i \in DOMAIN facts, NEW k \in Fields
        PROVE  q.facts[i][k] = IF i \in ids /\ (partial => from[k] # Absent) THEN from[k]
                               ELSE p.facts[i][k]
    <3>1. p.facts[i] \in Contents
      BY <1>3 DEF Progress, Files
    <3>2. \A j \in Fields : Written(partial, p.facts[i], from)[j] =
            IF partial /\ from[j] = Absent THEN p.facts[i][j] ELSE from[j]
      BY <1>3, <3>1, WrittenTyped
    <3>3. q.facts[i] = IF i \in ids THEN Written(partial, p.facts[i], from) ELSE p.facts[i]
      BY <2>4 DEF IsWritten
    <3> QED
      BY <3>2, <3>3
  <2>9. ASSUME NEW i \in DOMAIN facts, NEW k \in Fields
        PROVE  FromLast(q.facts[i][k], i, k, Givers(i, k, n, d, src, matcher, partial), src)
    <3> DEFINE S == Givers(i, k, n - 1, d, src, matcher, partial)
               T == Givers(i, k, n, d, src, matcher, partial)
    <3>1. FromLast(p.facts[i][k], i, k, S, src)
      BY <1>9 DEF UpdateInv
    <3>2. CASE i \in ids /\ (partial => from[k] # Absent)
      <4>1. T = S \cup {n}
        BY <1>2, <1>4, <2>3, <3>2 DEF Givers
      <4>2. \A m \in T : m \in 1 .. n
        BY DEF Givers
      <4>3. \A m \in T : n <= m => m = n
        BY <1>3, <4>2
      <4>4. q.facts[i][k] = src[n][k]
        BY <1>2, <2>8, <3>2
      <4> HIDE DEF S, T
      <4> QED
        BY <4>1, <4>3, <4>4 DEF FromLast, T
    <3>3. CASE ~(i \in ids /\ (partial => from[k] # Absent))
      <4>1. T = S
        BY <1>2, <1>4, <2>3, <3>3 DEF Givers
      <4>2. q.facts[i][k] = p.facts[i][k]
        BY <2>8, <3>3
      <4> HIDE DEF S, T
      <4> QED
        BY <3>1, <4>1, <4>2 DEF T
    <3> QED
      BY <3>2, <3>3
  <2>10. ASSUME partial, NEW i \in DOMAIN facts, NEW k \in Fields
         PROVE  q.facts[i][k] = facts[i][k] \/ Differs(i, k, n, src, matcher)
    <3>1. p.facts[i][k] = facts[i][k] \/ Differs(i, k, n, src, matcher)
      BY <1>7, <2>10 DEF UpdateInv
    <3>2. CASE i \in ids /\ from[k] # Absent
      <4>1. q.facts[i][k] = from[k] /\ Keyed(i, from, matcher)
        BY <2>3, <2>8, <3>2
      <4> QED
        BY <1>2, <1>4, <3>2, <4>1 DEF Differs
    <3>3. CASE ~(i \in ids /\ from[k] # Absent)
      <4>1. q.facts[i][k] = p.facts[i][k]
        BY <2>8, <2>10, <3>3
      <4> QED
        BY <3>1, <4>1
    <3> QED
      BY <3>2, <3>3
  <2>11. ASSUME partial, NEW x \in q.touched PROVE Differs(x[1], x[2], n, src, matcher)
    <3>1. CASE x \in p.touched
      BY <1>7, <2>11, <3>1 DEF UpdateInv
    <3>2. CASE x \notin p.touched
      <4>1. x \in ids \X Fields /\ x[2] \in SetFields(partial, p.facts[x[1]], from)
        BY <2>4, <3>2 DEF IsWritten
      <4>2. PICK i, k : i = x[1] /\ k = x[2]
        OBVIOUS
      <4>3. i \in ids /\ k \in Fields /\ i \in DOMAIN facts
        BY <2>2, <4>1, <4>2
      <4>4. from[k] \notin {Absent, p.facts[i][k]}
        BY <2>11, <4>1, <4>2 DEF SetFields
      <4>5. p.facts[i][k] = facts[i][k] \/ Differs(i, k, n, src, matcher)
        BY <1>7, <2>11, <4>3 DEF UpdateInv
      <4>6. p.facts[i][k] = facts[i][k] => Differs(i, k, n, src, matcher)
        BY <1>2, <1>4, <2>3, <4>3, <4>4 DEF Differs
      <4> QED
        BY <4>2, <4>5, <4>6
    <3> QED
      BY <3>1, <3>2
  <2>12. UpdateInv(q, n, d, src, matcher, partial)
    BY <1>5, <2>5, <2>6, <2>7, <2>9, <2>10, <2>11 DEF UpdateInv
  <2> QED
    BY <1>1, <2>12
<1> QED
  BY <1>8, <1>9

LEMMA UpdateKeepsInv ==
  ASSUME facts \in Seq(Contents), NEW d \in Seq(Nat), ToSet(d) \subseteq DOMAIN facts,
         NEW src \in Seq(Contents), NEW matcher \in Seq(Fields), NEW partial \in BOOLEAN,
         \A n \in 1 .. Len(src) : HasKey(src[n], matcher)
  PROVE  UpdateInv(Update(d, src, matcher, partial), Len(src), d, src, matcher, partial)
<1> DEFINE N == Len(src)
           OK(p, n) == UpdateInv(p, n, d, src, matcher, partial)
<1>1. PICK g : IsUpdating(g, d, src, matcher, partial) /\ Update(d, src, matcher, partial) = g[N]
  BY UpdatingExists
<1>2. N \in Nat /\ N \in 0 .. N
  OBVIOUS
<1> DEFINE A == {n \in 0 .. N : OK(g[n], n)}
<1>3. 0 \in A
  <2>1. PICK p : p = Begin(d)
    OBVIOUS
  <2>2. p \in Progress /\ p.dst = d /\ p.facts = facts /\ p.touched = {} /\ p.error = FALSE
    BY <2>1, BeginTyped DEF Begin
  <2>3. p \in Working({}) /\ KeysKept(p, matcher)
    BY <2>2 DEF Working, KeysKept
  <2>4. \A i, k : Givers(i, k, 0, d, src, matcher, partial) = {}
    BY DEF Givers
  <2>5. \A i \in DOMAIN facts, k \in Fields :
          FromLast(p.facts[i][k], i, k, Givers(i, k, 0, d, src, matcher, partial), src)
    BY <2>2, <2>4 DEF FromLast
  <2>6. UpdateInv(p, 0, d, src, matcher, partial)
    BY <2>2, <2>3, <2>5 DEF UpdateInv
  <2>7. g[0] = p /\ 0 \in 0 .. N
    BY <1>1, <1>2, <2>1 DEF IsUpdating
  <2> QED
    BY <2>6, <2>7
<1>4. ASSUME NEW n \in 1 .. N, n - 1 \in A PROVE n \in A
  <2>1. g[n] = UpdateOne(g[n - 1], src[n], matcher, partial)
    BY <1>1 DEF IsUpdating
  <2>2. OK(g[n - 1], n - 1)
    BY <1>4
  <2>3. OK(g[n], n)
    BY <2>1, <2>2, UpdateStep
  <2> HIDE DEF OK
  <2> QED
    BY <2>3
<1>5. N \in A
  <2> HIDE DEF A
  <2> QED
    BY <1>2, <1>3, <1>4, UpTo
<1> QED
  BY <1>1, <1>5

-------------------------------------------------------------------------------
(* SET and SET FIELD. *)

IsSetting(g, d, src) ==
  /\ g[0] = Begin(d)
  /\ \A n \in 1 .. Len(src) : g[n] = Write(g[n - 1], {d[n]}, src[n], FALSE)

LEMMA SettingExists ==
  ASSUME facts \in Seq(Contents), NEW d \in Seq(Nat), ToSet(d) \subseteq DOMAIN facts,
         NEW src \in Seq(Contents), Len(d) = Len(src)
  PROVE  \E g : IsSetting(g, d, src) /\ Set(d, src) = g[Len(src)]
<1> DEFINE N == Len(src)
           V == Progress
           B == Begin(d)
           body(p, n) == Write(p, {d[n]}, src[n], FALSE)
           F == [x \in (1 .. N) \X V |-> body(x[2], x[1])]
           Is(g) == g = [n \in 0 .. N |-> IF n = 0 THEN B ELSE body(g[n - 1], n)]
<1>1. N \in Nat /\ \A n \in 1 .. N : src[n] \in Contents /\ {d[n]} \in SUBSET DOMAIN facts
  BY DEF ToSet
<1>2. B \in V
  BY BeginTyped
<1>3. F \in [(1 .. N) \X V -> V]
  <2> HIDE DEF V, N
  <2>1. ASSUME NEW x \in (1 .. N) \X V PROVE body(x[2], x[1]) \in V
    <3>1. PICK n, p : n = x[1] /\ p = x[2]
      OBVIOUS
    <3>2. n \in 1 .. N /\ p \in Progress
      BY <3>1 DEF V
    <3>3. IsWritten(Write(p, {d[n]}, src[n], FALSE), p, {d[n]}, src[n], FALSE)
      BY <1>1, <3>2, WriteIs
    <3> QED
      BY <3>1, <3>3 DEF IsWritten, V
  <2> HIDE DEF body
  <2> QED
    BY <2>1
<1>4. \A n \in 1 .. N, p \in V : F[<<n, p>>] = body(p, n)
  <2> HIDE DEF body, N, V
  <2> QED
    OBVIOUS
<1>5. PICK g : IsLoop(g, N, V, B, F)
  <2> HIDE DEF F, N, B, V
  <2> QED
    BY <1>1, <1>2, <1>3, LoopExists
<1>6. Is(g)
  <2> HIDE DEF F, body, N, B, V
  <2>1. ASSUME NEW n \in 1 .. N PROVE g[n] = body(g[n - 1], n)
    <3>1. n - 1 \in 0 .. N
      BY <1>1
    <3>2. g[n - 1] \in V /\ g[n] = F[<<n, g[n - 1]>>]
      BY <1>5, <3>1 DEF IsLoop
    <3> QED
      BY <1>4, <3>2
  <2> QED
    BY <1>1, <1>5, <2>1 DEF IsLoop
<1>7. PICK h : h = (CHOOSE f : Is(f))
  OBVIOUS
<1>8. Is(h)
  <2> HIDE DEF Is
  <2> QED
    BY <1>6, <1>7
<1>9. Set(d, src) = h[N]
  BY <1>7 DEF Set
<1>10. h[0] = B /\ \A n \in 1 .. N : h[n] = body(h[n - 1], n)
  <2> HIDE DEF body, N, B
  <2> QED
    BY <1>1, <1>8
<1> QED
  BY <1>9, <1>10 DEF IsSetting

(* The facts of the first n destinations have the first n sources. *)
SetInv(st, n, d, src) ==
  /\ st \in Progress /\ ~st.error
  /\ \A m \in 1 .. n : st.facts[d[m]] = src[m]
  /\ \A i \in DOMAIN facts : (\A m \in 1 .. n : d[m] # i) => st.facts[i] = facts[i]

LEMMA SetKeepsInv ==
  ASSUME facts \in Seq(Contents), NEW d \in Seq(Nat), ToSet(d) \subseteq DOMAIN facts,
         Increasing(d), NEW src \in Seq(Contents), Len(d) = Len(src)
  PROVE  SetInv(Set(d, src), Len(src), d, src)
<1> DEFINE N == Len(src)
           OK(p, n) == SetInv(p, n, d, src)
<1>1. PICK g : IsSetting(g, d, src) /\ Set(d, src) = g[N]
  BY SettingExists
<1>2. N \in Nat /\ N \in 0 .. N /\ \A n \in 1 .. N : d[n] \in DOMAIN facts /\ src[n] \in Contents
  BY DEF ToSet
<1> DEFINE A == {n \in 0 .. N : OK(g[n], n)}
<1>3. 0 \in A
  <2>1. PICK p : p = Begin(d)
    OBVIOUS
  <2>2. p \in Progress /\ p.facts = facts /\ p.error = FALSE
    BY <2>1, BeginTyped DEF Begin
  <2>3. SetInv(p, 0, d, src)
    BY <2>2 DEF SetInv
  <2>4. g[0] = p /\ 0 \in 0 .. N
    BY <1>1, <1>2, <2>1 DEF IsSetting
  <2> QED
    BY <2>3, <2>4
<1>4. ASSUME NEW n \in 1 .. N, n - 1 \in A PROVE n \in A
  <2>1. PICK p : p = g[n - 1]
    OBVIOUS
  <2>2. PICK q : q = g[n]
    OBVIOUS
  <2>3. SetInv(p, n - 1, d, src) /\ p \in Progress
    BY <1>4, <2>1 DEF SetInv
  <2>4. q = Write(p, {d[n]}, src[n], FALSE)
    BY <1>1, <2>1, <2>2 DEF IsSetting
  <2>5. IsWritten(q, p, {d[n]}, src[n], FALSE)
    BY <1>2, <2>3, <2>4, WriteIs
  <2>6. \A i \in DOMAIN facts : q.facts[i] = IF i = d[n] THEN src[n] ELSE p.facts[i]
    BY <2>5 DEF IsWritten, Written
  <2>7. 1 .. n = (1 .. n - 1) \cup {n} /\ n \notin 1 .. n - 1
    BY <1>2
  <2>8. \A m \in 1 .. n : d[m] = d[n] => m = n
    <3>1. \A m \in 1 .. n - 1 : d[m] < d[n]
      <4> SUFFICES ASSUME NEW m \in 1 .. n - 1 PROVE d[m] < d[n]
        OBVIOUS
      <4>1. m \in 1 .. Len(d) /\ n \in 1 .. Len(d) /\ m < n
        BY <1>2
      <4> QED
        BY <4>1 DEF Increasing
    <3>2. \A m \in 1 .. n : d[m] \in Nat
      BY <1>2
    <3> QED
      BY <2>7, <3>1, <3>2
  <2>9. \A m \in 1 .. n : d[m] \in DOMAIN facts
    BY <1>2
  <2>10. q \in Progress /\ ~q.error
    BY <2>3, <2>5 DEF SetInv, IsWritten
  <2>11. ASSUME NEW m \in 1 .. n PROVE q.facts[d[m]] = src[m]
    <3>1. q.facts[d[m]] = IF d[m] = d[n] THEN src[n] ELSE p.facts[d[m]]
      BY <2>6, <2>9
    <3>2. m \in 1 .. n - 1 => p.facts[d[m]] = src[m]
      BY <2>3 DEF SetInv
    <3> QED
      BY <2>7, <2>8, <3>1, <3>2
  <2>12. ASSUME NEW i \in DOMAIN facts, \A m \in 1 .. n : d[m] # i PROVE q.facts[i] = facts[i]
    <3>1. p.facts[i] = facts[i]
      BY <2>3, <2>7, <2>12 DEF SetInv
    <3> QED
      BY <2>6, <2>7, <2>12, <3>1
  <2>13. SetInv(q, n, d, src)
    BY <2>10, <2>11, <2>12 DEF SetInv
  <2> QED
    BY <2>2, <2>13
<1>5. N \in A
  <2> HIDE DEF A
  <2> QED
    BY <1>2, <1>3, <1>4, UpTo
<1> QED
  BY <1>1, <1>5

(* The source at the place of each fact is assigned to it. *)
IsSet(f, D, src) ==
  f = [i \in DOMAIN facts |->
         IF i \in D THEN src[Cardinality({j \in D : j <= i})] ELSE facts[i]]

LEMMA SetIs ==
  ASSUME facts \in Seq(Contents), NEW d \in Seq(Nat), NEW D, D = ToSet(d), D \subseteq DOMAIN facts,
         Increasing(d), NEW src \in Seq(Contents)
  PROVE  /\ Set(d, src) \in Progress
         /\ ~Set(d, src).error <=> Cardinality(D) = Len(src)
         /\ ~Set(d, src).error => IsSet(Set(d, src).facts, D, src)
<1>1. PICK st : st = Set(d, src)
  OBVIOUS
<1>2. Cardinality(D) = Len(d)
  BY PlaceIs
<1>3. CASE Len(d) # Len(src)
  <2>1. st = Failed(Begin(d))
    BY <1>1, <1>3 DEF Set
  <2>2. st \in Progress /\ st.error
    BY <2>1, BeginTyped DEF Failed, Begin
  <2> QED
    BY <1>1, <1>2, <1>3, <2>2
<1>4. CASE Len(d) = Len(src)
  <2>1. SetInv(st, Len(src), d, src)
    BY <1>1, <1>4, SetKeepsInv
  <2>2. ASSUME NEW i \in DOMAIN facts
        PROVE  st.facts[i] = IF i \in D THEN src[Cardinality({j \in D : j <= i})]
                             ELSE facts[i]
    <3>1. CASE i \in D
      <4>1. PICK m \in 1 .. Len(d) : i = d[m]
        BY <3>1 DEF ToSet
      <4>2. Cardinality({j \in D : j <= d[m]}) = m
        BY PlaceIs
      <4>3. st.facts[d[m]] = src[m]
        BY <1>4, <2>1 DEF SetInv
      <4> QED
        BY <3>1, <4>1, <4>2, <4>3
    <3>2. CASE i \notin D
      <4>1. \A m \in 1 .. Len(src) : d[m] # i
        BY <1>4, <3>2 DEF ToSet
      <4> QED
        BY <2>1, <3>2, <4>1 DEF SetInv
    <3> QED
      BY <3>1, <3>2
  <2>3. st.facts = [i \in DOMAIN facts |-> st.facts[i]]
    BY <2>1 DEF SetInv, Progress, Files
  <2>4. IsSet(st.facts, D, src)
    BY <2>2, <2>3 DEF IsSet
  <2>5. st \in Progress /\ ~st.error
    BY <2>1 DEF SetInv
  <2> QED
    BY <1>1, <1>2, <1>4, <2>4, <2>5
<1> QED
  BY <1>3, <1>4

IsFieldSet(f, D, field, src) ==
  f = [i \in DOMAIN facts |->
         IF i \in D THEN [facts[i] EXCEPT ![field] = src[field]] ELSE facts[i]]

LEMMA SetFieldIs ==
  ASSUME facts \in Seq(Contents), NEW d \in Seq(Nat), NEW D, D = ToSet(d), D \subseteq DOMAIN facts,
         Increasing(d), NEW field \in Fields, NEW src \in Contents, src[field] # Absent
  PROVE  /\ SetField(d, field, src) \in Progress
         /\ ~SetField(d, field, src).error <=> Cardinality(D) = 1
         /\ ~SetField(d, field, src).error =>
              IsFieldSet(SetField(d, field, src).facts, D, field, src)
<1>1. PICK st : st = SetField(d, field, src)
  OBVIOUS
<1>2. Cardinality(D) = Len(d)
  BY PlaceIs
<1>3. CASE Len(d) # 1
  <2>1. st = Failed(Begin(d))
    BY <1>1, <1>3 DEF SetField
  <2>2. st \in Progress /\ st.error
    BY <2>1, BeginTyped DEF Failed, Begin
  <2> QED
    BY <1>1, <1>2, <1>3, <2>2
<1>4. CASE Len(d) = 1
  <2>1. PICK from : from = [[k \in Fields |-> Absent] EXCEPT ![field] = src[field]]
    OBVIOUS
  <2>2. /\ from \in Contents /\ from[field] = src[field]
        /\ \A k \in Fields : k # field => from[k] = Absent
    BY <2>1 DEF Contents
  <2>3. st = Write(Begin(d), {d[1]}, from, TRUE)
    BY <1>1, <1>4, <2>1 DEF SetField
  <2>4. D = {d[1]}
    BY <1>4 DEF ToSet
  <2>5. IsWritten(st, Begin(d), {d[1]}, from, TRUE)
    BY <2>2, <2>3, <2>4, BeginTyped, WriteIs
  <2>6. ASSUME NEW i \in DOMAIN facts
        PROVE  st.facts[i] = IF i \in D THEN [facts[i] EXCEPT ![field] = src[field]]
                             ELSE facts[i]
    <3>1. facts[i] \in Contents
      OBVIOUS
    <3>2. /\ Written(TRUE, facts[i], from) \in Contents
          /\ \A k \in Fields : Written(TRUE, facts[i], from)[k] =
               IF TRUE /\ from[k] = Absent THEN facts[i][k] ELSE from[k]
      BY <2>2, <3>1, WrittenTyped
    <3>3. Written(TRUE, facts[i], from) = [facts[i] EXCEPT ![field] = src[field]]
      BY <2>2, <3>1, <3>2 DEF Contents
    <3>4. st.facts[i] = IF i \in {d[1]} THEN Written(TRUE, facts[i], from) ELSE facts[i]
      BY <2>5 DEF IsWritten, Begin
    <3> QED
      BY <2>4, <3>3, <3>4
  <2>7. st.facts = [i \in DOMAIN facts |-> st.facts[i]]
    BY <2>5 DEF IsWritten, Progress, Files
  <2>8. IsFieldSet(st.facts, D, field, src)
    BY <2>6, <2>7 DEF IsFieldSet
  <2>9. st \in Progress /\ ~st.error
    BY <2>5 DEF IsWritten, Begin
  <2> QED
    BY <1>1, <1>2, <1>4, <2>8, <2>9
<1> QED
  BY <1>3, <1>4

-------------------------------------------------------------------------------
(* REPLACE. *)

Replacing(N) == {st \in Working({Hole}) : Len(st.dst) = N}

(* A destination is written and taken out of the array. *)
IsTaken(w, st, n, from) ==
  /\ w \in Progress /\ w.dst = [st.dst EXCEPT ![n] = Hole]
  /\ w.left = st.left /\ w.match /\ w.error = st.error
  /\ \A i \in DOMAIN facts :
       w.facts[i] = IF i = st.dst[n] THEN Written(TRUE, st.facts[i], from) ELSE st.facts[i]

LEMMA ReplaceDstIs ==
  ASSUME facts \in Seq(Contents), NEW N \in Nat, NEW st \in Replacing(N), NEW n \in 1 .. N,
         NEW from \in Contents, NEW matcher
  PROVE  /\ ReplaceDst(st, n, from, matcher) \in Replacing(N)
         /\ \/ ReplaceDst(st, n, from, matcher) = st
            \/ /\ st.dst[n] \in DOMAIN facts /\ FactMatches(st.facts[st.dst[n]], from, matcher)
               /\ IsTaken(ReplaceDst(st, n, from, matcher), st, n, from)
<1> DEFINE taken == n <= st.nfact /\ st.dst[n] # Hole
                      /\ FactMatches(st.facts[st.dst[n]], from, matcher)
<1>1. /\ st \in Progress /\ st.dst \in Seq(Nat) /\ Len(st.dst) = N
      /\ \A a \in 1 .. N : st.dst[a] \in (DOMAIN facts) \cup {Hole}
  BY DEF Replacing, Working, Progress, ToSet
<1>2. CASE ~taken
  <2>1. ReplaceDst(st, n, from, matcher) = st
    BY <1>2 DEF ReplaceDst
  <2> QED
    BY <2>1
<1>3. CASE taken
  <2>1. st.dst[n] \in DOMAIN facts
    BY <1>1, <1>3
  <2>2. PICK v : v = Write(st, {st.dst[n]}, from, TRUE)
    OBVIOUS
  <2>3. IsWritten(v, st, {st.dst[n]}, from, TRUE)
    BY <1>1, <2>1, <2>2, WriteIs
  <2>4. PICK w : w = [v EXCEPT !.dst[n] = Hole, !.nfact = @ - 1, !.match = TRUE]
    OBVIOUS
  <2>5. ReplaceDst(st, n, from, matcher) = w
    BY <1>3, <2>2, <2>4 DEF ReplaceDst
  <2>6. PICK e : e = [v.dst EXCEPT ![n] = Hole]
    OBVIOUS
  <2>7. PICK f : f = v.nfact - 1
    OBVIOUS
  <2>8. v \in Progress /\ v.dst = st.dst /\ v.left = st.left /\ v.error = st.error
    BY <2>3 DEF IsWritten
  <2>9. e \in Seq(Nat) /\ Len(e) = N /\ f \in Int
    <3>1. v.nfact \in Int
      BY <2>8 DEF Progress
    <3> QED
      BY <1>1, <2>6, <2>7, <2>8, <3>1 DEF Hole
  <2>10. w = [facts |-> v.facts, touched |-> v.touched, dst |-> e, nfact |-> f,
              left |-> v.left, match |-> TRUE, error |-> v.error]
    BY <2>4, <2>6, <2>7, <2>8 DEF Progress
  <2>11. w \in Progress
    BY <2>8, <2>9, <2>10 DEF Progress
  <2>12. \A a \in 1 .. N : e[a] \in (DOMAIN facts) \cup {Hole}
    BY <1>1, <2>6, <2>8
  <2>13. w \in Replacing(N)
    <3>1. ToSet(e) \subseteq (DOMAIN facts) \cup {Hole}
      BY <2>9, <2>12 DEF ToSet
    <3> QED
      BY <2>9, <2>10, <2>11, <3>1 DEF Replacing, Working
  <2>14. \A i \in DOMAIN facts :
           v.facts[i] = IF i = st.dst[n] THEN Written(TRUE, st.facts[i], from) ELSE st.facts[i]
    BY <2>3 DEF IsWritten
  <2>15. IsTaken(w, st, n, from)
    <3>1. w.facts = v.facts /\ w.dst = e /\ w.left = v.left /\ w.match /\ w.error = v.error
      BY <2>10
    <3> QED
      BY <2>6, <2>8, <2>11, <2>14, <3>1 DEF IsTaken
  <2> QED
    BY <1>3, <2>1, <2>5, <2>13, <2>15
<1> QED
  BY <1>2, <1>3

IsTrying(g, st, from, matcher) ==
  /\ g[0] = [st EXCEPT !.match = FALSE]
  /\ \A n \in 1 .. Len(st.dst) : g[n] = ReplaceDst(g[n - 1], n, from, matcher)

IsReplacedBy(q, found, st, from, matcher) ==
  q = IF st.error \/ ~Collected(from, matcher) THEN Failed(st)
      ELSE IF found.match THEN found ELSE [found EXCEPT !.left = Append(@, from)]

LEMMA TryingExists ==
  ASSUME facts \in Seq(Contents), NEW N \in Nat, NEW st \in Replacing(N), NEW from \in Contents,
         NEW matcher
  PROVE  \E g : /\ IsTrying(g, st, from, matcher)
                /\ \A n \in 0 .. N : g[n] \in Replacing(N)
                /\ IsReplacedBy(ReplaceOne(st, from, matcher), g[N], st, from, matcher)
<1> DEFINE V == Replacing(N)
           B == [st EXCEPT !.match = FALSE]
           body(p, n) == ReplaceDst(p, n, from, matcher)
           F == [x \in (1 .. N) \X V |-> body(x[2], x[1])]
           Is(g) == g = [n \in 0 .. N |-> IF n = 0 THEN B ELSE body(g[n - 1], n)]
<1>1. Len(st.dst) = N
  BY DEF Replacing
<1>2. B \in V
  <2>1. st \in Progress
    BY DEF Replacing, Working
  <2>2. B \in Progress /\ B.dst = st.dst
    BY <2>1 DEF Progress
  <2> HIDE DEF B
  <2> QED
    BY <2>2 DEF Replacing, Working
<1>3. F \in [(1 .. N) \X V -> V]
  <2> HIDE DEF V
  <2>1. ASSUME NEW x \in (1 .. N) \X V PROVE body(x[2], x[1]) \in V
    <3>1. PICK n, p : n = x[1] /\ p = x[2]
      OBVIOUS
    <3>2. n \in 1 .. N /\ p \in Replacing(N)
      BY <3>1 DEF V
    <3> QED
      BY <3>1, <3>2, ReplaceDstIs DEF V
  <2> HIDE DEF body
  <2> QED
    BY <2>1
<1>4. \A n \in 1 .. N, p \in V : F[<<n, p>>] = body(p, n)
  <2> HIDE DEF body, V
  <2> QED
    OBVIOUS
<1>5. PICK g : IsLoop(g, N, V, B, F)
  <2> HIDE DEF F, B, V
  <2> QED
    BY <1>2, <1>3, LoopExists
<1>6. Is(g)
  <2> HIDE DEF F, body, B, V
  <2>1. ASSUME NEW n \in 1 .. N PROVE g[n] = body(g[n - 1], n)
    <3>1. n - 1 \in 0 .. N
      OBVIOUS
    <3>2. g[n - 1] \in V /\ g[n] = F[<<n, g[n - 1]>>]
      BY <1>5, <3>1 DEF IsLoop
    <3> QED
      BY <1>4, <3>2
  <2> QED
    BY <1>5, <2>1 DEF IsLoop
<1>7. PICK h : h = (CHOOSE f : Is(f))
  OBVIOUS
<1>8. Is(h)
  <2> HIDE DEF Is
  <2> QED
    BY <1>6, <1>7
<1>9. h[0] = B /\ \A n \in 1 .. N : h[n] = body(h[n - 1], n)
  <2> HIDE DEF body, B
  <2> QED
    BY <1>8
<1>10. IsReplacedBy(ReplaceOne(st, from, matcher), h[N], st, from, matcher)
  BY <1>1, <1>7 DEF ReplaceOne, IsReplacedBy
<1>11. \A n \in 0 .. N : h[n] \in V
  <2> DEFINE A == {n \in 0 .. N : h[n] \in V}
  <2>1. 0 \in A
    BY <1>2, <1>9
  <2>2. ASSUME NEW n \in 1 .. N, n - 1 \in A PROVE n \in A
    <3>1. h[n - 1] \in Replacing(N)
      BY <2>2
    <3>2. body(h[n - 1], n) \in Replacing(N)
      BY <3>1, ReplaceDstIs
    <3> HIDE DEF body
    <3> QED
      BY <1>9, <3>2
  <2>3. \A n \in 0 .. N : n \in A
    <3> HIDE DEF A
    <3> QED
      BY <2>1, <2>2, UpTo
  <2> QED
    BY <2>3
<1> QED
  BY <1>1, <1>9, <1>10, <1>11 DEF IsTrying

(* The destinations taken so far. *)
Taken(st) == {a \in 1 .. Len(st.dst) : st.dst[a] = Hole}

(* A fact that is not taken is the old one, and all have the old keys.     *)
TakeInv(st, d, matcher) ==
  /\ st \in Replacing(Len(d)) /\ KeysKept(st, matcher)
  /\ \A a \in 1 .. Len(d) : st.dst[a] \in {d[a], Hole}
  /\ \A i \in DOMAIN facts : (\A a \in Taken(st) : d[a] # i) => st.facts[i] = facts[i]

(* The destinations up to n are tried for one source, in st at first. *)
TryInv(p, n, st, d, from, matcher) ==
  /\ TakeInv(p, d, matcher)
  /\ p.left = st.left /\ p.error = st.error
  /\ Taken(st) \subseteq Taken(p)
  /\ \A a \in Taken(st) : p.facts[d[a]] = st.facts[d[a]]
  /\ \A a \in Taken(p) \ Taken(st) :
       /\ a \in 1 .. n /\ Carries(p.facts[d[a]], from)
       /\ FactMatches(facts[d[a]], from, matcher)
  /\ p.match <=> Taken(p) # Taken(st)

IncreasingIds(d) ==
  d \in Seq(Nat) /\ ToSet(d) \subseteq DOMAIN facts /\ Increasing(d)

LEMMA IdsDiffer ==
  ASSUME NEW d, IncreasingIds(d)
  PROVE  /\ \A a \in 1 .. Len(d) : d[a] \in DOMAIN facts
         /\ \A a, b \in 1 .. Len(d) : d[a] = d[b] => a = b
<1>1. Len(d) \in Nat /\ \A a \in 1 .. Len(d) : d[a] \in DOMAIN facts /\ d[a] \in Nat
  BY DEF IncreasingIds, ToSet
<1>2. ASSUME NEW a \in 1 .. Len(d), NEW b \in 1 .. Len(d), d[a] = d[b] PROVE a = b
  <2>1. ~(a < b) /\ ~(b < a)
    BY <1>1, <1>2 DEF IncreasingIds, Increasing
  <2> QED
    BY <1>1, <2>1
<1> QED
  BY <1>1, <1>2

LEMMA TryStep ==
  ASSUME facts \in Seq(Contents), NEW d, IncreasingIds(d), NEW from \in Contents,
         NEW matcher \in Seq(Fields), NEW st, NEW n \in 1 .. Len(d),
         NEW p, TryInv(p, n - 1, st, d, from, matcher)
  PROVE  TryInv(ReplaceDst(p, n, from, matcher), n, st, d, from, matcher)
<1>1. PICK q : q = ReplaceDst(p, n, from, matcher)
  OBVIOUS
<1>2. /\ Len(d) \in Nat /\ p \in Replacing(Len(d)) /\ p \in Progress /\ Len(p.dst) = Len(d)
      /\ p.dst \in Seq(Nat) /\ KeysKept(p, matcher)
  BY DEF TryInv, TakeInv, IncreasingIds, Replacing, Working, Progress
<1>3. 1 .. n = (1 .. n - 1) \cup {n}
  BY <1>2
<1>4. /\ q \in Replacing(Len(d))
      /\ \/ q = p
         \/ /\ p.dst[n] \in DOMAIN facts /\ FactMatches(p.facts[p.dst[n]], from, matcher)
            /\ IsTaken(q, p, n, from)
  BY <1>1, <1>2, ReplaceDstIs
<1>5. CASE q = p
  <2>1. TryInv(q, n, st, d, from, matcher)
    BY <1>3, <1>5 DEF TryInv
  <2> QED
    BY <1>1, <2>1
<1>6. CASE /\ p.dst[n] \in DOMAIN facts /\ FactMatches(p.facts[p.dst[n]], from, matcher)
           /\ IsTaken(q, p, n, from)
  <2>1. p.dst[n] = d[n] /\ d[n] \in DOMAIN facts
    <3>1. Hole \notin DOMAIN facts
      BY DEF Hole
    <3> QED
      BY <1>6, <3>1 DEF TryInv, TakeInv
  <2>2. Taken(q) = Taken(p) \cup {n} /\ n \notin Taken(p) /\ Len(q.dst) = Len(d)
    <3>1. q.dst = [p.dst EXCEPT ![n] = Hole]
      BY <1>6 DEF IsTaken
    <3>2. Len(q.dst) = Len(d) /\ \A a \in 1 .. Len(d) : q.dst[a] = IF a = n THEN Hole ELSE p.dst[a]
      BY <1>2, <3>1
    <3>3. Hole \notin DOMAIN facts
      BY DEF Hole
    <3> QED
      BY <1>2, <2>1, <3>2, <3>3 DEF Taken
  <2>3. \A i \in DOMAIN facts :
          q.facts[i] = IF i = d[n] THEN Written(TRUE, p.facts[i], from) ELSE p.facts[i]
    BY <1>6, <2>1 DEF IsTaken
  <2>4. \A a \in 1 .. Len(d) : d[a] \in DOMAIN facts /\ (d[a] = d[n] => a = n)
    BY IdsDiffer
  <2>5. \A k \in Fields : q.facts[d[n]][k] =
          IF TRUE /\ from[k] = Absent THEN p.facts[d[n]][k] ELSE from[k]
    <3>1. p.facts[d[n]] \in Contents
      BY <1>2, <2>1 DEF Progress, Files
    <3>2. \A k \in Fields : Written(TRUE, p.facts[d[n]], from)[k] =
            IF TRUE /\ from[k] = Absent THEN p.facts[d[n]][k] ELSE from[k]
      BY <3>1, WrittenTyped
    <3>3. q.facts[d[n]] = Written(TRUE, p.facts[d[n]], from)
      BY <2>1, <2>3
    <3> QED
      BY <3>2, <3>3
  <2>6. FactMatches(facts[d[n]], from, matcher)
    <3>1. FactMatches(p.facts[d[n]], from, matcher)
      BY <1>6, <2>1
    <3>2. \A m \in DOMAIN matcher : p.facts[d[n]][matcher[m]] = facts[d[n]][matcher[m]]
      BY <1>2, <2>1 DEF KeysKept, ToSet
    <3> QED
      BY <3>1, <3>2 DEF FactMatches
  <2>7. KeysKept(q, matcher)
    <3>1. \A k \in ToSet(matcher) : k \in Fields /\ from[k] = facts[d[n]][k]
      BY <2>6 DEF FactMatches, ToSet
    <3>2. \A k \in ToSet(matcher) : q.facts[d[n]][k] = facts[d[n]][k]
      <4>1. \A k \in ToSet(matcher) : p.facts[d[n]][k] = facts[d[n]][k]
        BY <1>2, <2>1 DEF KeysKept
      <4> QED
        BY <2>5, <3>1, <4>1
    <3>3. \A i \in DOMAIN facts : i # d[n] => q.facts[i] = p.facts[i]
      BY <2>3
    <3> QED
      BY <1>2, <3>2, <3>3 DEF KeysKept
  <2>8. TakeInv(q, d, matcher)
    <3>1. \A a \in 1 .. Len(d) : q.dst[a] \in {d[a], Hole}
      <4>1. q.dst = [p.dst EXCEPT ![n] = Hole]
        BY <1>6 DEF IsTaken
      <4>2. \A a \in 1 .. Len(d) : q.dst[a] = IF a = n THEN Hole ELSE p.dst[a]
        BY <1>2, <4>1
      <4> QED
        BY <4>2 DEF TryInv, TakeInv
    <3>2. \A i \in DOMAIN facts : (\A a \in Taken(q) : d[a] # i) => q.facts[i] = facts[i]
      BY <2>2, <2>3 DEF TryInv, TakeInv
    <3> QED
      BY <1>4, <2>7, <3>1, <3>2 DEF TakeInv
  <2>9. Taken(p) \subseteq 1 .. Len(d) /\ Taken(st) \subseteq Taken(p)
    BY <1>2 DEF Taken, TryInv
  <2>10. \A a \in Taken(p) : q.facts[d[a]] = p.facts[d[a]]
    BY <2>2, <2>3, <2>4, <2>9
  <2>11. \A a \in Taken(st) : q.facts[d[a]] = st.facts[d[a]]
    BY <2>9, <2>10 DEF TryInv
  <2>12. Carries(q.facts[d[n]], from)
    BY <2>5 DEF Carries
  <2>13. ASSUME NEW a \in Taken(q) \ Taken(st)
         PROVE  /\ a \in 1 .. n /\ Carries(q.facts[d[a]], from)
                /\ FactMatches(facts[d[a]], from, matcher)
    <3>1. CASE a = n
      BY <1>3, <2>6, <2>12, <3>1
    <3>2. CASE a # n
      <4>1. a \in Taken(p) \ Taken(st)
        BY <2>2, <3>2
      <4> QED
        BY <1>3, <2>10, <4>1 DEF TryInv
    <3> QED
      BY <3>1, <3>2
  <2>14. q.match /\ Taken(q) # Taken(st) /\ q.left = st.left /\ q.error = st.error
    BY <1>6, <2>2, <2>9 DEF IsTaken, TryInv
  <2>15. TryInv(q, n, st, d, from, matcher)
    BY <2>2, <2>8, <2>9, <2>11, <2>13, <2>14 DEF TryInv
  <2> QED
    BY <1>1, <2>15
<1> QED
  BY <1>4, <1>5, <1>6

(* If no two facts agree on the matcher, a source takes at most one. *)
KeysDistinct(S, matcher) ==
  \A i, j \in S :
    [k \in ToSet(matcher) |-> facts[i][k]] = [k \in ToSet(matcher) |-> facts[j][k]] => i = j

LEMMA TriedIs ==
  ASSUME facts \in Seq(Contents), NEW d, IncreasingIds(d), NEW from \in Contents,
         NEW matcher \in Seq(Fields), NEW st, TakeInv(st, d, matcher),
         NEW g, IsTrying(g, st, from, matcher)
  PROVE  TryInv(g[Len(d)], Len(d), st, d, from, matcher)
<1> DEFINE N == Len(d)
           A == {n \in 0 .. N : TryInv(g[n], n, st, d, from, matcher)}
<1>1. N \in Nat /\ N \in 0 .. N /\ Len(st.dst) = N /\ st \in Replacing(N)
  BY DEF IncreasingIds, TakeInv, Replacing
<1>2. 0 \in A
  <2>1. PICK p : p = [st EXCEPT !.match = FALSE]
    OBVIOUS
  <2>2. st \in Progress /\ ToSet(st.dst) \subseteq (DOMAIN facts) \cup {Hole}
    BY <1>1 DEF Replacing, Working
  <2>3. /\ p \in Progress /\ p.facts = st.facts /\ p.dst = st.dst /\ p.left = st.left
        /\ p.error = st.error /\ ~p.match
    BY <2>1, <2>2 DEF Progress
  <2>4. p \in Replacing(N) /\ Taken(p) = Taken(st)
    BY <1>1, <2>2, <2>3 DEF Replacing, Working, Taken
  <2>5. TakeInv(p, d, matcher)
    BY <2>3, <2>4 DEF TakeInv, KeysKept
  <2>6. TryInv(p, 0, st, d, from, matcher)
    BY <2>3, <2>4, <2>5 DEF TryInv
  <2>7. g[0] = p /\ 0 \in 0 .. N
    BY <1>1, <2>1 DEF IsTrying
  <2> QED
    BY <2>6, <2>7
<1>3. ASSUME NEW n \in 1 .. N, n - 1 \in A PROVE n \in A
  <2>1. g[n] = ReplaceDst(g[n - 1], n, from, matcher)
    BY <1>1 DEF IsTrying
  <2>2. TryInv(g[n], n, st, d, from, matcher)
    BY <1>3, <2>1, TryStep
  <2> QED
    BY <2>2
<1>4. N \in A
  <2> HIDE DEF A
  <2> QED
    BY <1>1, <1>2, <1>3, UpTo
<1> QED
  BY <1>4

LEMMA OneTaken ==
  ASSUME NEW d, IncreasingIds(d), NEW from, NEW matcher, KeysDistinct(ToSet(d), matcher),
         NEW a \in 1 .. Len(d), FactMatches(facts[d[a]], from, matcher),
         NEW b \in 1 .. Len(d), FactMatches(facts[d[b]], from, matcher)
  PROVE  a = b
<1>1. \A k \in ToSet(matcher) : facts[d[a]][k] = facts[d[b]][k]
  BY DEF FactMatches, ToSet
<1>2. [k \in ToSet(matcher) |-> facts[d[a]][k]] = [k \in ToSet(matcher) |-> facts[d[b]][k]]
  BY <1>1
<1>3. d[a] \in ToSet(d) /\ d[b] \in ToSet(d)
  BY DEF ToSet, IncreasingIds
<1>4. d[a] = d[b]
  BY <1>2, <1>3 DEF KeysDistinct
<1> QED
  BY <1>4, IdsDiffer

IsReplacing(g, d, src, matcher) ==
  /\ g[0] = Begin(d)
  /\ \A n \in 1 .. Len(src) : g[n] = ReplaceOne(g[n - 1], src[n], matcher)

LEMMA ReplacedTyped ==
  ASSUME NEW N \in Nat, NEW st \in Replacing(N), NEW f \in Replacing(N), NEW from \in Contents,
         NEW matcher, NEW q, IsReplacedBy(q, f, st, from, matcher)
  PROVE  q \in Replacing(N)
<1>1. st \in Progress /\ f \in Progress /\ f.left \in Seq(Contents)
  BY DEF Replacing, Working, Progress
<1>2. Failed(st) \in Progress /\ Failed(st).dst = st.dst
  BY <1>1 DEF Failed, Progress
<1>3. PICK left : left = Append(f.left, from)
  OBVIOUS
<1>4. left \in Seq(Contents)
  BY <1>1, <1>3
<1>5. [f EXCEPT !.left = left] \in Progress /\ [f EXCEPT !.left = left].dst = f.dst
  BY <1>1, <1>4 DEF Progress
<1>6. q \in {Failed(st), f, [f EXCEPT !.left = left]}
  BY <1>3 DEF IsReplacedBy
<1> QED
  BY <1>2, <1>5, <1>6 DEF Replacing, Working

LEMMA ReplacingExists ==
  ASSUME facts \in Seq(Contents), NEW d, IncreasingIds(d), NEW src \in Seq(Contents),
         NEW matcher, matcher # <<>>
  PROVE  \E g : IsReplacing(g, d, src, matcher) /\ Replace(d, src, matcher) = g[Len(src)]
<1> DEFINE N == Len(src)
           V == Replacing(Len(d))
           B == Begin(d)
           body(p, n) == ReplaceOne(p, src[n], matcher)
           F == [x \in (1 .. N) \X V |-> body(x[2], x[1])]
           Is(g) == g = [n \in 0 .. N |-> IF n = 0 THEN B ELSE body(g[n - 1], n)]
<1>1. N \in Nat /\ Len(d) \in Nat /\ \A n \in 1 .. N : src[n] \in Contents
  BY DEF IncreasingIds
<1>2. B \in V
  <2>1. Begin(d) \in Progress /\ Begin(d).dst = d
    BY BeginTyped DEF Begin, IncreasingIds
  <2> QED
    BY <2>1 DEF Replacing, Working, IncreasingIds
<1>3. F \in [(1 .. N) \X V -> V]
  <2> HIDE DEF V, N
  <2>1. ASSUME NEW x \in (1 .. N) \X V PROVE body(x[2], x[1]) \in V
    <3>1. PICK n, p : n = x[1] /\ p = x[2]
      OBVIOUS
    <3>2. n \in 1 .. N /\ p \in Replacing(Len(d)) /\ src[n] \in Contents
      BY <1>1, <3>1 DEF V
    <3>3. PICK g : /\ \A m \in 0 .. Len(d) : g[m] \in Replacing(Len(d))
                   /\ IsReplacedBy(ReplaceOne(p, src[n], matcher), g[Len(d)], p, src[n], matcher)
      BY <1>1, <3>2, TryingExists
    <3>4. Len(d) \in 0 .. Len(d)
      BY <1>1
    <3>5. ReplaceOne(p, src[n], matcher) \in Replacing(Len(d))
      BY <1>1, <3>2, <3>3, <3>4, ReplacedTyped
    <3> QED
      BY <3>1, <3>5 DEF V
  <2> HIDE DEF body
  <2> QED
    BY <2>1
<1>4. \A n \in 1 .. N, p \in V : F[<<n, p>>] = body(p, n)
  <2> HIDE DEF body, N, V
  <2> QED
    OBVIOUS
<1>5. PICK g : IsLoop(g, N, V, B, F)
  <2> HIDE DEF F, N, B, V
  <2> QED
    BY <1>1, <1>2, <1>3, LoopExists
<1>6. Is(g)
  <2> HIDE DEF F, body, N, B, V
  <2>1. ASSUME NEW n \in 1 .. N PROVE g[n] = body(g[n - 1], n)
    <3>1. n - 1 \in 0 .. N
      BY <1>1
    <3>2. g[n - 1] \in V /\ g[n] = F[<<n, g[n - 1]>>]
      BY <1>5, <3>1 DEF IsLoop
    <3> QED
      BY <1>4, <3>2
  <2> QED
    BY <1>1, <1>5, <2>1 DEF IsLoop
<1>7. PICK h : h = (CHOOSE f : Is(f))
  OBVIOUS
<1>8. Is(h)
  <2> HIDE DEF Is
  <2> QED
    BY <1>6, <1>7
<1>9. Replace(d, src, matcher) = h[N]
  BY <1>7 DEF Replace
<1>10. h[0] = B /\ \A n \in 1 .. N : h[n] = body(h[n - 1], n)
  <2> HIDE DEF body, N, B
  <2> QED
    BY <1>1, <1>8
<1> QED
  BY <1>9, <1>10 DEF IsReplacing

(* Each of the first n sources is in a fact that was taken or is left, and *)
(* each of these facts has one of them.                                    *)
Replaced(st, n, d, src, matcher) ==
  /\ TakeInv(st, d, matcher)
  /\ \A m \in 1 .. n : \/ \E a \in Taken(st) : Carries(st.facts[d[a]], src[m])
                       \/ \E l \in 1 .. Len(st.left) : st.left[l] = src[m]
  /\ \A a \in Taken(st) : \E m \in 1 .. n : Carries(st.facts[d[a]], src[m])
  /\ \A l \in 1 .. Len(st.left) : \E m \in 1 .. n : st.left[l] = src[m]
  /\ matcher = <<>> \/ KeysDistinct(ToSet(d), matcher) =>
       Cardinality(Taken(st)) + Len(st.left) = n

ReplaceInv(st, n, d, src, matcher) ==
  st \in Replacing(Len(d)) /\ (~st.error => Replaced(st, n, d, src, matcher))

LEMMA TakenFinite ==
  ASSUME NEW N \in Nat, NEW st \in Replacing(N)
  PROVE  /\ Taken(st) \subseteq 1 .. N /\ IsFiniteSet(Taken(st))
         /\ Cardinality(Taken(st)) \in Nat
<1>1. Taken(st) \in SUBSET (1 .. N)
  BY DEF Taken, Replacing
<1>2. IsFiniteSet(1 .. N)
  BY FS_Interval
<1> QED
  BY <1>1, <1>2, FS_Subset, FS_CardinalityType

LEMMA ReplaceStep ==
  ASSUME facts \in Seq(Contents), NEW d, IncreasingIds(d), NEW src \in Seq(Contents),
         NEW matcher \in Seq(Fields), matcher # <<>>, NEW n \in 1 .. Len(src),
         NEW p, ReplaceInv(p, n - 1, d, src, matcher)
  PROVE  ReplaceInv(ReplaceOne(p, src[n], matcher), n, d, src, matcher)
<1>1. PICK q : q = ReplaceOne(p, src[n], matcher)
  OBVIOUS
<1>2. PICK from : from = src[n]
  OBVIOUS
<1>3. Len(d) \in Nat /\ Len(d) \in 0 .. Len(d) /\ n \in Nat /\ from \in Contents
      /\ p \in Replacing(Len(d))
  BY <1>2 DEF IncreasingIds, ReplaceInv
<1>4. PICK g : /\ IsTrying(g, p, from, matcher)
               /\ \A m \in 0 .. Len(d) : g[m] \in Replacing(Len(d))
               /\ IsReplacedBy(q, g[Len(d)], p, from, matcher)
  BY <1>1, <1>2, <1>3, TryingExists
<1>5. PICK f : f = g[Len(d)]
  OBVIOUS
<1>6. f \in Replacing(Len(d)) /\ q \in Replacing(Len(d))
  BY <1>3, <1>4, <1>5, ReplacedTyped
<1>7. CASE p.error \/ ~Collected(from, matcher)
  <2>1. q = Failed(p)
    BY <1>4, <1>7 DEF IsReplacedBy
  <2>2. q.error
    BY <1>3, <2>1 DEF Failed, Replacing, Working, Progress
  <2> QED
    BY <1>1, <1>6, <2>2 DEF ReplaceInv
<1>8. CASE ~(p.error \/ ~Collected(from, matcher))
  <2>1. Replaced(p, n - 1, d, src, matcher) /\ TakeInv(p, d, matcher)
    BY <1>8 DEF ReplaceInv, Replaced
  <2>2. TryInv(f, Len(d), p, d, from, matcher)
    BY <1>3, <1>4, <1>5, <2>1, TriedIs
  <2>3. 1 .. n = (1 .. n - 1) \cup {n}
    BY <1>3
  <2>4. /\ Taken(p) \subseteq Taken(f) /\ Taken(f) \subseteq 1 .. Len(d)
        /\ IsFiniteSet(Taken(p)) /\ Cardinality(Taken(p)) \in Nat
    BY <1>3, <1>6, <2>2, TakenFinite DEF TryInv
  <2>5. \A a \in Taken(p) : f.facts[d[a]] = p.facts[d[a]]
    BY <2>2 DEF TryInv
  <2>6. f.left = p.left /\ ~f.error /\ f.left \in Seq(Contents)
    BY <1>6, <1>8, <2>2 DEF TryInv, Replacing, Working, Progress
  <2>7. CASE f.match
    <3>1. q = f
      BY <1>4, <1>5, <1>8, <2>7 DEF IsReplacedBy
    <3>2. PICK b \in Taken(f) : b \notin Taken(p)
      BY <2>2, <2>4, <2>7 DEF TryInv
    <3>3. Carries(f.facts[d[b]], from) /\ FactMatches(facts[d[b]], from, matcher)
      BY <2>2, <3>2 DEF TryInv
    <3>4. \A m \in 1 .. n : \/ \E a \in Taken(f) : Carries(f.facts[d[a]], src[m])
                            \/ \E l \in 1 .. Len(f.left) : f.left[l] = src[m]
      <4> SUFFICES ASSUME NEW m \in 1 .. n
                   PROVE  \/ \E a \in Taken(f) : Carries(f.facts[d[a]], src[m])
                          \/ \E l \in 1 .. Len(f.left) : f.left[l] = src[m]
        OBVIOUS
      <4>1. CASE m = n
        BY <1>2, <3>2, <3>3, <4>1
      <4>2. CASE m # n
        <5>1. \/ \E a \in Taken(p) : Carries(p.facts[d[a]], src[m])
              \/ \E l \in 1 .. Len(p.left) : p.left[l] = src[m]
          BY <2>1, <2>3, <4>2 DEF Replaced
        <5> QED
          BY <2>4, <2>5, <2>6, <5>1
      <4> QED
        BY <4>1, <4>2
    <3>5. \A a \in Taken(f) : \E m \in 1 .. n : Carries(f.facts[d[a]], src[m])
      <4> SUFFICES ASSUME NEW a \in Taken(f) PROVE \E m \in 1 .. n : Carries(f.facts[d[a]], src[m])
        OBVIOUS
      <4>1. CASE a \in Taken(p)
        <5>1. PICK m \in 1 .. n - 1 : Carries(p.facts[d[a]], src[m])
          BY <2>1, <4>1 DEF Replaced
        <5> QED
          BY <2>3, <2>5, <4>1, <5>1
      <4>2. CASE a \notin Taken(p)
        <5>1. Carries(f.facts[d[a]], from)
          BY <2>2, <4>2 DEF TryInv
        <5> QED
          BY <1>2, <2>3, <5>1
      <4> QED
        BY <4>1, <4>2
    <3>6. \A l \in 1 .. Len(f.left) : \E m \in 1 .. n : f.left[l] = src[m]
      BY <2>1, <2>3, <2>6 DEF Replaced
    <3>7. ASSUME matcher = <<>> \/ KeysDistinct(ToSet(d), matcher)
          PROVE  Cardinality(Taken(f)) + Len(f.left) = n
      <4>1. ASSUME NEW a \in Taken(f), a \notin Taken(p) PROVE a = b
        <5>1. FactMatches(facts[d[a]], from, matcher) /\ a \in 1 .. Len(d) /\ b \in 1 .. Len(d)
          BY <2>2, <2>4, <4>1 DEF TryInv
        <5> QED
          BY <3>3, <3>7, <5>1, OneTaken
      <4>2. Taken(f) = Taken(p) \cup {b}
        BY <2>4, <3>2, <4>1
      <4>3. Cardinality(Taken(f)) = Cardinality(Taken(p)) + 1
        BY <2>4, <3>2, <4>2, FS_AddElement
      <4>4. Cardinality(Taken(p)) + Len(p.left) = n - 1
        BY <2>1, <3>7 DEF Replaced
      <4>5. Len(p.left) \in Nat
        BY <2>6
      <4> QED
        BY <1>3, <2>4, <2>6, <4>3, <4>4, <4>5
    <3>8. Replaced(f, n, d, src, matcher)
      BY <2>2, <3>4, <3>5, <3>6, <3>7 DEF Replaced, TryInv
    <3> QED
      BY <1>1, <1>6, <3>1, <3>8 DEF ReplaceInv
  <2>8. CASE ~f.match
    <3>1. q = [f EXCEPT !.left = Append(f.left, from)]
      BY <1>4, <1>5, <1>8, <2>8 DEF IsReplacedBy
    <3>2. q.facts = f.facts /\ q.dst = f.dst /\ q.left = Append(p.left, from)
      BY <1>6, <2>6, <3>1 DEF Replacing, Working, Progress
    <3>3. Taken(q) = Taken(p) /\ Taken(f) = Taken(p)
      BY <2>2, <2>8, <3>2 DEF TryInv, Taken
    <3>4. TakeInv(q, d, matcher)
      <4>1. TakeInv(f, d, matcher)
        BY <2>2 DEF TryInv
      <4> QED
        BY <1>6, <3>2, <3>3, <4>1 DEF TakeInv, KeysKept
    <3>5. PICK k : k = Len(p.left)
      OBVIOUS
    <3>6. /\ k \in Nat /\ Len(q.left) = k + 1 /\ q.left[k + 1] = from
          /\ \A l \in 1 .. k : q.left[l] = p.left[l]
      BY <2>6, <3>2, <3>5
    <3>7. 1 .. k + 1 = (1 .. k) \cup {k + 1} /\ k + 1 \in 1 .. k + 1
      BY <3>6
    <3>8. \A a \in Taken(q) : q.facts[d[a]] = p.facts[d[a]]
      BY <2>5, <3>2, <3>3
    <3>9. \A m \in 1 .. n : \/ \E a \in Taken(q) : Carries(q.facts[d[a]], src[m])
                            \/ \E l \in 1 .. Len(q.left) : q.left[l] = src[m]
      <4> SUFFICES ASSUME NEW m \in 1 .. n
                   PROVE  \/ \E a \in Taken(q) : Carries(q.facts[d[a]], src[m])
                          \/ \E l \in 1 .. Len(q.left) : q.left[l] = src[m]
        OBVIOUS
      <4>1. CASE m = n
        BY <1>2, <3>6, <3>7, <4>1
      <4>2. CASE m # n
        <5>1. \/ \E a \in Taken(p) : Carries(p.facts[d[a]], src[m])
              \/ \E l \in 1 .. k : p.left[l] = src[m]
          BY <2>1, <2>3, <3>5, <4>2 DEF Replaced
        <5> QED
          BY <3>3, <3>6, <3>7, <3>8, <5>1
      <4> QED
        BY <4>1, <4>2
    <3>10. \A a \in Taken(q) : \E m \in 1 .. n : Carries(q.facts[d[a]], src[m])
      <4> SUFFICES ASSUME NEW a \in Taken(q) PROVE \E m \in 1 .. n : Carries(q.facts[d[a]], src[m])
        OBVIOUS
      <4>1. PICK m \in 1 .. n - 1 : Carries(p.facts[d[a]], src[m])
        BY <2>1, <3>3 DEF Replaced
      <4> QED
        BY <2>3, <3>8, <4>1
    <3>11. \A l \in 1 .. Len(q.left) : \E m \in 1 .. n : q.left[l] = src[m]
      <4> SUFFICES ASSUME NEW l \in 1 .. k + 1 PROVE \E m \in 1 .. n : q.left[l] = src[m]
        BY <3>6
      <4>1. CASE l = k + 1
        BY <1>2, <3>6, <4>1
      <4>2. CASE l # k + 1
        <5>1. PICK m \in 1 .. n - 1 : p.left[l] = src[m]
          BY <2>1, <3>5, <3>7, <4>2 DEF Replaced
        <5> QED
          BY <2>3, <3>6, <3>7, <4>2, <5>1
      <4> QED
        BY <4>1, <4>2
    <3>12. ASSUME matcher = <<>> \/ KeysDistinct(ToSet(d), matcher)
           PROVE  Cardinality(Taken(q)) + Len(q.left) = n
      <4>1. Cardinality(Taken(p)) + k = n - 1
        BY <2>1, <3>5, <3>12 DEF Replaced
      <4> QED
        BY <1>3, <2>4, <3>3, <3>6, <4>1
    <3>13. Replaced(q, n, d, src, matcher)
      BY <3>4, <3>9, <3>10, <3>11, <3>12 DEF Replaced
    <3> QED
      BY <1>1, <1>6, <3>13 DEF ReplaceInv
  <2> QED
    BY <2>7, <2>8
<1> QED
  BY <1>7, <1>8

LEMMA ReplaceKeepsInv ==
  ASSUME facts \in Seq(Contents), NEW d, IncreasingIds(d), NEW src \in Seq(Contents),
         NEW matcher \in Seq(Fields)
  PROVE  ReplaceInv(Replace(d, src, matcher), Len(src), d, src, matcher)
<1>1. Len(d) \in Nat /\ Len(src) \in Nat /\ Len(src) \in 0 .. Len(src) /\ d \in Seq(Nat)
      /\ ToSet(d) \subseteq DOMAIN facts /\ \A a \in 1 .. Len(d) : d[a] \in DOMAIN facts
  <2>1. d \in Seq(Nat) /\ ToSet(d) \subseteq DOMAIN facts
    BY DEF IncreasingIds
  <2>2. Len(d) \in Nat /\ Len(src) \in Nat
    BY <2>1
  <2> QED
    BY <2>1, <2>2, IdsDiffer
<1>2. ASSUME NEW p \in Progress, p.facts = facts, p.dst = d
      PROVE  p \in Replacing(Len(d)) /\ TakeInv(p, d, matcher) /\ Taken(p) = {}
  <2>1. p \in Replacing(Len(d))
    BY <1>1, <1>2 DEF Replacing, Working
  <2>2. Hole \notin DOMAIN facts
    BY DEF Hole
  <2>3. Taken(p) = {}
    BY <1>1, <1>2, <2>2 DEF Taken
  <2> QED
    BY <1>2, <2>1, <2>3 DEF TakeInv, KeysKept
<1>3. PICK p : p = Begin(d)
  OBVIOUS
<1>4. p \in Progress /\ p.facts = facts /\ p.dst = d /\ p.left = <<>> /\ p.error = FALSE
  BY <1>1, <1>3, BeginTyped DEF Begin
<1>5. CASE matcher = <<>>
  <2>1. PICK q : q = [p EXCEPT !.left = src]
    OBVIOUS
  <2>2. Replace(d, src, matcher) = q
    BY <1>3, <1>5, <2>1 DEF Replace
  <2>3. q \in Progress /\ q.facts = facts /\ q.dst = d /\ q.left = src
    BY <1>4, <2>1 DEF Progress
  <2>4. q \in Replacing(Len(d)) /\ TakeInv(q, d, matcher) /\ Taken(q) = {}
    BY <1>2, <2>3
  <2>5. Cardinality(Taken(q)) + Len(q.left) = Len(src)
    BY <1>1, <2>3, <2>4, FS_EmptySet
  <2>6. Replaced(q, Len(src), d, src, matcher)
    BY <2>3, <2>4, <2>5 DEF Replaced
  <2> QED
    BY <2>2, <2>4, <2>6 DEF ReplaceInv
<1>6. CASE matcher # <<>>
  <2> DEFINE N == Len(src)
             OK(r, n) == ReplaceInv(r, n, d, src, matcher)
  <2>1. PICK g : IsReplacing(g, d, src, matcher) /\ Replace(d, src, matcher) = g[N]
    BY <1>6, ReplacingExists
  <2> DEFINE A == {n \in 0 .. N : OK(g[n], n)}
  <2>2. 0 \in A
    <3>1. p \in Replacing(Len(d)) /\ TakeInv(p, d, matcher) /\ Taken(p) = {}
      BY <1>2, <1>4
    <3>2. Cardinality(Taken(p)) + Len(p.left) = 0
      BY <1>4, <3>1, FS_EmptySet
    <3>3. Replaced(p, 0, d, src, matcher)
      BY <1>4, <3>1, <3>2 DEF Replaced
    <3>4. g[0] = p /\ 0 \in 0 .. N
      BY <1>1, <1>3, <2>1 DEF IsReplacing
    <3> QED
      BY <3>1, <3>3, <3>4 DEF ReplaceInv
  <2>3. ASSUME NEW n \in 1 .. N, n - 1 \in A PROVE n \in A
    <3>1. g[n] = ReplaceOne(g[n - 1], src[n], matcher)
      BY <2>1 DEF IsReplacing
    <3>2. OK(g[n - 1], n - 1)
      BY <2>3
    <3>3. OK(g[n], n)
      BY <1>6, <3>1, <3>2, ReplaceStep
    <3> HIDE DEF OK
    <3> QED
      BY <3>3
  <2>4. N \in A
    <3> HIDE DEF A
    <3> QED
      BY <1>1, <2>2, <2>3, UpTo
  <2> QED
    BY <2>1, <2>4
<1> QED
  BY <1>5, <1>6

-------------------------------------------------------------------------------
(* The steps. *)

LEMMA Joined ==
  ASSUME NEW T, NEW u \in Seq(T), NEW v \in Seq(T)
  PROVE  /\ u \o v \in Seq(T) /\ Len(u \o v) = Len(u) + Len(v)
         /\ DOMAIN (u \o v) = 1 .. Len(u) + Len(v)
         /\ \A a \in 1 .. Len(u) : (u \o v)[a] = u[a]
         /\ \A a \in (Len(u) + 1) .. (Len(u) + Len(v)) : (u \o v)[a] = v[a - Len(u)]
<1>1. Len(u) \in Nat /\ Len(v) \in Nat /\ u \o v \in Seq(T)
  OBVIOUS
<1>2. Len(u \o v) = Len(u) + Len(v)
  OBVIOUS
<1>3. \A a \in 1 .. Len(u) : (u \o v)[a] = u[a]
  BY <1>1
<1>4. \A a \in (Len(u) + 1) .. (Len(u) + Len(v)) : (u \o v)[a] = v[a - Len(u)]
  BY <1>1
<1> QED
  BY <1>1, <1>2, <1>3, <1>4

(* k ids after n are added. *)
Extended(T, S, n, k) == T = S \cup {n + l : l \in 1 .. k}

(* The effect of an instruction on the store. *)
LEMMA EffectIs ==
  ASSUME Ready, NEW st \in Progress, NEW removed, NEW inserted \in Seq(Contents),
         Effect(st, removed, inserted)
  PROVE  /\ facts' \in Seq(Contents) /\ ToSet(store') \subseteq DOMAIN facts'
         /\ IsInjective(store') /\ touched' \subseteq (DOMAIN facts') \X Fields
         /\ outcome' \in {"done", "error"} /\ (outcome' = "done" <=> ~st.error)
         /\ touched' = st.touched
         /\ outcome' = "done" =>
              /\ facts' = st.facts \o inserted
              /\ Extended(ToSet(store'), ToSet(store) \ removed, Len(facts), Len(inserted))
         /\ outcome' = "done" /\ removed = {} /\ inserted = <<>> =>
              store' = store /\ facts' = st.facts
<1>1. PICK N : N = Len(facts)
  OBVIOUS
<1>2. /\ N \in Nat /\ DOMAIN facts = 1 .. N /\ store \in Seq(Nat)
      /\ ToSet(store) \subseteq 1 .. N /\ Increasing(store)
  BY <1>1 DEF Ready
<1>3. st.facts \in Seq(Contents) /\ Len(st.facts) = N /\ st.facts \o <<>> = st.facts
  BY <1>1, FilesAre DEF Ready, Progress
<1>4. st.touched \subseteq (1 .. N) \X Fields /\ st.error \in BOOLEAN
  BY <1>2 DEF Progress
<1>5. CASE st.error
  <2>1. outcome' = "error" /\ touched' = st.touched /\ facts' = st.facts /\ store' = store
    BY <1>5 DEF Effect
  <2>2. DOMAIN facts' = 1 .. N
    BY <1>3, <2>1
  <2>3. IsInjective(store)
    <3>1. DOMAIN store = 1 .. Len(store) /\ Len(store) \in Nat
      BY <1>2
    <3>2. \A a \in 1 .. Len(store) : store[a] \in Nat
      BY <1>2
    <3>3. ASSUME NEW a \in 1 .. Len(store), NEW b \in 1 .. Len(store), store[a] = store[b]
          PROVE  a = b
      <4>1. ~(a < b) /\ ~(b < a)
        BY <1>2, <3>2, <3>3 DEF Increasing
      <4> QED
        BY <3>1, <4>1
    <3> QED
      BY <3>1, <3>3 DEF IsInjective
  <2> QED
    BY <1>2, <1>3, <1>4, <1>5, <2>1, <2>2, <2>3
<1>6. CASE ~st.error
  <2>1. PICK kept : kept = Packed(store, ToSet(store) \ removed)
    OBVIOUS
  <2>2. PICK new : new = [n \in DOMAIN inserted |-> N + n]
    OBVIOUS
  <2>3. PICK L : L = Len(inserted)
    OBVIOUS
  <2>4. /\ outcome' = "done" /\ touched' = st.touched /\ facts' = st.facts \o inserted
        /\ store' = kept \o new
    BY <1>1, <1>6, <2>1, <2>2 DEF Effect, Duplicated
  <2>5. /\ kept \in Seq(Nat) /\ ToSet(kept) = ToSet(store) \ removed /\ Increasing(kept)
    <3>1. ToSet(store) \cap (ToSet(store) \ removed) = ToSet(store) \ removed
      OBVIOUS
    <3> QED
      BY <1>2, <2>1, <3>1, PackedIs
  <2>6. L \in Nat /\ DOMAIN inserted = 1 .. L
    BY <2>3
  <2>7. new \in Seq(Nat) /\ Len(new) = L /\ \A n \in 1 .. L : new[n] = N + n
    BY <1>2, <2>2, <2>6
  <2>8. PICK f : f = st.facts \o inserted
    OBVIOUS
  <2>9. f \in Seq(Contents) /\ DOMAIN f = 1 .. N + L
    BY <1>3, <2>3, <2>8, Joined
  <2>10. PICK s : s = kept \o new
    OBVIOUS
  <2>11. PICK K : K = Len(kept)
    OBVIOUS
  <2>12. /\ K \in Nat /\ DOMAIN s = 1 .. K + L
         /\ \A a \in 1 .. K : s[a] = kept[a]
         /\ \A a \in (K + 1) .. (K + L) : s[a] = N + (a - K)
    <3>1. K \in Nat
      BY <2>5, <2>11
    <3>2. DOMAIN s = 1 .. K + L /\ \A a \in 1 .. K : s[a] = kept[a]
      BY <2>5, <2>7, <2>10, <2>11, Joined
    <3>3. \A a \in (K + 1) .. (K + L) : s[a] = new[a - K]
      BY <2>5, <2>7, <2>10, <2>11, Joined
    <3>4. \A a \in (K + 1) .. (K + L) : a - K \in 1 .. L
      BY <2>6, <3>1
    <3> QED
      BY <2>7, <3>1, <3>2, <3>3, <3>4
  <2>13. \A a \in 1 .. K : kept[a] \in ToSet(store) \ removed /\ kept[a] \in 1 .. N
    <3>1. \A a \in 1 .. K : kept[a] \in ToSet(kept)
      BY <2>5, <2>11 DEF ToSet
    <3> QED
      BY <1>2, <2>5, <3>1
  <2>14. Extended(ToSet(s), ToSet(store) \ removed, N, L)
    <3>1. ToSet(kept) = {kept[a] : a \in 1 .. K}
      BY <2>5, <2>11 DEF ToSet
    <3>2. 1 .. K + L = (1 .. K) \cup ((K + 1) .. (K + L))
      BY <2>6, <2>12
    <3>3. ToSet(s) = {s[a] : a \in 1 .. K + L}
      BY <2>12 DEF ToSet
    <3>4. ASSUME NEW n \in 1 .. L PROVE \E a \in 1 .. K + L : s[a] = N + n
      <4>1. K + n \in (K + 1) .. (K + L) /\ (K + n) - K = n
        BY <2>6, <2>12
      <4>2. s[K + n] = N + n
        BY <2>12, <4>1
      <4> QED
        BY <3>2, <4>1, <4>2
    <3>5. ASSUME NEW a \in (K + 1) .. (K + L) PROVE \E n \in 1 .. L : s[a] = N + n
      <4>1. a - K \in 1 .. L
        BY <2>6, <2>12
      <4> QED
        BY <2>12, <4>1
    <3>6. ASSUME NEW x \in ToSet(s) PROVE x \in ToSet(kept) \cup {N + n : n \in 1 .. L}
      BY <2>12, <3>1, <3>2, <3>3, <3>5
    <3>7. ASSUME NEW x \in ToSet(kept) \cup {N + n : n \in 1 .. L} PROVE x \in ToSet(s)
      BY <2>12, <3>1, <3>2, <3>3, <3>4
    <3> QED
      BY <2>5, <3>6, <3>7 DEF Extended
  <2>15. ToSet(s) \subseteq 1 .. N + L
    BY <1>2, <2>6, <2>14 DEF Extended
  <2>16. IsInjective(s)
    <3>1. ASSUME NEW a \in 1 .. K + L, NEW b \in 1 .. K + L, a < b PROVE s[a] < s[b]
      <4>1. CASE b \in 1 .. K
        <5>1. a \in 1 .. K
          BY <2>6, <2>12, <3>1, <4>1
        <5> QED
          BY <2>5, <2>11, <2>12, <3>1, <4>1, <5>1 DEF Increasing
      <4>2. CASE a \in 1 .. K /\ b \notin 1 .. K
        <5>1. b \in (K + 1) .. (K + L)
          BY <2>6, <2>12, <4>2
        <5>2. s[a] \in 1 .. N
          BY <2>12, <2>13, <4>2
        <5>3. s[b] = N + (b - K)
          BY <2>12, <5>1
        <5> QED
          BY <1>2, <2>6, <2>12, <5>1, <5>2, <5>3
      <4>3. CASE a \notin 1 .. K
        <5>1. a \in (K + 1) .. (K + L) /\ b \in (K + 1) .. (K + L)
          BY <2>6, <2>12, <3>1, <4>3
        <5>2. s[a] = N + (a - K) /\ s[b] = N + (b - K)
          BY <2>12, <5>1
        <5> QED
          BY <1>2, <2>12, <3>1, <5>1, <5>2
      <4> QED
        BY <4>1, <4>2, <4>3
    <3>2. \A a \in 1 .. K + L : s[a] \in Nat
      <4>1. \A a \in 1 .. K + L : s[a] \in ToSet(s)
        BY <2>12 DEF ToSet
      <4>2. \A x \in 1 .. N + L : x \in Nat
        OBVIOUS
      <4> QED
        BY <2>15, <4>1, <4>2
    <3>3. ASSUME NEW a \in 1 .. K + L, NEW b \in 1 .. K + L, s[a] = s[b] PROVE a = b
      <4>1. ~(a < b) /\ ~(b < a)
        BY <3>1, <3>2, <3>3
      <4> QED
        BY <2>6, <2>12, <4>1
    <3> QED
      BY <2>12, <3>3 DEF IsInjective
  <2>17. removed = {} /\ inserted = <<>> => s = store /\ f = st.facts
    <3> SUFFICES ASSUME removed = {}, inserted = <<>> PROVE s = store /\ f = st.facts
      OBVIOUS
    <3>1. kept = store
      BY <1>2, <2>1, PackedAll
    <3>2. L = 0 /\ new = <<>>
      BY <2>2, <2>3, <2>7
    <3> QED
      BY <1>2, <1>3, <2>8, <2>10, <3>1, <3>2
  <2>18. facts' = f /\ store' = s
    BY <2>4, <2>8, <2>10
  <2>19. touched' \subseteq (1 .. N + L) \X Fields
    <3>1. 1 .. N \subseteq 1 .. N + L
      BY <1>2, <2>6
    <3> QED
      BY <1>4, <2>4, <3>1
  <2> QED
    BY <1>1, <1>6, <2>3, <2>4, <2>8, <2>9, <2>14, <2>15, <2>16, <2>17, <2>18, <2>19
<1> QED
  BY <1>4, <1>5, <1>6

(* Before the assignment the store has all facts, in order. *)
IInv ==
  /\ TypeOK
  /\ outcome = "none" => store = [i \in DOMAIN facts |-> i] /\ touched = {}

LEMMA ReadyIs ==
  ASSUME IInv, outcome = "none"
  PROVE  Ready /\ touched = {}
<1>1. PICK N : N = Len(facts)
  OBVIOUS
<1>2. /\ N \in Nat /\ DOMAIN facts = 1 .. N /\ facts \in Seq(Contents) /\ touched = {}
      /\ store = [i \in 1 .. N |-> i]
  BY <1>1 DEF IInv, TypeOK
<1>3. store \in Seq(Nat) /\ Len(store) = N /\ ToSet(store) \subseteq 1 .. N
  BY <1>2 DEF ToSet
<1>4. Increasing(store)
  BY <1>2, <1>3 DEF Increasing
<1> QED
  BY <1>2, <1>3, <1>4 DEF Ready

LEMMA AssignmentIs ==
  ASSUME NEW s \in Assignments
  PROVE  /\ s.op \in {"=", "|=", "*=", ":"} /\ s # <<>>
         /\ s.filter \in Seq(Selectors) /\ s.matcher \in Seq(Fields) /\ s.src \in Seq(Contents)
         /\ s.matcher # <<>> => \A n \in 1 .. Len(s.src) : HasKey(s.src[n], s.matcher)
         /\ s.op = ":" => /\ s.field \in Fields /\ s.src[1] \in Contents
                          /\ s.src[1][s.field] # Absent
<1>1. s \in [op : {"=", "|=", "*=", ":"}, filter : Seq(Selectors), matcher : Seq(Fields),
             field : Fields \cup {""}, src : Seq(Contents)]
  BY AssignmentsAssumption
<1>2. s # <<>>
  <2>1. DOMAIN s = {"op", "filter", "matcher", "field", "src"}
    BY <1>1
  <2>2. "op" \in DOMAIN s /\ "op" \notin DOMAIN <<>>
    BY <2>1
  <2> QED
    BY <2>2
<1>3. PICK src : src = s.src
  OBVIOUS
<1>4. src \in Seq(Contents)
  BY <1>1, <1>3
<1>5. DOMAIN src = 1 .. Len(src)
  BY <1>4
<1>6. s.matcher # <<>> => \A n \in 1 .. Len(s.src) : HasKey(s.src[n], s.matcher)
  BY <1>3, <1>5, AssignmentsAssumption DEF HasKey
<1>7. s.op = ":" => s.field \in Fields /\ Len(src) = 1 /\ s.src[1][s.field] # Absent
  BY <1>3, AssignmentsAssumption
<1>8. Len(src) = 1 => src[1] \in Contents
  BY <1>4
<1> QED
  BY <1>1, <1>2, <1>3, <1>6, <1>7, <1>8

LEMMA DestinationsAre ==
  ASSUME Ready, NEW s \in Assignments
  PROVE  /\ Comparable(s) => ~Filtered(s.filter).raised
         /\ IncreasingIds(Destinations(s)) /\ Destinations(s) \in Seq(Nat)
         /\ Increasing(Destinations(s)) /\ ToSet(Destinations(s)) \subseteq DOMAIN facts
         /\ ~Filtered(s.filter).raised => ToSet(Destinations(s)) = Selected(s)
<1>1. s.filter \in Seq(Selectors)
  BY AssignmentIs
<1>2. /\ Destinations(s) \in Seq(Nat) /\ Increasing(Destinations(s))
      /\ ToSet(Destinations(s)) \subseteq ToSet(store)
      /\ ~Filtered(s.filter).raised => ToSet(Destinations(s)) = Selected(s)
      /\ Comparable(s) => ~Filtered(s.filter).raised
  BY <1>1, FilterMeans
<1> QED
  BY <1>2 DEF Ready, IncreasingIds

(* What an assignment does, if its filter does not raise. *)
Instruction(s) == InstrSetField(s) \/ InstrSetVar(s) \/ InstrUpdate(s) \/ InstrReplace(s)

LEMMA InstructionIs ==
  ASSUME Ready, NEW s \in Assignments, Instruction(s)
  PROVE  \/ Raised
         \/ \E st \in Progress, removed \in SUBSET Nat, inserted \in Seq(Contents) :
              Effect(st, removed, inserted)
<1>1. PICK d : d = Destinations(s)
  OBVIOUS
<1>2. IncreasingIds(d) /\ d \in Seq(Nat) /\ ToSet(d) \subseteq DOMAIN facts /\ Increasing(d)
  BY <1>1, DestinationsAre
<1>3. /\ facts \in Seq(Contents) /\ s.src \in Seq(Contents) /\ <<>> \in Seq(Contents)
      /\ {} \in SUBSET Nat /\ <<>> \in Seq(Nat) /\ s.matcher \in Seq(Fields)
  BY AssignmentIs DEF Ready
<1>4. CASE InstrSetField(s)
  <2>1. Effect(SetField(d, s.field, s.src[1]), {}, <<>>) /\ s.op = ":"
    BY <1>1, <1>4 DEF InstrSetField
  <2>2. SetField(d, s.field, s.src[1]) \in Progress
    BY <1>2, <1>3, <2>1, AssignmentIs, SetFieldIs
  <2> QED
    BY <1>3, <2>1, <2>2
<1>5. CASE InstrSetVar(s)
  <2>1. Effect(Begin(<<>>), {}, s.src) \/ Effect(Set(d, s.src), {}, <<>>)
    BY <1>1, <1>5 DEF InstrSetVar
  <2>2. Begin(<<>>) \in Progress
    BY <1>3, BeginTyped
  <2>3. Set(d, s.src) \in Progress
    BY <1>2, <1>3, SetIs
  <2> QED
    BY <1>3, <2>1, <2>2, <2>3
<1>6. CASE InstrUpdate(s)
  <2>1. PICK partial \in BOOLEAN : partial <=> s.op = "|="
    OBVIOUS
  <2>2. s.matcher # <<>> /\ Effect(Update(d, s.src, s.matcher, s.op = "|="), {}, <<>>)
    BY <1>1, <1>6 DEF InstrUpdate
  <2>3. (s.op = "|=") \in BOOLEAN
    OBVIOUS
  <2>4. PICK st : st = Update(d, s.src, s.matcher, s.op = "|=")
    OBVIOUS
  <2>5. UpdateInv(st, Len(s.src), d, s.src, s.matcher, s.op = "|=")
    BY <1>2, <1>3, <2>2, <2>3, <2>4, AssignmentIs, UpdateKeepsInv
  <2>6. st \in Progress
    BY <2>5 DEF UpdateInv, Working
  <2> QED
    BY <1>3, <2>2, <2>4, <2>6
<1>7. CASE InstrReplace(s)
  <2>1. PICK st : st = Replace(d, s.src, s.matcher)
    OBVIOUS
  <2>2. Raised \/ Effect(st, LeftOver(st), st.left)
    BY <1>1, <1>7, <2>1 DEF InstrReplace
  <2>3. ReplaceInv(st, Len(s.src), d, s.src, s.matcher)
    BY <1>2, <1>3, <2>1, ReplaceKeepsInv
  <2>4. st \in Progress
    BY <2>3 DEF ReplaceInv, Replacing, Working
  <2>5. st.left \in Seq(Contents) /\ LeftOver(st) \in SUBSET Nat
    <3>1. st.dst \in Seq(Nat) /\ st.left \in Seq(Contents)
      BY <2>4 DEF Progress
    <3> QED
      BY <3>1 DEF LeftOver, ToSet
  <2> QED
    BY <2>2, <2>4, <2>5
<1> QED
  BY <1>4, <1>5, <1>6, <1>7 DEF Instruction

LEMMA StepSound == IInv /\ [Next]_vars => IInv'
<1> SUFFICES ASSUME IInv, [Next]_vars PROVE IInv'
  OBVIOUS
<1>1. CASE UNCHANGED vars
  BY <1>1 DEF IInv, TypeOK, vars
<1>2. CASE Next
  <2>1. outcome = "none"
    BY <1>2 DEF Next
  <2>2. PICK s \in Assignments : InstrFilter(s) \/ Instruction(s)
    BY <1>2 DEF Next, Instruction
  <2>3. assigned' = s /\ s # <<>>
    BY <2>2, AssignmentIs
       DEF InstrFilter, Instruction, InstrSetField, InstrSetVar, InstrUpdate, InstrReplace, OnFacts
  <2>4. Ready
    BY <2>1, ReadyIs
  <2>5. CASE Raised
    BY <2>3, <2>5 DEF Raised, IInv, TypeOK
  <2>6. ASSUME NEW st \in Progress, NEW removed, NEW inserted \in Seq(Contents),
               Effect(st, removed, inserted)
        PROVE  IInv'
    <3>1. /\ facts' \in Seq(Contents) /\ ToSet(store') \subseteq DOMAIN facts'
          /\ IsInjective(store') /\ touched' \subseteq (DOMAIN facts') \X Fields
          /\ outcome' \in {"done", "error"}
      BY <2>4, <2>6, EffectIs
    <3> QED
      BY <2>3, <3>1 DEF IInv, TypeOK
  <2> QED
    BY <2>2, <2>4, <2>5, <2>6, InstructionIs DEF InstrFilter
<1> QED
  BY <1>1, <1>2

LEMMA InitSound == Init => IInv
<1> SUFFICES ASSUME Init PROVE IInv
  OBVIOUS
<1>1. facts \in Seq(Contents) /\ store = [i \in DOMAIN facts |-> i]
  BY AssignmentsAssumption DEF Init
<1>2. ToSet(store) \subseteq DOMAIN facts /\ IsInjective(store)
  BY <1>1 DEF ToSet, IsInjective
<1> QED
  BY <1>1, <1>2 DEF Init, IInv, TypeOK

(* Every assignment begins with all facts of the name, each once and in    *)
(* order, and leaves facts with values of the fields (vm_instr_filter to   *)
(* vm_instr_replace, src/vm-instr.c).                                      *)
THEOREM FactSetsInductive == Spec => []IInv
  BY InitSound, StepSound, PTL DEF Spec

(* No assignment puts a fact twice in the store or an id that is no fact,  *)
(* or sets a field of a fact that there is not (vm_instr_set,              *)
(* vm_instr_update and vm_instr_replace, whose destinations are on the     *)
(* stack of the machine, however many they are).                           *)
THEOREM FactSetTypes == Spec => []TypeOK
<1>1. IInv => TypeOK
  BY DEF IInv
<1> QED
  BY <1>1, FactSetsInductive, PTL

-------------------------------------------------------------------------------
(* What the instructions mean. *)

LEMMA FieldDocumented ==
  ASSUME Ready, NEW s \in Assignments, InstrSetField(s)
  PROVE  FieldMeans(s)
<1>1. PICK d : d = Destinations(s)
  OBVIOUS
<1>2. /\ d \in Seq(Nat) /\ Increasing(d) /\ ToSet(d) \subseteq DOMAIN facts
      /\ ToSet(d) = Selected(s)
  BY <1>1, DestinationsAre DEF InstrSetField, OnFacts
<1>3. /\ facts \in Seq(Contents) /\ s.op = ":" /\ s.field \in Fields /\ s.src[1] \in Contents
      /\ s.src[1][s.field] # Absent /\ <<>> \in Seq(Contents)
  BY AssignmentIs DEF Ready, InstrSetField
<1>4. PICK st : st = SetField(d, s.field, s.src[1])
  OBVIOUS
<1>5. /\ st \in Progress
      /\ ~st.error <=> Cardinality(Selected(s)) = 1
      /\ ~st.error => IsFieldSet(st.facts, Selected(s), s.field, s.src[1])
  BY <1>2, <1>3, <1>4, SetFieldIs
<1>6. Effect(st, {}, <<>>)
  BY <1>1, <1>4 DEF InstrSetField
<1>7. /\ outcome' = "done" <=> ~st.error
      /\ outcome' = "done" => store' = store /\ facts' = st.facts
  BY <1>3, <1>5, <1>6, EffectIs
<1> QED
  BY <1>5, <1>7 DEF FieldMeans, IsFieldSet

LEMMA SetDocumented ==
  ASSUME Ready, NEW s \in Assignments, InstrSetVar(s), store # <<>>
  PROVE  SetMeans(s)
<1>1. PICK d : d = Destinations(s)
  OBVIOUS
<1>2. /\ d \in Seq(Nat) /\ Increasing(d) /\ ToSet(d) \subseteq DOMAIN facts
      /\ ToSet(d) = Selected(s)
  BY <1>1, DestinationsAre DEF InstrSetVar, OnFacts
<1>3. facts \in Seq(Contents) /\ s.src \in Seq(Contents) /\ <<>> \in Seq(Contents)
  BY AssignmentIs DEF Ready
<1>4. PICK st : st = Set(d, s.src)
  OBVIOUS
<1>5. /\ st \in Progress
      /\ ~st.error <=> Cardinality(Selected(s)) = Len(s.src)
      /\ ~st.error => IsSet(st.facts, Selected(s), s.src)
  BY <1>2, <1>3, <1>4, SetIs
<1>6. Effect(st, {}, <<>>)
  BY <1>1, <1>4 DEF InstrSetVar
<1>7. /\ outcome' = "done" <=> ~st.error
      /\ outcome' = "done" => store' = store /\ facts' = st.facts
  BY <1>3, <1>5, <1>6, EffectIs
<1> QED
  BY <1>5, <1>7 DEF SetMeans, IsSet

LEMMA UpdateDocumented ==
  ASSUME Ready, NEW s \in Assignments, InstrUpdate(s), touched = {}
  PROVE  UpdateMeans(s) /\ (s.op = "|=" => OnlyDifferent(s))
<1>1. PICK d : d = Destinations(s)
  OBVIOUS
<1>2. PICK src : src = s.src
  OBVIOUS
<1>3. PICK matcher : matcher = s.matcher
  OBVIOUS
<1>4. PICK partial : partial = (s.op = "|=")
  OBVIOUS
<1>5. /\ d \in Seq(Nat) /\ Increasing(d) /\ ToSet(d) \subseteq DOMAIN facts
      /\ ToSet(d) = Selected(s)
  BY <1>1, DestinationsAre DEF InstrUpdate, OnFacts
<1>6. /\ facts \in Seq(Contents) /\ src \in Seq(Contents) /\ <<>> \in Seq(Contents)
      /\ matcher \in Seq(Fields) /\ partial \in BOOLEAN
      /\ \A n \in 1 .. Len(src) : HasKey(src[n], matcher)
  BY <1>2, <1>3, <1>4, AssignmentIs DEF Ready, InstrUpdate
<1>7. s.op = "=" <=> ~partial
  BY <1>4 DEF InstrUpdate
<1>8. PICK st : st = Update(d, src, matcher, partial)
  OBVIOUS
<1>9. PICK N : N = Len(src)
  OBVIOUS
<1>10. N \in Nat /\ DOMAIN src = 1 .. N
  BY <1>6, <1>9
<1>11. UpdateInv(st, N, d, src, matcher, partial) /\ st \in Progress
  <2>1. UpdateInv(st, N, d, src, matcher, partial)
    BY <1>5, <1>6, <1>8, <1>9, UpdateKeepsInv
  <2> QED
    BY <2>1 DEF UpdateInv, Working
<1>12. Effect(st, {}, <<>>)
  BY <1>1, <1>2, <1>3, <1>4, <1>8 DEF InstrUpdate
<1>13. /\ outcome' = "done" <=> ~st.error
       /\ outcome' = "done" => store' = store /\ facts' = st.facts
       /\ touched' = st.touched
  BY <1>6, <1>11, <1>12, EffectIs
<1> DEFINE from(i, k) == {n \in DOMAIN s.src : /\ Keyed(i, s.src[n], s.matcher)
                                               /\ (s.op = "=" \/ s.src[n][k] # Absent)}
<1>14. ASSUME NEW i \in DOMAIN facts, NEW k \in Fields, ~st.error
       PROVE  st.facts[i][k] = IF i \notin Selected(s) \/ from(i, k) = {} THEN facts[i][k]
                               ELSE s.src[Max(from(i, k))][k]
  <2>1. PICK S : S = Givers(i, k, N, d, src, matcher, partial)
    OBVIOUS
  <2>2. PICK T : T = from(i, k)
    OBVIOUS
  <2>3. S = IF i \in Selected(s) THEN T ELSE {}
    BY <1>2, <1>3, <1>5, <1>7, <1>10, <2>1, <2>2 DEF Givers
  <2>4. FromLast(st.facts[i][k], i, k, S, src)
    BY <1>11, <1>14, <2>1 DEF UpdateInv
  <2>5. CASE S = {}
    <3>1. i \notin Selected(s) \/ T = {}
      BY <2>3, <2>5
    <3> HIDE DEF from
    <3> QED
      BY <2>2, <2>4, <2>5, <3>1 DEF FromLast
  <2>6. CASE S # {}
    <3>1. i \in Selected(s) /\ T = S
      BY <2>3, <2>6
    <3>2. S \in SUBSET (1 .. N)
      BY <2>1 DEF Givers
    <3>3. Max(S) \in S /\ \A n \in S : n <= Max(S)
      BY <1>10, <2>6, <3>2, GreatestIs
    <3>4. st.facts[i][k] = src[Max(S)][k]
      BY <2>4, <3>3 DEF FromLast
    <3> HIDE DEF from
    <3> QED
      BY <1>2, <2>2, <2>6, <3>1, <3>4
  <2> QED
    BY <2>5, <2>6
<1>15. ~st.error => st.facts =
         [i \in DOMAIN facts |-> [k \in Fields |->
            IF i \notin Selected(s) \/ from(i, k) = {} THEN facts[i][k]
            ELSE s.src[Max(from(i, k))][k]]]
  <2> SUFFICES ASSUME ~st.error
               PROVE  st.facts =
                        [i \in DOMAIN facts |-> [k \in Fields |->
                           IF i \notin Selected(s) \/ from(i, k) = {} THEN facts[i][k]
                           ELSE s.src[Max(from(i, k))][k]]]
    OBVIOUS
  <2> HIDE DEF from
  <2>1. st.facts = [i \in DOMAIN facts |-> st.facts[i]]
        /\ \A i \in DOMAIN facts : st.facts[i] = [k \in Fields |-> st.facts[i][k]]
    BY <1>11 DEF Progress, Files, Contents
  <2>2. \A i \in DOMAIN facts : st.facts[i] =
          [k \in Fields |-> IF i \notin Selected(s) \/ from(i, k) = {} THEN facts[i][k]
                            ELSE s.src[Max(from(i, k))][k]]
    BY <1>14, <2>1
  <2> QED
    BY <2>1, <2>2
<1>16. ~st.error <=> \A n \in DOMAIN s.src : \E i \in Selected(s) : Keyed(i, s.src[n], s.matcher)
  BY <1>2, <1>3, <1>5, <1>10, <1>11 DEF UpdateInv
<1>17. UpdateMeans(s)
  BY <1>13, <1>15, <1>16 DEF UpdateMeans
<1>18. ASSUME s.op = "|=" PROVE OnlyDifferent(s)
  <2>1. \A x \in st.touched : Differs(x[1], x[2], N, src, matcher)
    BY <1>4, <1>11, <1>18 DEF UpdateInv
  <2> QED
    BY <1>2, <1>3, <1>10, <1>13, <2>1 DEF Differs, OnlyDifferent
<1> QED
  BY <1>17, <1>18

LEMMA StepDocumented ==
  ASSUME IInv, [Next]_vars
  PROVE  /\ [Documented(assigned')]_vars
         /\ [assigned'.op = "|=" => OnlyDifferent(assigned')]_vars
<1>1. CASE UNCHANGED vars
  BY <1>1
<1>2. CASE Next
  <2>1. outcome = "none"
    BY <1>2 DEF Next
  <2>2. Ready /\ touched = {}
    BY <2>1, ReadyIs
  <2>3. PICK s \in Assignments : \/ InstrFilter(s) \/ InstrSetField(s) \/ InstrSetVar(s)
                                 \/ InstrUpdate(s) \/ InstrReplace(s)
    BY <1>2 DEF Next
  <2>4. assigned' = s
    BY <2>3
       DEF InstrFilter, InstrSetField, InstrSetVar, InstrUpdate, InstrReplace, OnFacts
  <2>5. Documented(s) /\ (s.op = "|=" => OnlyDifferent(s))
    <3>1. CASE InstrFilter(s)
      <4>1. Filtered(s.filter).raised /\ touched' = {}
        BY <2>2, <3>1 DEF InstrFilter, Raised
      <4>2. ~Comparable(s)
        BY <2>2, <4>1, DestinationsAre
      <4> QED
        BY <4>1, <4>2 DEF Documented, OnlyDifferent
    <3>2. CASE InstrSetField(s)
      <4>1. FieldMeans(s) /\ s.op = ":"
        BY <2>2, <3>2, FieldDocumented DEF InstrSetField
      <4> QED
        BY <4>1 DEF Documented
    <3>3. CASE InstrSetVar(s)
      <4>1. s.op = "=" /\ s.matcher = <<>> /\ (~Disputed(s) => SetMeans(s))
        BY <2>2, <3>3, SetDocumented DEF InstrSetVar, Disputed
      <4> QED
        BY <4>1 DEF Documented
    <3>4. CASE InstrUpdate(s)
      <4>1. UpdateMeans(s) /\ s.op \in {"=", "|="} /\ s.matcher # <<>>
            /\ (s.op = "|=" => OnlyDifferent(s))
        BY <2>2, <3>4, UpdateDocumented DEF InstrUpdate
      <4> QED
        BY <4>1 DEF Documented
    <3>5. CASE InstrReplace(s)
      <4>1. s.op = "*="
        BY <3>5 DEF InstrReplace
      <4> QED
        BY <4>1 DEF Documented
    <3> QED
      BY <2>3, <3>1, <3>2, <3>3, <3>4, <3>5
  <2> QED
    BY <2>4, <2>5
<1> QED
  BY <1>1, <1>2

(* Field, full and partial assignments, for any numbers of facts, sources, *)
(* selectors and fields, but for the full ones that are Disputed           *)
(* (doc/resolver-overview.txt:190-252): an error exactly if the facts      *)
(* selected are not one, not as many as the sources, or do not match each  *)
(* of them; otherwise the one fact has the field, each fact its source, or *)
(* each field the value of the last source that matches and gives it one.  *)
THEOREM AssignmentsDocumented == Spec => AssignsAsDocumented
<1>1. IInv /\ [Next]_vars => [Documented(assigned')]_vars
  BY StepDocumented
<1> QED
  BY <1>1, FactSetsInductive, PTL DEF Spec, AssignsAsDocumented

(* A partial assignment sets a field only if a source that matches the     *)
(* fact has another value for it, although vm_fact_update compares with    *)
(* what earlier sources have written (doc/resolver-overview.txt:254).      *)
THEOREM IdenticalKept == Spec => IdenticalNotTouched
<1>1. IInv /\ [Next]_vars => [assigned'.op = "|=" => OnlyDifferent(assigned')]_vars
  BY StepDocumented
<1> QED
  BY <1>1, FactSetsInductive, PTL DEF Spec, IdenticalNotTouched

(* What is left in the array are the destinations not taken. *)
LEMMA LeftOverIs ==
  ASSUME facts \in Seq(Contents), NEW d, IncreasingIds(d), NEW matcher, NEW st,
         TakeInv(st, d, matcher)
  PROVE  LeftOver(st) = {d[a] : a \in (1 .. Len(d)) \ Taken(st)}
<1>1. st.dst \in Seq(Nat) /\ Len(st.dst) = Len(d) /\ DOMAIN st.dst = 1 .. Len(d)
  <2>1. st.dst \in Seq(Nat) /\ Len(st.dst) = Len(d)
    BY DEF TakeInv, Replacing, Working, Progress
  <2> QED
    BY <2>1
<1>2. \A a \in 1 .. Len(d) : d[a] # Hole
  <2>1. Hole \notin DOMAIN facts
    BY DEF Hole
  <2> QED
    BY <2>1, IdsDiffer
<1>3. \A a \in 1 .. Len(d) : st.dst[a] = IF a \in Taken(st) THEN Hole ELSE d[a]
  BY <1>1 DEF TakeInv, Taken
<1>4. ToSet(st.dst) = {st.dst[a] : a \in 1 .. Len(d)}
  BY <1>1 DEF ToSet
<1> QED
  BY <1>2, <1>3, <1>4 DEF LeftOver

(* The facts that are taken or inserted. *)
AreNew(new, d, T, n, k) == new = {d[a] : a \in T} \cup {n + l : l \in 1 .. k}

LEMMA NewCounted ==
  ASSUME NEW d, IncreasingIds(d), NEW T \in SUBSET (1 .. Len(d)), NEW N \in Nat, NEW L \in Nat,
         ToSet(d) \subseteq 1 .. N, NEW new, AreNew(new, d, T, N, L)
  PROVE  Cardinality(new) = Cardinality(T) + L
<1> DEFINE A == {d[a] : a \in T}
           B == {N + l : l \in 1 .. L}
           f == [a \in T |-> d[a]]
           h == [l \in 1 .. L |-> N + l]
<1>1. Len(d) \in Nat /\ d \in Seq(Nat)
  BY DEF IncreasingIds
<1>2. IsFiniteSet(T) /\ Cardinality(T) \in Nat
  <2>1. IsFiniteSet(1 .. Len(d))
    BY <1>1, FS_Interval
  <2> QED
    BY <2>1, FS_Subset, FS_CardinalityType
<1>3. IsFiniteSet(A) /\ Cardinality(A) = Cardinality(T)
  <2>1. f \in [T -> A]
    OBVIOUS
  <2>2. IsInjective(f)
    BY IdsDiffer DEF IsInjective
  <2>3. \A t \in A : \E a \in T : f[a] = t
    OBVIOUS
  <2>4. ExistsBijection(T, A)
    BY <2>1, <2>2, <2>3 DEF ExistsBijection, Bijection, Injection, Surjection
  <2> QED
    BY <1>2, <2>4, FS_Bijection
<1>4. IsFiniteSet(B) /\ Cardinality(B) = L
  <2>1. h \in [1 .. L -> B]
    OBVIOUS
  <2>2. IsInjective(h)
    BY DEF IsInjective
  <2>3. \A t \in B : \E l \in 1 .. L : h[l] = t
    OBVIOUS
  <2>4. ExistsBijection(1 .. L, B)
    BY <2>1, <2>2, <2>3 DEF ExistsBijection, Bijection, Injection, Surjection
  <2> QED
    BY <2>4, FS_CountingElements, FS_NatBijection
<1>5. A \cap B = {}
  <2>1. \A a \in T : d[a] \in 1 .. N
    BY <1>1 DEF ToSet
  <2> QED
    BY <2>1
<1>6. Cardinality(A \cup B) = Cardinality(A) + Cardinality(B) - Cardinality(A \cap B)
  <2> HIDE DEF A, B
  <2> QED
    BY <1>3, <1>4, FS_Union
<1>7. Cardinality(A \cap B) = 0
  BY <1>5, FS_EmptySet
<1>8. Cardinality(A \cup B) = Cardinality(T) + L
  <2> HIDE DEF A, B
  <2> QED
    BY <1>2, <1>3, <1>4, <1>6, <1>7
<1>9. new = A \cup B
  BY DEF AreNew
<1> QED
  BY <1>8, <1>9

LEMMA ReplaceComplete ==
  ASSUME Ready, NEW s \in Assignments, InstrReplace(s), outcome' = "done"
  PROVE  Complete(s)
<1>1. PICK d : d = Destinations(s)
  OBVIOUS
<1>2. PICK src : src = s.src
  OBVIOUS
<1>3. PICK matcher : matcher = s.matcher
  OBVIOUS
<1>4. PICK S : S = Selected(s)
  OBVIOUS
<1>5. /\ IncreasingIds(d) /\ d \in Seq(Nat) /\ ToSet(d) \subseteq DOMAIN facts
      /\ ToSet(d) = S
  BY <1>1, <1>4, DestinationsAre DEF InstrReplace, OnFacts
<1>6. facts \in Seq(Contents) /\ src \in Seq(Contents) /\ matcher \in Seq(Fields)
  BY <1>2, <1>3, AssignmentIs DEF Ready
<1>7. PICK st : st = Replace(d, src, matcher)
  OBVIOUS
<1>8. Effect(st, LeftOver(st), st.left)
  BY <1>1, <1>2, <1>3, <1>7 DEF InstrReplace, Raised
<1>9. ReplaceInv(st, Len(src), d, src, matcher)
  BY <1>5, <1>6, <1>7, ReplaceKeepsInv
<1>10. st \in Replacing(Len(d)) /\ st \in Progress /\ st.left \in Seq(Contents)
  BY <1>9 DEF ReplaceInv, Replacing, Working, Progress
<1>11. PICK N : N = Len(facts)
  OBVIOUS
<1>12. PICK L : L = Len(st.left)
  OBVIOUS
<1>13. PICK T : T = Taken(st)
  OBVIOUS
<1>14. /\ N \in Nat /\ L \in Nat /\ DOMAIN facts = 1 .. N /\ Len(d) \in Nat
       /\ DOMAIN src = 1 .. Len(src) /\ Len(src) \in Nat
  BY <1>5, <1>6, <1>10, <1>11, <1>12
<1>15. /\ ~st.error /\ facts' = st.facts \o st.left
       /\ Extended(ToSet(store'), ToSet(store) \ LeftOver(st), N, L)
  BY <1>8, <1>10, <1>11, <1>12, EffectIs
<1>16. Replaced(st, Len(src), d, src, matcher) /\ TakeInv(st, d, matcher)
  BY <1>9, <1>15 DEF ReplaceInv, Replaced
<1>17. T \subseteq 1 .. Len(d)
  BY <1>10, <1>13, <1>14, TakenFinite
<1>18. LeftOver(st) = {d[a] : a \in (1 .. Len(d)) \ T}
  BY <1>5, <1>6, <1>13, <1>16, LeftOverIs
<1>19. /\ \A a \in 1 .. Len(d) : d[a] \in DOMAIN facts /\ d[a] \in S
       /\ \A a, b \in 1 .. Len(d) : d[a] = d[b] => a = b
       /\ \A i \in S : \E a \in 1 .. Len(d) : i = d[a]
  <2>1. ToSet(d) = {d[a] : a \in 1 .. Len(d)}
    BY <1>5 DEF ToSet
  <2> QED
    BY <1>5, <2>1, IdsDiffer
<1>20. ToSet(store) \subseteq 1 .. N /\ S \subseteq ToSet(store)
  BY <1>4, <1>14 DEF Ready, Selected
<1>21. PICK others : others = ToSet(store) \ S
  OBVIOUS
<1>22. PICK new : new = ToSet(store') \ others
  OBVIOUS
<1>23. new = {d[a] : a \in T} \cup {N + l : l \in 1 .. L} /\ others \subseteq ToSet(store')
  <2>1. \A l \in 1 .. L : N + l \notin 1 .. N
    BY <1>14
  <2>2. \A a \in T : d[a] \in ToSet(store) \ LeftOver(st) /\ d[a] \notin others
    BY <1>17, <1>18, <1>19, <1>20, <1>21
  <2>3. \A l \in 1 .. L : N + l \notin others
    BY <1>20, <1>21, <2>1
  <2>4. others \cap LeftOver(st) = {}
    BY <1>18, <1>19, <1>21
  <2>5. \A i \in (ToSet(store) \ LeftOver(st)) \ others : \E a \in T : i = d[a]
    BY <1>18, <1>19, <1>21
  <2> QED
    BY <1>15, <1>21, <1>22, <2>2, <2>3, <2>4, <2>5 DEF Extended
<1>24. /\ \A i \in 1 .. N : facts'[i] = st.facts[i]
       /\ \A l \in 1 .. L : facts'[N + l] = st.left[l]
  <2>1. st.facts \in Seq(Contents) /\ Len(st.facts) = N
    BY <1>6, <1>10, <1>11, FilesAre DEF Progress
  <2>2. PICK u, v, f : u = st.facts /\ v = st.left /\ f = u \o v
    OBVIOUS
  <2>3. /\ \A a \in 1 .. N : f[a] = u[a]
        /\ \A a \in (N + 1) .. (N + L) : f[a] = v[a - N]
    <3>1. u \in Seq(Contents) /\ v \in Seq(Contents) /\ Len(u) = N /\ Len(v) = L
      BY <1>10, <1>12, <2>1, <2>2
    <3>2. /\ \A a \in 1 .. Len(u) : (u \o v)[a] = u[a]
          /\ \A a \in (Len(u) + 1) .. (Len(u) + Len(v)) : (u \o v)[a] = v[a - Len(u)]
      BY <3>1, Joined
    <3> QED
      BY <2>2, <3>1, <3>2
  <2>4. \A l \in 1 .. L : N + l \in (N + 1) .. (N + L) /\ (N + l) - N = l
    BY <1>14
  <2>5. \A l \in 1 .. L : f[N + l] = v[l]
    BY <2>3, <2>4
  <2> QED
    BY <1>15, <2>2, <2>3, <2>5
<1>25. \A i \in others : facts'[i] = facts[i]
  <2> SUFFICES ASSUME NEW i \in others PROVE facts'[i] = facts[i]
    OBVIOUS
  <2>1. i \in 1 .. N /\ \A a \in T : d[a] # i
    BY <1>17, <1>19, <1>20, <1>21
  <2>2. st.facts[i] = facts[i]
    BY <1>13, <1>14, <1>16, <2>1 DEF TakeInv
  <2> QED
    BY <1>24, <2>1, <2>2
<1>26. ASSUME NEW n \in DOMAIN src PROVE \E i \in new : Carries(facts'[i], src[n])
  <2>1. \/ \E a \in T : Carries(st.facts[d[a]], src[n])
        \/ \E l \in 1 .. L : st.left[l] = src[n]
    BY <1>12, <1>13, <1>14, <1>16 DEF Replaced
  <2>2. ASSUME NEW a \in T, Carries(st.facts[d[a]], src[n])
        PROVE  \E i \in new : Carries(facts'[i], src[n])
    <3>1. d[a] \in new /\ facts'[d[a]] = st.facts[d[a]]
      BY <1>14, <1>17, <1>19, <1>23, <1>24
    <3>2. Carries(facts'[d[a]], src[n])
      BY <2>2, <3>1
    <3> QED
      BY <3>1, <3>2
  <2>3. ASSUME NEW l \in 1 .. L, st.left[l] = src[n]
        PROVE  \E i \in new : Carries(facts'[i], src[n])
    <3>1. N + l \in new /\ facts'[N + l] = src[n]
      BY <1>23, <1>24, <2>3
    <3>2. Carries(facts'[N + l], src[n])
      BY <3>1 DEF Carries
    <3> QED
      BY <3>1, <3>2
  <2> QED
    BY <2>1, <2>2, <2>3
<1>27. ASSUME NEW i \in new PROVE \E n \in DOMAIN src : Carries(facts'[i], src[n])
  <2>1. CASE i \in {d[a] : a \in T}
    <3>1. PICK a \in T : i = d[a]
      BY <2>1
    <3>2. PICK n \in 1 .. Len(src) : Carries(st.facts[d[a]], src[n])
      BY <1>13, <1>16 DEF Replaced
    <3>3. facts'[i] = st.facts[d[a]]
      BY <1>14, <1>17, <1>19, <1>24, <3>1
    <3>4. Carries(facts'[i], src[n])
      BY <3>2, <3>3
    <3> QED
      BY <1>14, <3>4
  <2>2. CASE i \in {N + l : l \in 1 .. L}
    <3>1. PICK l \in 1 .. L : i = N + l
      BY <2>2
    <3>2. PICK n \in 1 .. Len(src) : st.left[l] = src[n]
      BY <1>12, <1>16 DEF Replaced
    <3>3. facts'[i] = src[n]
      BY <1>24, <3>1, <3>2
    <3>4. Carries(facts'[i], src[n])
      BY <3>3 DEF Carries
    <3> QED
      BY <1>14, <3>4
  <2> QED
    BY <1>23, <2>1, <2>2
<1>28. ASSUME matcher = <<>> \/ KeysDistinct(S, matcher) PROVE Cardinality(new) = Len(src)
  <2>1. Cardinality(T) + L = Len(src)
    BY <1>5, <1>12, <1>13, <1>16, <1>28 DEF Replaced
  <2>2. Cardinality(new) = Cardinality(T) + L
    <3>1. ToSet(d) \subseteq 1 .. N /\ T \in SUBSET (1 .. Len(d))
      BY <1>5, <1>14, <1>17
    <3>2. AreNew(new, d, T, N, L)
      BY <1>23 DEF AreNew
    <3> QED
      BY <1>5, <1>14, <3>1, <3>2, NewCounted
  <2> QED
    BY <2>1, <2>2
<1> QED
  BY <1>2, <1>3, <1>4, <1>21, <1>22, <1>23, <1>25, <1>26, <1>27, <1>28 DEF Complete, KeysDistinct

LEMMA StepComplete ==
  ASSUME IInv, [Next]_vars
  PROVE  [assigned'.op = "*=" /\ outcome' = "done" => Complete(assigned')]_vars
<1>1. CASE UNCHANGED vars
  BY <1>1
<1>2. CASE Next
  <2>1. outcome = "none"
    BY <1>2 DEF Next
  <2>2. Ready
    BY <2>1, ReadyIs
  <2>3. PICK s \in Assignments : \/ InstrFilter(s) \/ InstrSetField(s) \/ InstrSetVar(s)
                                 \/ InstrUpdate(s) \/ InstrReplace(s)
    BY <1>2 DEF Next
  <2>4. assigned' = s
    BY <2>3
       DEF InstrFilter, InstrSetField, InstrSetVar, InstrUpdate, InstrReplace, OnFacts
  <2>5. ASSUME s.op = "*=", outcome' = "done" PROVE InstrReplace(s)
    BY <2>3, <2>5 DEF InstrFilter, Raised, InstrSetField, InstrSetVar, InstrUpdate
  <2>6. s.op = "*=" /\ outcome' = "done" => Complete(s)
    BY <2>2, <2>5, ReplaceComplete
  <2> QED
    BY <2>4, <2>6
<1> QED
  BY <1>1, <1>2

(* REPLACE neither loses a source nor leaves a fact that none matches,     *)
(* although the destinations that vm_global_find_next searches get fewer   *)
(* with every match (vm_instr_replace).  The sources may agree on the      *)
(* matcher.                                                                *)
THEOREM ReplaceCompletes == Spec => ReplaceIsComplete
<1>1. IInv /\ [Next]_vars =>
        [assigned'.op = "*=" /\ outcome' = "done" => Complete(assigned')]_vars
  BY StepComplete
<1> QED
  BY <1>1, FactSetsInductive, PTL DEF Spec, ReplaceIsComplete
================================================================================
