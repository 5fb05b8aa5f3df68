------------------------------- MODULE SaveLoadProofs -------------------------------
(***************************************************************************)
(* Theorems about module SaveLoad, for rulesets of any size and buffers of *)
(* any sizes.                                                              *)
(***************************************************************************)
EXTENDS SaveLoad, SequenceTheorems, WellFoundedInduction, TLAPS

(* A set that has 0 and with each number the next one has all up to N. *)
LEMMA UpTo ==
  ASSUME NEW N \in Nat, NEW S, 0 \in S, \A n \in 1 .. N : n - 1 \in S => n \in S
  PROVE  \A n \in 0 .. N : n \in S
<1> SUFFICES ASSUME NEW m \in 0 .. N, m \notin S PROVE FALSE
  OBVIOUS
<1> DEFINE R == {ss \in Nat \X Nat : ss[1] < ss[2]}
           T == (0 .. N) \ S
<1>1. IsWellFoundedOn(R, Nat)
  BY NatLessThanWellFounded DEF OpToRel
<1>2. PICK n \in T : \A j \in T : ~(<<j, n>> \in R)
  <2>1. T \subseteq Nat /\ m \in T
    OBVIOUS
  <2> HIDE DEF R, T
  <2> QED
    BY <1>1, <2>1, WFMin
<1>3. n \in 1 .. N /\ n - 1 \in 0 .. N /\ n \notin S
  OBVIOUS
<1>4. n - 1 \in S
  <2>1. <<n - 1, n>> \in R
    BY <1>3
  <2>2. ~(n - 1 \in T)
    <3> HIDE DEF R
    <3> QED
      BY <1>2, <2>1
  <2> QED
    BY <1>3, <2>2
<1> QED
  BY <1>3, <1>4

(* A loop over 1 .. N whose progress is in V and whose body is F. *)
IsLoop(g, N, V, B, F) ==
  /\ g \in [0 .. N -> V] /\ g[0] = B
  /\ \A n \in 1 .. N : g[n] = F[<<n, g[n - 1]>>]

LEMMA LoopExists ==
  ASSUME NEW N \in Nat, NEW V, NEW B \in V, NEW F \in [(1 .. N) \X V -> V]
  PROVE  \E g : IsLoop(g, N, V, B, F)
<1> DEFINE Loop(m, g) == IsLoop(g, m, V, B, F)
           S == {m \in 0 .. N : \E g : Loop(m, g)}
<1> USE DEF IsLoop
<1>1. 0 \in S
  <2>1. Loop(0, [n \in 0 .. 0 |-> B])
    OBVIOUS
  <2> HIDE DEF Loop
  <2> QED
    BY <2>1
<1>2. ASSUME NEW m \in 1 .. N, m - 1 \in S PROVE m \in S
  <2>1. PICK g : Loop(m - 1, g)
    BY <1>2
  <2> DEFINE last == F[<<m, g[m - 1]>>]
             h == [n \in 0 .. m |-> IF n = m THEN last ELSE g[n]]
  <2>2. g[m - 1] \in V /\ last \in V
    BY <2>1
  <2>3. h \in [0 .. m -> V] /\ h[0] = B /\ h[m] = last
    <3> HIDE DEF last
    <3> QED
      BY <2>1, <2>2
  <2>4. ASSUME NEW n \in 1 .. m PROVE h[n] = F[<<n, h[n - 1]>>]
    <3>1. h[n - 1] = g[n - 1]
      BY <2>1
    <3>2. CASE n = m
      BY <2>3, <3>1, <3>2
    <3>3. CASE n # m
      <4>1. n \in 1 .. m - 1 /\ h[n] = g[n]
        BY <3>3
      <4> QED
        BY <2>1, <3>1, <4>1
    <3> QED
      BY <3>2, <3>3
  <2>5. Loop(m, h)
    <3> HIDE DEF h, last
    <3> QED
      BY <2>3, <2>4
  <2> HIDE DEF h, Loop
  <2> QED
    BY <2>5
<1>3. N \in S
  <2> HIDE DEF S
  <2> QED
    BY <1>1, <1>2, UpTo
<1> QED
  BY <1>3

-------------------------------------------------------------------------------
-------------------------------------------------------------------------------
(* Sums and concatenations. *)

IsSums(f, ns) ==
  /\ f \in [0 .. Len(ns) -> Nat] /\ f[0] = 0
  /\ \A n \in 1 .. Len(ns) : f[n] = f[n - 1] + ns[n]

SumsOf(ns) == CHOOSE f : IsSums(f, ns)

LEMMA SumsExist ==
  ASSUME NEW ns \in Seq(Nat)
  PROVE  \E f : IsSums(f, ns)
<1> DEFINE N == Len(ns)
           F == [x \in (1 .. N) \X Nat |-> x[2] + ns[x[1]]]
<1>1. N \in Nat /\ 0 \in Nat /\ F \in [(1 .. N) \X Nat -> Nat]
  OBVIOUS
<1>2. PICK g : IsLoop(g, N, Nat, 0, F)
  <2> HIDE DEF F, N
  <2> QED
    BY <1>1, LoopExists
<1>3. ASSUME NEW n \in 1 .. N PROVE g[n] = g[n - 1] + ns[n]
  <2>1. n - 1 \in 0 .. N
    BY <1>1
  <2>2. g[n - 1] \in Nat /\ g[n] = F[<<n, g[n - 1]>>]
    <3> HIDE DEF F, N
    <3> QED
      BY <1>2, <2>1 DEF IsLoop
  <2> QED
    BY <2>2
<1>4. IsSums(g, ns)
  BY <1>1, <1>2, <1>3 DEF IsLoop, IsSums
<1> QED
  BY <1>4

LEMMA SumsAre ==
  ASSUME NEW ns \in Seq(Nat)
  PROVE  IsSums(SumsOf(ns), ns)
BY SumsExist DEF SumsOf

LEMMA TotalIs ==
  ASSUME NEW ns \in Seq(Nat)
  PROVE  Total(ns) = SumsOf(ns)[Len(ns)]
<1> DEFINE Is(f) == f = [n \in 0 .. Len(ns) |-> IF n = 0 THEN 0 ELSE f[n - 1] + ns[n]]
<1>1. PICK f : IsSums(f, ns)
  BY SumsExist
<1>2. Is(f)
  BY <1>1 DEF IsSums
<1>3. PICK h : h = (CHOOSE g : Is(g))
  OBVIOUS
<1>4. Is(h)
  <2> HIDE DEF Is
  <2> QED
    BY <1>2, <1>3
<1>5. Total(ns) = h[Len(ns)]
  BY <1>3 DEF Total
<1>6. PICK s : s = SumsOf(ns) /\ IsSums(s, ns)
  BY SumsAre
<1>7. \A n \in 0 .. Len(ns) : h[n] = s[n]
  <2> DEFINE S == {n \in 0 .. Len(ns) : h[n] = s[n]}
  <2>1. Len(ns) \in Nat
    OBVIOUS
  <2>2. 0 \in S
    BY <1>4, <1>6, <2>1 DEF IsSums
  <2>3. ASSUME NEW n \in 1 .. Len(ns), n - 1 \in S PROVE n \in S
    <3>1. h[n] = h[n - 1] + ns[n]
      BY <1>4, <2>1, SMTT(30)
    <3> QED
      BY <1>6, <2>3, <3>1 DEF IsSums
  <2> HIDE DEF S
  <2>4. \A n \in 0 .. Len(ns) : n \in S
    BY <2>1, <2>2, <2>3, UpTo
  <2> QED
    BY <2>4 DEF S
<1> QED
  BY <1>5, <1>6, <1>7

LEMMA SumsGrow ==
  ASSUME NEW ns \in Seq(Nat), NEW f, IsSums(f, ns)
  PROVE  \A a, b \in 0 .. Len(ns) : a <= b => f[a] <= f[b]
<1> SUFFICES ASSUME NEW a \in 0 .. Len(ns)
             PROVE  \A b \in 0 .. Len(ns) : a <= b => f[a] <= f[b]
  OBVIOUS
<1> DEFINE S == {b \in 0 .. Len(ns) : a <= b => f[a] <= f[b]}
<1>1. Len(ns) \in Nat /\ 0 \in S
  BY DEF IsSums
<1>2. ASSUME NEW n \in 1 .. Len(ns), n - 1 \in S PROVE n \in S
  <2>1. n - 1 \in 0 .. Len(ns)
    BY <1>1
  <2>2. f[n] = f[n - 1] + ns[n] /\ f[n - 1] \in Nat /\ f[a] \in Nat
    BY <2>1 DEF IsSums
  <2>3. ns[n] \in Nat
    OBVIOUS
  <2> QED
    BY <1>2, <2>2, <2>3
<1> HIDE DEF S
<1>3. \A n \in 0 .. Len(ns) : n \in S
  BY <1>1, <1>2, UpTo
<1> QED
  BY <1>3 DEF S

(* Where the parts of a concatenation begin. *)
Lengths(seqs) == [i \in DOMAIN seqs |-> Len(seqs[i])]
Offsets(seqs) == SumsOf(Lengths(seqs))

IsJoined(seq, seqs, S) ==
  /\ seq \in Seq(S) /\ IsSums(Offsets(seqs), Lengths(seqs))
  /\ Len(Lengths(seqs)) = Len(seqs)
  /\ Len(seq) = Offsets(seqs)[Len(seqs)]
  /\ \A n \in 1 .. Len(seqs), i \in Nat :
       i \in 1 .. Len(seqs[n]) => seq[Offsets(seqs)[n - 1] + i] = seqs[n][i]

LEMMA LengthsAre ==
  ASSUME NEW S, NEW seqs \in Seq(Seq(S))
  PROVE  /\ Lengths(seqs) \in Seq(Nat) /\ Len(Lengths(seqs)) = Len(seqs)
         /\ \A n \in 1 .. Len(seqs) : Lengths(seqs)[n] = Len(seqs[n])
         /\ IsSums(Offsets(seqs), Lengths(seqs))
<1>1. Lengths(seqs) \in Seq(Nat) /\ Len(Lengths(seqs)) = Len(seqs)
  BY DEF Lengths
<1>2. \A n \in 1 .. Len(seqs) : Lengths(seqs)[n] = Len(seqs[n])
  BY DEF Lengths
<1> QED
  BY <1>1, <1>2, SumsAre DEF Offsets

IsFlattening(g, seqs) ==
  \A n \in 1 .. Len(seqs) : g[n] = IF n = 1 THEN seqs[n] ELSE g[n - 1] \o seqs[n]

LEMMA FlatteningExists ==
  ASSUME NEW S, NEW seqs \in Seq(Seq(S)), seqs # <<>>
  PROVE  \E g : IsFlattening(g, seqs) /\ FlattenSeq(seqs) = g[Len(seqs)]
<1> DEFINE N == Len(seqs)
           V == Seq(S)
           B == <<>>
           F == [x \in (1 .. N) \X V |-> IF x[1] = 1 THEN seqs[1] ELSE x[2] \o seqs[x[1]]]
           Is(f) == f = [i \in 1 .. Len(seqs) |-> IF i = 1 THEN seqs[i] ELSE f[i - 1] \o seqs[i]]
<1>1. N \in Nat /\ N # 0 /\ B \in V
  OBVIOUS
<1>2. F \in [(1 .. N) \X V -> V]
  <2>1. ASSUME NEW n \in 1 .. N, NEW p \in V PROVE seqs[n] \in V /\ p \o seqs[n] \in V
    OBVIOUS
  <2>2. 1 \in 1 .. N
    BY <1>1
  <2> HIDE DEF V, N
  <2> QED
    BY <2>1, <2>2
<1>3. PICK g : IsLoop(g, N, V, B, F)
  <2> HIDE DEF F, V, N, B
  <2> QED
    BY <1>1, <1>2, LoopExists
<1>4. ASSUME NEW n \in 1 .. N PROVE g[n] = IF n = 1 THEN seqs[n] ELSE g[n - 1] \o seqs[n]
  <2>1. n - 1 \in 0 .. N
    BY <1>1
  <2>2. g[n - 1] \in V /\ g[n] = F[<<n, g[n - 1]>>]
    BY <1>3, <2>1 DEF IsLoop
  <2> HIDE DEF V
  <2> QED
    BY <2>2
<1> DEFINE k == [n \in 1 .. Len(seqs) |-> g[n]]
<1>5. Is(k)
  <2>1. ASSUME NEW n \in 1 .. N, n # 1 PROVE k[n - 1] = g[n - 1]
    BY <1>1, <2>1
  <2>2. ASSUME NEW n \in 1 .. N PROVE k[n] = IF n = 1 THEN seqs[n] ELSE k[n - 1] \o seqs[n]
    <3>1. k[n] = g[n]
      OBVIOUS
    <3> HIDE DEF k
    <3> QED
      BY <1>4, <2>1, <3>1
  <2> QED
    BY <2>2
<1>6. PICK h : h = (CHOOSE f : Is(f))
  OBVIOUS
<1>7. Is(h)
  <2> HIDE DEF Is, k
  <2> QED
    BY <1>5, <1>6
<1>8. FlattenSeq(seqs) = h[N]
  <2>1. Len(seqs) # 0
    BY <1>1
  <2> QED
    BY <1>6, <2>1 DEF FlattenSeq
<1>9. IsFlattening(h, seqs)
  <2>1. ASSUME NEW n \in 1 .. N PROVE h[n] = IF n = 1 THEN seqs[n] ELSE h[n - 1] \o seqs[n]
    BY <1>7
  <2> QED
    BY <2>1 DEF IsFlattening
<1> QED
  BY <1>8, <1>9

(* FlattenSeq has the elements of each part from its offset on. *)
LEMMA FlattenIs ==
  ASSUME NEW S, NEW seqs \in Seq(Seq(S))
  PROVE  IsJoined(FlattenSeq(seqs), seqs, S)
<1> DEFINE o == Offsets(seqs)
           N == Len(seqs)
<1>1. /\ N \in Nat /\ IsSums(o, Lengths(seqs)) /\ Len(Lengths(seqs)) = N
      /\ \A n \in 1 .. N : Lengths(seqs)[n] = Len(seqs[n])
  BY LengthsAre
<1>2. o \in [0 .. N -> Nat] /\ o[0] = 0 /\ \A n \in 1 .. N : o[n] = o[n - 1] + Len(seqs[n])
  BY <1>1 DEF IsSums
<1>3. CASE N = 0
  <2>1. FlattenSeq(seqs) = <<>> /\ Len(FlattenSeq(seqs)) = 0
    BY <1>3 DEF FlattenSeq
  <2> QED
    BY <1>1, <1>2, <1>3, <2>1 DEF IsJoined
<1>4. CASE N # 0
  <2>1. PICK g : IsFlattening(g, seqs) /\ FlattenSeq(seqs) = g[N]
    <3>1. seqs # <<>>
      BY <1>4
    <3> QED
      BY <3>1, FlatteningExists
  <2> DEFINE Joins(m) ==
               /\ g[m] \in Seq(S) /\ Len(g[m]) = o[m]
               /\ \A n \in 1 .. N, i \in Nat :
                    n <= m /\ i \in 1 .. Len(seqs[n]) => g[m][o[n - 1] + i] = seqs[n][i]
             T == {m \in 0 .. N : m # 0 => Joins(m)}
  <2> HIDE DEF o
  <2>2. 0 \in T
    BY <1>1
  <2>3. ASSUME NEW m \in 1 .. N, m - 1 \in T PROVE m \in T
    <3>1. seqs[m] \in Seq(S) /\ o[m] = o[m - 1] + Len(seqs[m]) /\ Len(seqs[m]) \in Nat
      BY <1>1, <1>2
    <3>2. CASE m = 1
      <4>1. g[m] = seqs[m]
        BY <2>1, <3>2 DEF IsFlattening
      <4>2. o[m] = Len(seqs[m]) /\ o[m - 1] = 0
        BY <1>2, <3>1, <3>2
      <4>3. ASSUME NEW n \in 1 .. N, NEW i \in Nat, n <= m, i \in 1 .. Len(seqs[n])
            PROVE  g[m][o[n - 1] + i] = seqs[n][i]
        <5>1. n = m
          BY <3>2, <4>3
        <5> QED
          BY <4>1, <4>2, <5>1
      <4> QED
        BY <3>1, <4>1, <4>2, <4>3
    <3>3. CASE m # 1
      <4>1. g[m] = g[m - 1] \o seqs[m]
        BY <2>1, <3>3 DEF IsFlattening
      <4>2. Joins(m - 1) /\ m - 1 \in 1 .. N
        BY <1>1, <2>3, <3>3
      <4>3. g[m - 1] \in Seq(S) /\ Len(g[m - 1]) = o[m - 1] /\ o[m - 1] \in Nat
        BY <1>2, <4>2
      <4>4. /\ g[m] \in Seq(S) /\ Len(g[m]) = o[m]
            /\ \A i \in 1 .. o[m] :
                 g[m][i] = IF i <= o[m - 1] THEN g[m - 1][i] ELSE seqs[m][i - o[m - 1]]
        <5>1. PICK a \in Seq(S), b \in Seq(S) : a = g[m - 1] /\ b = seqs[m]
          BY <3>1, <4>3
        <5>2. /\ a \o b \in Seq(S) /\ Len(a \o b) = Len(a) + Len(b)
              /\ \A i \in 1 .. Len(a) + Len(b) :
                   (a \o b)[i] = IF i <= Len(a) THEN a[i] ELSE b[i - Len(a)]
          BY ConcatProperties
        <5>3. g[m] = a \o b /\ Len(a) = o[m - 1] /\ Len(a) + Len(b) = o[m]
          BY <3>1, <4>1, <4>3, <5>1
        <5> QED
          BY <5>1, <5>2, <5>3
      <4>5. ASSUME NEW n \in 1 .. N, NEW i \in Nat, n <= m, i \in 1 .. Len(seqs[n])
            PROVE  g[m][o[n - 1] + i] = seqs[n][i]
        <5>1. CASE n = m
          <6>1. PICK j : j = o[m - 1] + i
            OBVIOUS
          <6>2. j \in 1 .. o[m] /\ ~(j <= o[m - 1]) /\ j - o[m - 1] = i
            <7>1. PICK q, L : q = o[m - 1] /\ L = Len(seqs[m])
              OBVIOUS
            <7>2. q \in Nat /\ L \in Nat /\ i \in 1 .. L /\ o[m] = q + L /\ j = q + i
              BY <3>1, <4>3, <4>5, <5>1, <6>1, <7>1
            <7>3. j \in 1 .. q + L /\ ~(j <= q) /\ j - q = i
              BY <7>2
            <7> QED
              BY <7>1, <7>2, <7>3
          <6> QED
            BY <4>4, <5>1, <6>1, <6>2
        <5>2. CASE n # m
          <6>1. n <= m - 1 /\ n - 1 \in 0 .. N /\ n \in 0 .. N /\ m - 1 \in 0 .. N
            BY <1>1, <4>5, <5>2
          <6>2. o[n] <= o[m - 1]
            BY <1>1, <6>1, SumsGrow, LengthsAre DEF o
          <6>3. o[n] = o[n - 1] + Len(seqs[n]) /\ o[n - 1] \in Nat /\ o[n] \in Nat
            BY <1>2, <6>1
          <6>4. PICK j : j = o[n - 1] + i
            OBVIOUS
          <6>5. j \in 1 .. o[m] /\ j <= o[m - 1]
            <7>1. PICK q, p, e, L, M : /\ q = o[m - 1] /\ p = o[n - 1] /\ e = o[n]
                                       /\ L = Len(seqs[n]) /\ M = Len(seqs[m])
              OBVIOUS
            <7>2. /\ q \in Nat /\ p \in Nat /\ e = p + L /\ e <= q /\ i \in 1 .. L
                  /\ M \in Nat /\ o[m] = q + M /\ j = p + i /\ i \in Nat
              BY <3>1, <4>3, <4>5, <6>2, <6>3, <6>4, <7>1
            <7>3. L \in Nat
              BY <7>1
            <7>4. j \in 1 .. q + M /\ j <= q
              BY <7>2, <7>3
            <7> QED
              BY <7>1, <7>2, <7>4
          <6>6. g[m - 1][o[n - 1] + i] = seqs[n][i]
            BY <4>2, <4>5, <6>1
          <6> QED
            BY <4>4, <6>4, <6>5, <6>6
        <5> QED
          BY <5>1, <5>2
      <4> QED
        BY <4>4, <4>5
    <3> QED
      BY <3>2, <3>3
  <2> HIDE DEF T
  <2>4. \A n \in 0 .. N : n \in T
    BY <1>1, <2>2, <2>3, UpTo
  <2>5. Joins(N)
    BY <1>1, <1>4, <2>4 DEF T
  <2>6. \A n \in 1 .. N, i \in Nat :
          i \in 1 .. Len(seqs[n]) => g[N][o[n - 1] + i] = seqs[n][i]
    BY <1>1, <2>5
  <2> QED
    BY <1>1, <2>1, <2>5, <2>6 DEF IsJoined, o
<1> QED
  BY <1>1, <1>3, <1>4

-------------------------------------------------------------------------------
(* What is saved: items, with their places in the data. *)

Item ==
  [kind : {"word", "double"}, v : Int] \cup [kind : {"string"}, v : STRING]
    \cup [kind : {"code"}, v : Seq(Int) \ {<<>>}]

SizeOf(item) ==
  CASE item.kind = "double" -> 2
    [] item.kind = "code"   -> Len(item.v)
    [] OTHER                -> 1

Sizes(items) == [j \in DOMAIN items |-> SizeOf(items[j])]
Places(items) == SumsOf(Sizes(items))

(* The items of x.items are to be in x.data, each behind the words that    *)
(* x.place counts, strings in the table x.strings.                         *)
SpelledAt(item, data, strings, at) ==
  /\ item.kind = "word" => data[at + 1] = item.v
  /\ item.kind = "double" =>
       data[at + 1] = IntegerPart(item.v) /\ data[at + 2] = DecimalPart(item.v)
  /\ item.kind = "code" => \A i \in 1 .. Len(item.v) : data[at + i] = item.v[i]
  /\ item.kind = "string" =>
       \/ item.v = "" /\ data[at + 1] = 0
       \/ /\ data[at + 1] \in 1 .. Len(strings)
          /\ strings[data[at + 1]] = item.v

Spelled(x, j) == SpelledAt(x.items[j], x.data, x.strings, x.place[j - 1])

Held(x, k) == x.place[k] <= Len(x.data)

IsPlaced(x) ==
  /\ x.items \in Seq(Item)
  /\ x.place \in [0 .. Len(x.items) -> Nat] /\ x.place[0] = 0
  /\ \A j \in 1 .. Len(x.items) :
       x.place[j] = x.place[j - 1] + SizeOf(x.items[j]) /\ SizeOf(x.items[j]) \in Nat \ {0}
  /\ \A a, b \in 0 .. Len(x.items) : a <= b => x.place[a] <= x.place[b]

(* Every item for which the data is long enough is there. *)
IsText(x) ==
  /\ IsPlaced(x)
  /\ x.data \in Seq(Int) /\ x.strings \in Seq(STRING)
  /\ \A j \in 1 .. Len(x.items) : Held(x, j) => Spelled(x, j)

LEMMA ItemIs ==
  ASSUME NEW it \in Item
  PROVE  /\ SizeOf(it) \in Nat \ {0}
         /\ it.kind \in {"word", "double", "string", "code"}
         /\ it.kind \in {"word", "double"} => it.v \in Int
         /\ it.kind = "string" => it.v \in STRING
         /\ it.kind = "code" => it.v \in Seq(Int) /\ it.v # <<>> /\ SizeOf(it) = Len(it.v)
         /\ it.kind \in {"word", "string"} => SizeOf(it) = 1
         /\ it.kind = "double" => SizeOf(it) = 2
<1>1. CASE it \in [kind : {"word", "double"}, v : Int]
  BY <1>1 DEF SizeOf
<1>2. CASE it \in [kind : {"string"}, v : STRING]
  BY <1>2 DEF SizeOf
<1>3. CASE it \in [kind : {"code"}, v : Seq(Int) \ {<<>>}]
  <2>1. it.v \in Seq(Int) /\ it.v # <<>>
    BY <1>3
  <2>2. Len(it.v) \in Nat \ {0}
    BY <2>1
  <2> QED
    BY <1>3, <2>1, <2>2 DEF SizeOf
<1> QED
  BY <1>1, <1>2, <1>3 DEF Item

LEMMA PlacesAre ==
  ASSUME NEW x, x.items \in Seq(Item), x.place = Places(x.items)
  PROVE  IsPlaced(x)
<1> DEFINE ns == Sizes(x.items)
<1>1. /\ ns \in Seq(Nat) /\ Len(ns) = Len(x.items) /\ Len(x.items) \in Nat
      /\ \A j \in 1 .. Len(x.items) : ns[j] = SizeOf(x.items[j]) /\ SizeOf(x.items[j]) \in Nat \ {0}
  <2>1. \A j \in DOMAIN x.items : SizeOf(x.items[j]) \in Nat \ {0}
    <3> SUFFICES ASSUME NEW j \in DOMAIN x.items PROVE SizeOf(x.items[j]) \in Nat \ {0}
      OBVIOUS
    <3>1. x.items[j] \in Item
      OBVIOUS
    <3> QED
      BY <3>1, ItemIs
  <2>2. PICK items \in Seq(Item) : items = x.items
    OBVIOUS
  <2>3. ns = [j \in DOMAIN items |-> SizeOf(items[j])] /\ DOMAIN items = 1 .. Len(items)
    BY <2>2 DEF Sizes
  <2> HIDE DEF ns
  <2> QED
    BY <2>1, <2>2, <2>3
<1>2. IsSums(x.place, ns)
  <2> HIDE DEF ns
  <2> QED
    BY <1>1, SumsAre DEF Places, ns
<1>3. \A a, b \in 0 .. Len(x.items) : a <= b => x.place[a] <= x.place[b]
  <2> HIDE DEF ns
  <2>1. PICK f : f = x.place
    OBVIOUS
  <2>2. \A a, b \in 0 .. Len(ns) : a <= b => f[a] <= f[b]
    BY <1>1, <1>2, <2>1, SumsGrow
  <2> QED
    BY <1>1, <2>1, <2>2
<1> HIDE DEF ns
<1> QED
  BY <1>1, <1>2, <1>3 DEF IsSums, IsPlaced

-------------------------------------------------------------------------------
(* Writing. *)

Buffer == [size : Nat \ {0}, data : Seq(Int), strings : Seq(STRING), error : BOOLEAN]
Fits(b) == Len(b.data) <= b.size /\ Len(b.strings) < b.size


(* The first m items are in the buffer; it ends before the m-th is         *)
(* complete if there was an error.                                         *)
Holds(x, b, m) ==
  /\ b \in Buffer /\ Fits(b)
  /\ m \in 0 .. Len(x.items)
  /\ \A j \in 1 .. m :
       x.place[j] <= Len(b.data) =>
         SpelledAt(x.items[j], b.data, b.strings, x.place[j - 1])
  /\ IF b.error THEN Len(b.data) < x.place[m] ELSE Len(b.data) = x.place[m]

LEMMA BufferIs ==
  ASSUME NEW b \in Buffer
  PROVE  /\ b.size \in Nat \ {0} /\ b.data \in Seq(Int) /\ b.strings \in Seq(STRING)
         /\ b.error \in BOOLEAN /\ Len(b.data) \in Nat /\ Len(b.strings) \in Nat
<1>1. /\ b.size \in Nat \ {0} /\ b.data \in Seq(Int) /\ b.strings \in Seq(STRING)
      /\ b.error \in BOOLEAN
  BY DEF Buffer
<1> QED
  BY <1>1

LEMMA AllocIs ==
  ASSUME NEW b \in Buffer, Fits(b), NEW ws \in Seq(Int)
  PROVE  /\ Alloc(b, ws) \in Buffer /\ Fits(Alloc(b, ws))
         /\ Alloc(b, ws).size = b.size /\ Alloc(b, ws).strings = b.strings
         /\ b.error => Alloc(b, ws).error
         /\ Alloc(b, ws).error => Alloc(b, ws).data = b.data
         /\ ~Alloc(b, ws).error =>
              /\ Len(Alloc(b, ws).data) = Len(b.data) + Len(ws)
              /\ \A i \in 1 .. Len(b.data) : Alloc(b, ws).data[i] = b.data[i]
              /\ \A i \in 1 .. Len(ws) : Alloc(b, ws).data[Len(b.data) + i] = ws[i]
<1>1. /\ b.size \in Nat \ {0} /\ b.data \in Seq(Int) /\ b.strings \in Seq(STRING)
      /\ b.error \in BOOLEAN /\ Len(b.data) \in Nat /\ Len(ws) \in Nat
  BY DEF Buffer
<1>2. CASE b.error \/ b.size - Len(b.data) < Len(ws)
  BY <1>1, <1>2 DEF Alloc, Buffer, Fits
<1>3. CASE ~(b.error \/ b.size - Len(b.data) < Len(ws))
  <2>1. PICK d \in Seq(Int) : d = b.data
    BY <1>1
  <2>2. /\ d \o ws \in Seq(Int) /\ Len(d \o ws) = Len(d) + Len(ws)
        /\ \A i \in 1 .. Len(d) + Len(ws) :
             (d \o ws)[i] = IF i <= Len(d) THEN d[i] ELSE ws[i - Len(d)]
    BY ConcatProperties
  <2>3. PICK c : c = [b EXCEPT !.data = d \o ws]
    OBVIOUS
  <2>4. Alloc(b, ws) = c
    BY <1>3, <2>1, <2>3 DEF Alloc
  <2>5. /\ c \in Buffer /\ c.size = b.size /\ c.strings = b.strings /\ c.error = b.error
        /\ c.data = d \o ws
    BY <1>1, <2>2, <2>3 DEF Buffer
  <2>6. Len(c.data) <= b.size
    BY <1>1, <1>3, <2>1, <2>2, <2>5
  <2>7. \A i \in 1 .. Len(d) : c.data[i] = d[i]
    BY <1>1, <2>1, <2>2, <2>5
  <2>8. ASSUME NEW i \in 1 .. Len(ws) PROVE c.data[Len(d) + i] = ws[i]
    <3>1. PICK l, j : l = Len(d) /\ j = l + i
      OBVIOUS
    <3>2. j \in 1 .. Len(d) + Len(ws) /\ ~(j <= Len(d)) /\ j - Len(d) = i
      BY <1>1, <2>1, <3>1, SMTT(30)
    <3> QED
      BY <2>2, <2>5, <3>1, <3>2
  <2> QED
    BY <1>3, <2>1, <2>2, <2>4, <2>5, <2>6, <2>7, <2>8 DEF Fits
<1> QED
  BY <1>2, <1>3

(* c is b with something behind it. *)
Extends(c, b) ==
  /\ c \in Buffer /\ Fits(c) /\ c.size = b.size
  /\ Len(b.data) <= Len(c.data) /\ \A i \in 1 .. Len(b.data) : c.data[i] = b.data[i]
  /\ Len(b.strings) <= Len(c.strings)
  /\ \A i \in 1 .. Len(b.strings) : c.strings[i] = b.strings[i]

IsWrittenBy(c, b, item) ==
  /\ Extends(c, b)
  /\ b.error => c.error /\ c.data = b.data
  /\ ~b.error =>
       IF c.error THEN Len(c.data) < Len(b.data) + SizeOf(item)
       ELSE /\ Len(c.data) = Len(b.data) + SizeOf(item)
            /\ SpelledAt(item, c.data, c.strings, Len(b.data))

LEMMA ExtendsSelf ==
  ASSUME NEW b \in Buffer, Fits(b), NEW c \in Buffer, Fits(c),
         c.size = b.size, c.data = b.data, c.strings = b.strings
  PROVE  Extends(c, b)
BY BufferIs DEF Extends

LEMMA PutWord ==
  ASSUME NEW b \in Buffer, Fits(b), NEW w \in Int
  PROVE  LET c == Alloc(b, <<w>>) IN
         /\ Extends(c, b) /\ c.strings = b.strings
         /\ c.error => c.data = b.data
         /\ b.error => c.error
         /\ c.error <=> b.error \/ b.size - Len(b.data) < 1
         /\ ~c.error => Len(c.data) = Len(b.data) + 1 /\ c.data[Len(b.data) + 1] = w
<1>1. PICK ws \in Seq(Int) : ws = <<w>>
  <2>1. <<w>> \in Seq(Int)
    OBVIOUS
  <2> QED
    BY <2>1
<1>2. Len(ws) = 1 /\ ws[1] = w /\ Len(b.data) \in Nat /\ Len(b.strings) \in Nat
  BY <1>1, BufferIs
<1>3. PICK c : c = Alloc(b, ws)
  OBVIOUS
<1>4. /\ c \in Buffer /\ Fits(c) /\ c.size = b.size /\ c.strings = b.strings
      /\ b.error => c.error
      /\ c.error => c.data = b.data
      /\ ~c.error =>
           /\ Len(c.data) = Len(b.data) + 1
           /\ \A i \in 1 .. Len(b.data) : c.data[i] = b.data[i]
           /\ c.data[Len(b.data) + 1] = w
  <2>1. 1 \in 1 .. Len(ws)
    BY <1>2
  <2> HIDE <1>1
  <2> QED
    BY <1>2, <1>3, <2>1, AllocIs, ZenonT(60)
<1>5. Extends(c, b)
  <2>1. CASE c.error
    BY <1>4, <2>1, ExtendsSelf
  <2>2. CASE ~c.error
    BY <1>2, <1>4, <2>2 DEF Extends
  <2> QED
    BY <2>1, <2>2
<1>6. c.error <=> b.error \/ b.size - Len(b.data) < 1
  <2>1. CASE b.error \/ b.size - Len(b.data) < 1
    <3>1. b.error \/ b.size - Len(b.data) < Len(ws)
      BY <1>2, <2>1
    <3>2. c = [b EXCEPT !.error = TRUE]
      BY <1>3, <3>1 DEF Alloc
    <3>3. c.error
      BY <3>2 DEF Buffer
    <3> QED
      BY <2>1, <3>3
  <2>2. CASE ~(b.error \/ b.size - Len(b.data) < 1)
    <3>1. ~(b.error \/ b.size - Len(b.data) < Len(ws))
      BY <1>2, <2>2
    <3>2. c = [b EXCEPT !.data = @ \o ws]
      BY <1>3, <3>1 DEF Alloc
    <3>3. c.error = b.error
      BY <3>2 DEF Buffer
    <3> QED
      BY <2>2, <3>3
  <2> QED
    BY <2>1, <2>2
<1> QED
  BY <1>1, <1>3, <1>4, <1>5, <1>6

LEMMA PutCode ==
  ASSUME NEW b \in Buffer, Fits(b), NEW item \in Item, item.kind = "code"
  PROVE  IsWrittenBy(Alloc(b, item.v), b, item)
<1>1. PICK ws \in Seq(Int) : ws = item.v /\ SizeOf(item) = Len(ws) /\ Len(ws) \in Nat \ {0}
  BY ItemIs
<1>2. Len(b.data) \in Nat /\ Len(b.strings) \in Nat
  BY BufferIs
<1>3. PICK c : c = Alloc(b, ws)
  OBVIOUS
<1>4. /\ c \in Buffer /\ Fits(c) /\ c.size = b.size /\ c.strings = b.strings
      /\ b.error => c.error
      /\ c.error => c.data = b.data
      /\ ~c.error =>
           /\ Len(c.data) = Len(b.data) + Len(ws)
           /\ \A i \in 1 .. Len(b.data) : c.data[i] = b.data[i]
           /\ \A i \in 1 .. Len(ws) : c.data[Len(b.data) + i] = ws[i]
  BY <1>3, AllocIs
<1>5. Extends(c, b)
  <2>1. CASE c.error
    BY <1>4, <2>1, ExtendsSelf
  <2>2. CASE ~c.error
    <3>1. PICK m, n, l : m = Len(b.data) /\ n = Len(ws) /\ l = Len(c.data)
      OBVIOUS
    <3>2. m \in Nat /\ n \in Nat /\ l = m + n
      BY <1>1, <1>2, <1>4, <2>2, <3>1
    <3>3. m <= l
      BY <3>2
    <3> QED
      BY <1>2, <1>4, <2>2, <3>1, <3>3 DEF Extends
  <2> QED
    BY <2>1, <2>2
<1>6. ~c.error => SpelledAt(item, c.data, c.strings, Len(b.data))
  BY <1>1, <1>4 DEF SpelledAt
<1>7. c.error => Len(c.data) < Len(b.data) + SizeOf(item)
  <2> HIDE <1>4
  <2>1. PICK m, n : m = Len(b.data) /\ n = Len(ws)
    OBVIOUS
  <2>2. m \in Nat /\ n \in Nat \ {0}
    BY <1>1, <1>2, <2>1
  <2>3. m < m + n
    BY <2>2
  <2> QED
    BY <1>1, <1>4, <2>1, <2>3
<1> QED
  BY <1>1, <1>3, <1>4, <1>5, <1>6, <1>7 DEF IsWrittenBy

LEMMA PutStringIs ==
  ASSUME NEW b \in Buffer, Fits(b), NEW item \in Item, item.kind = "string"
  PROVE  IsWrittenBy(PutString(b, item.v), b, item)
<1>1. item.v \in STRING /\ SizeOf(item) = 1
  BY ItemIs
<1>2. /\ Len(b.data) \in Nat /\ Len(b.strings) \in Nat /\ b.strings \in Seq(STRING)
      /\ b.error \in BOOLEAN /\ b.size \in Nat
  BY BufferIs
<1>3. PICK c : c = PutString(b, item.v)
  OBVIOUS

<1>5. CASE ~b.error /\ item.v = ""
  <2>1. c = Alloc(b, <<0>>)
    BY <1>3, <1>5 DEF PutString
  <2>2. /\ Extends(c, b) /\ c.strings = b.strings
        /\ c.error => c.data = b.data
        /\ ~c.error => Len(c.data) = Len(b.data) + 1 /\ c.data[Len(b.data) + 1] = 0
    BY <2>1, PutWord
  <2>3. ~c.error => SpelledAt(item, c.data, c.strings, Len(b.data))
    BY <1>5, <2>2 DEF SpelledAt
  <2>4. c.error => Len(c.data) < Len(b.data) + SizeOf(item)
    BY <1>1, <1>2, <2>2
  <2>5. IsWrittenBy(c, b, item)
    BY <1>1, <1>5, <2>2, <2>3, <2>4 DEF IsWrittenBy
  <2> QED
    BY <1>3, <2>5
<1>6. CASE b.error \/ (item.v # "" /\ Len(b.strings) + 1 >= b.size)
  <2>1. c = [b EXCEPT !.error = TRUE]
    BY <1>3, <1>6 DEF PutString
  <2>2. c \in Buffer /\ Fits(c) /\ c.size = b.size /\ c.data = b.data /\ c.strings = b.strings
        /\ c.error
    BY <2>1 DEF Buffer, Fits
  <2>3. Extends(c, b)
    BY <2>2, ExtendsSelf
  <2>4. Len(c.data) < Len(b.data) + SizeOf(item)
    BY <1>1, <1>2, <2>2
  <2>5. IsWrittenBy(c, b, item)
    BY <1>6, <2>2, <2>3, <2>4 DEF IsWrittenBy
  <2> QED
    BY <1>3, <2>5
<1>7. CASE ~b.error /\ item.v # "" /\ ~(Len(b.strings) + 1 >= b.size)
  <2>0. PICK n : n = Len(b.strings) + 1
    OBVIOUS
  <2>1. PICK s : s = Append(b.strings, item.v)
    OBVIOUS
  <2>2. /\ s \in Seq(STRING) /\ Len(s) = n /\ s[n] = item.v
        /\ \A i \in 1 .. Len(b.strings) : s[i] = b.strings[i]
    <3>1. PICK t \in Seq(STRING), e \in STRING : t = b.strings /\ e = item.v
      BY <1>1, <1>2
    <3> QED
      BY <2>0, <2>1, <3>1, AppendProperties
  <2>3. PICK a : a = [b EXCEPT !.strings = s]
    OBVIOUS
  <2>4. c = Alloc(a, <<n>>)
    BY <1>3, <1>7, <2>0, <2>1, <2>3 DEF PutString
  <2>5. /\ a \in Buffer /\ a.size = b.size /\ a.data = b.data /\ a.strings = s
        /\ n \in Int
    BY <1>2, <2>0, <2>2, <2>3, SMTT(30) DEF Buffer
  <2>11. Fits(a)
    <3>1. PICK k, m, l : k = b.size /\ m = Len(b.data) /\ l = Len(b.strings)
      OBVIOUS
    <3>2. k \in Nat /\ m \in Nat /\ l \in Nat /\ n = l + 1 /\ ~(n >= k) /\ m <= k
      BY <1>2, <1>7, <2>0, <3>1 DEF Fits
    <3>3. m <= k /\ n < k
      BY <3>2
    <3> QED
      BY <2>2, <2>5, <3>1, <3>3 DEF Fits
  <2>6. /\ Extends(c, a) /\ c.strings = s
        /\ c.error => c.data = b.data
        /\ ~c.error => Len(c.data) = Len(b.data) + 1 /\ c.data[Len(b.data) + 1] = n
    BY <2>4, <2>5, <2>11, PutWord
  <2>7. Extends(c, b)
    BY <1>2, <2>0, <2>2, <2>5, <2>6 DEF Extends
  <2>8. ~c.error => SpelledAt(item, c.data, c.strings, Len(b.data))
    <3>1. n \in 1 .. Len(s)
      BY <1>2, <2>0, <2>2
    <3> QED
      BY <1>7, <2>2, <2>6, <3>1 DEF SpelledAt
  <2>9. c.error => Len(c.data) < Len(b.data) + SizeOf(item)
    BY <1>1, <1>2, <2>6
  <2>10. IsWrittenBy(c, b, item)
    BY <1>1, <1>7, <2>6, <2>7, <2>8, <2>9 DEF IsWrittenBy
  <2> QED
    BY <1>3, <2>10
<1> QED
  BY <1>2, <1>5, <1>6, <1>7

LEMMA PartsAre ==
  ASSUME NEW d \in Int
  PROVE  IntegerPart(d) \in Int /\ DecimalPart(d) \in Int
<1>1. PICK m \in Nat : m = Magnitude(d)
  BY DEF Magnitude
<1>2. PICK q \in Int : q = m \div 10000
  OBVIOUS
<1>3. PICK i \in Int : i = IntegerPart(d)
  BY <1>1, <1>2 DEF IntegerPart
<1>4. m - 10000 * i \in Int
  OBVIOUS
<1>5. (m - 10000 * i) \div 10 \in Int
  BY <1>4
<1> QED
  BY <1>1, <1>3, <1>5 DEF DecimalPart

(* A double is saved as a whole or not at all: what is left of one that    *)
(* does not fit is a zero, and the error of the buffer.                    *)
LEMMA PutDoubleIs ==
  ASSUME NEW b \in Buffer, Fits(b), NEW item \in Item, item.kind = "double"
  PROVE  IsWrittenBy(PutDouble(b, item.v), b, item)
<1>1. item.v \in Int /\ SizeOf(item) = 2
  BY ItemIs
<1>2. PICK i \in Int, d \in Int : i = IntegerPart(item.v) /\ d = DecimalPart(item.v)
  BY <1>1, PartsAre
<1>3. PICK p : p = Alloc(b, <<i>>)
  OBVIOUS
<1>4. PICK q : q = Alloc(p, <<d>>)
  OBVIOUS
<1>5. PICK y : y = Alloc(b, <<0>>)
  OBVIOUS
<1>6. PICK z : z = Alloc(y, <<0>>)
  OBVIOUS
<1>7. PutDouble(b, item.v) = IF q.error THEN z ELSE q
  BY <1>2, <1>3, <1>4, <1>5, <1>6 DEF PutDouble
<1>8. PICK n \in Nat, s \in Nat : n = Len(b.data) /\ s = b.size
  BY BufferIs
<1>9. /\ Extends(p, b) /\ p.strings = b.strings
      /\ p.error => p.data = b.data
      /\ b.error => p.error
      /\ p.error <=> b.error \/ s - n < 1
      /\ ~p.error => Len(p.data) = n + 1 /\ p.data[n + 1] = i
  BY <1>3, <1>8, PutWord
<1>10. /\ Extends(y, b) /\ y.strings = b.strings
       /\ y.error => y.data = b.data
       /\ b.error => y.error
       /\ y.error <=> b.error \/ s - n < 1
       /\ ~y.error => Len(y.data) = n + 1
  BY <1>5, <1>8, PutWord
<1>11. p \in Buffer /\ Fits(p) /\ p.size = s /\ y \in Buffer /\ Fits(y) /\ y.size = s
  BY <1>8, <1>9, <1>10 DEF Extends
<1>12. /\ Extends(q, p) /\ q.strings = p.strings
       /\ q.error => q.data = p.data
       /\ p.error => q.error
       /\ q.error <=> p.error \/ s - Len(p.data) < 1
       /\ ~q.error => Len(q.data) = Len(p.data) + 1 /\ q.data[Len(p.data) + 1] = d
  BY <1>4, <1>11, PutWord
<1>13. /\ Extends(z, y) /\ z.strings = y.strings
       /\ z.error => z.data = y.data
       /\ y.error => z.error
       /\ z.error <=> y.error \/ s - Len(y.data) < 1
  BY <1>6, <1>11, PutWord
<1>14. ASSUME NEW u, NEW v, Extends(u, b), Extends(v, u) PROVE Extends(v, b)
  <2>1. PICK i1, i2, j1, j2, k1, k2 \in Nat :
          /\ i1 = Len(b.data) /\ i2 = Len(b.strings) /\ j1 = Len(u.data)
          /\ j2 = Len(u.strings) /\ k1 = Len(v.data) /\ k2 = Len(v.strings)
    BY <1>14, BufferIs DEF Extends
  <2>2. i1 <= j1 /\ j1 <= k1 /\ i2 <= j2 /\ j2 <= k2
    BY <1>14, <2>1 DEF Extends
  <2>3. \A a \in 1 .. i1 : u.data[a] = b.data[a] /\ v.data[a] = u.data[a]
    BY <1>14, <2>1, <2>2 DEF Extends
  <2>4. \A a \in 1 .. i2 : u.strings[a] = b.strings[a] /\ v.strings[a] = u.strings[a]
    BY <1>14, <2>1, <2>2 DEF Extends
  <2>5. v \in Buffer /\ Fits(v) /\ v.size = b.size /\ i1 <= k1 /\ i2 <= k2
    BY <1>14, <2>2 DEF Extends
  <2> QED
    BY <2>1, <2>3, <2>4, <2>5 DEF Extends
<1>15. Extends(q, b) /\ Extends(z, b)
  BY <1>9, <1>10, <1>12, <1>13, <1>14
<1>16. CASE q.error
  <2>1. y.error = p.error /\ y.error \in BOOLEAN /\ p.error \in BOOLEAN
    BY <1>9, <1>10, <1>11, BufferIs
  <2>2. z.error
    BY <1>8, <1>9, <1>10, <1>12, <1>13, <1>16, <2>1
  <2>3. b.error => z.data = b.data
    BY <1>10, <1>13, <2>2
  <2>4. ~b.error => Len(z.data) < n + 2
    BY <1>8, <1>10, <1>13, <2>2
  <2>5. IsWrittenBy(z, b, item)
    BY <1>1, <1>8, <1>15, <2>2, <2>3, <2>4 DEF IsWrittenBy
  <2> QED
    BY <1>7, <1>16, <2>5
<1>17. CASE ~q.error
  <2>1. ~p.error /\ ~b.error /\ Len(p.data) = n + 1 /\ p.data[n + 1] = i
    BY <1>9, <1>12, <1>17
  <2>2. Len(q.data) = n + 2 /\ q.data[n + 2] = d
    <3>1. (n + 1) + 1 = n + 2
      OBVIOUS
    <3> QED
      BY <1>12, <1>17, <2>1, <3>1
  <2>3. q.data[n + 1] = i
    <3>1. n + 1 \in 1 .. Len(p.data)
      BY <2>1
    <3>2. q.data[n + 1] = p.data[n + 1]
      BY <1>12, <3>1 DEF Extends
    <3> QED
      BY <2>1, <3>2
  <2>4. SpelledAt(item, q.data, q.strings, n)
    BY <1>2, <2>2, <2>3 DEF SpelledAt
  <2>5. IsWrittenBy(q, b, item)
    BY <1>1, <1>8, <1>15, <1>17, <2>1, <2>2, <2>4 DEF IsWrittenBy
  <2> QED
    BY <1>7, <1>17, <2>5
<1> QED
  BY <1>16, <1>17

(* Every item is written as it is to be, or it is an error. *)
LEMMA PutIs ==
  ASSUME NEW b \in Buffer, Fits(b), NEW item \in Item
  PROVE  IsWrittenBy(Put(b, item), b, item)
<1>1. item.kind \in {"word", "double", "string", "code"}
  BY ItemIs
<1>2. CASE item.kind = "word"
  <2>1. item.v \in Int /\ SizeOf(item) = 1
    BY <1>2, ItemIs
  <2>2. PICK c : c = Alloc(b, <<item.v>>)
    OBVIOUS
  <2>3. Put(b, item) = c
    BY <1>2, <2>2 DEF Put
  <2>4. PICK n \in Nat : n = Len(b.data)
    BY BufferIs
  <2>5. /\ Extends(c, b)
        /\ c.error => c.data = b.data
        /\ b.error => c.error
        /\ ~c.error => Len(c.data) = n + 1 /\ c.data[n + 1] = item.v
    BY <2>1, <2>2, <2>4, PutWord
  <2>6. ~c.error => SpelledAt(item, c.data, c.strings, n)
    BY <1>2, <2>5 DEF SpelledAt
  <2>7. c.error => Len(c.data) < n + 1
    BY <2>4, <2>5
  <2>8. IsWrittenBy(c, b, item)
    BY <2>1, <2>4, <2>5, <2>6, <2>7 DEF IsWrittenBy
  <2> QED
    BY <2>3, <2>8
<1>3. CASE item.kind = "code"
  <2>1. Put(b, item) = Alloc(b, item.v)
    BY <1>3 DEF Put
  <2> QED
    BY <1>3, <2>1, PutCode
<1>4. CASE item.kind = "string"
  <2>1. Put(b, item) = PutString(b, item.v)
    BY <1>4 DEF Put
  <2> QED
    BY <1>4, <2>1, PutStringIs
<1>5. CASE item.kind = "double"
  <2>1. Put(b, item) = PutDouble(b, item.v)
    BY <1>5 DEF Put
  <2> QED
    BY <1>5, <2>1, PutDoubleIs
<1> QED
  BY <1>1, <1>2, <1>3, <1>4, <1>5

LEMMA SpelledKeeps ==
  ASSUME NEW b \in Buffer, NEW c, Extends(c, b), NEW item \in Item, NEW at \in Nat,
         at + SizeOf(item) <= Len(b.data), SpelledAt(item, b.data, b.strings, at)
  PROVE  SpelledAt(item, c.data, c.strings, at)
<1>1. PICK n \in Nat, l \in Nat : n = Len(b.data) /\ l = Len(b.strings)
  BY BufferIs
<1>2. PICK k \in Nat : k = Len(c.strings) /\ l <= k
  BY <1>1, BufferIs DEF Extends
<1>3. PICK s \in Nat \ {0} : s = SizeOf(item) /\ at + s <= n
  BY <1>1, ItemIs
<1>4. \A i \in 1 .. s : c.data[at + i] = b.data[at + i]
  <2> SUFFICES ASSUME NEW i \in 1 .. s PROVE c.data[at + i] = b.data[at + i]
    OBVIOUS
  <2>1. PICK j : j = at + i
    OBVIOUS
  <2>2. j \in 1 .. n
    BY <1>3, <2>1
  <2> QED
    BY <1>1, <2>1, <2>2 DEF Extends
<1>5. c.data[at + 1] = b.data[at + 1]
  <2>1. 1 \in 1 .. s
    OBVIOUS
  <2> QED
    BY <1>4, <2>1
<1>6. ASSUME item.kind = "word" PROVE c.data[at + 1] = item.v
  BY <1>5, <1>6 DEF SpelledAt
<1>7. ASSUME item.kind = "double"
      PROVE  c.data[at + 1] = IntegerPart(item.v) /\ c.data[at + 2] = DecimalPart(item.v)
  <2>1. 2 \in 1 .. s
    BY <1>3, <1>7, ItemIs
  <2>2. c.data[at + 2] = b.data[at + 2]
    BY <1>4, <2>1
  <2> QED
    BY <1>5, <1>7, <2>2 DEF SpelledAt
<1>8. ASSUME item.kind = "code" PROVE \A i \in 1 .. Len(item.v) : c.data[at + i] = item.v[i]
  <2>1. s = Len(item.v)
    BY <1>3, <1>8, ItemIs
  <2>2. \A i \in 1 .. s : b.data[at + i] = item.v[i]
    BY <1>8, <2>1 DEF SpelledAt
  <2> QED
    BY <1>4, <2>1, <2>2
<1>9. ASSUME item.kind = "string"
      PROVE  \/ item.v = "" /\ c.data[at + 1] = 0
             \/ c.data[at + 1] \in 1 .. Len(c.strings) /\ c.strings[c.data[at + 1]] = item.v
  <2>1. CASE item.v = "" /\ b.data[at + 1] = 0
    BY <1>5, <2>1
  <2>2. CASE ~(item.v = "" /\ b.data[at + 1] = 0)
    <3>1. PICK w : w = b.data[at + 1]
      OBVIOUS
    <3>2. w \in 1 .. l /\ b.strings[w] = item.v
      BY <1>1, <1>9, <2>2, <3>1 DEF SpelledAt
    <3>3. w \in 1 .. k
      BY <1>2, <3>2
    <3>4. c.strings[w] = b.strings[w]
      BY <1>1, <3>2 DEF Extends
    <3> QED
      BY <1>2, <1>5, <3>1, <3>2, <3>3, <3>4
  <2> QED
    BY <2>1, <2>2
<1> QED
  BY <1>6, <1>7, <1>8, <1>9 DEF SpelledAt

LEMMA PutHolds ==
  ASSUME NEW x, IsPlaced(x), NEW m \in 1 .. Len(x.items), NEW b, Holds(x, b, m - 1)
  PROVE  Holds(x, Put(b, x.items[m]), m)
<1>1. PICK N \in Nat : N = Len(x.items)
  BY DEF IsPlaced
<1>2. PICK p \in [0 .. N -> Nat] : p = x.place
  BY <1>1 DEF IsPlaced
<1>3. m \in 1 .. N /\ m - 1 \in 0 .. N /\ m \in 0 .. N
  BY <1>1
<1>4. PICK item \in Item : item = x.items[m]
  BY <1>1 DEF IsPlaced
<1>5. b \in Buffer /\ Fits(b)
  BY DEF Holds
<1>6. PICK c : c = Put(b, item)
  OBVIOUS
<1>7. IsWrittenBy(c, b, item)
  BY <1>5, <1>6, PutIs
<1>8. PICK n \in Nat, k \in Nat : n = Len(b.data) /\ k = Len(c.data) /\ n <= k
  BY <1>5, <1>7, BufferIs DEF IsWrittenBy, Extends
<1>9. PICK s \in Nat \ {0} : s = SizeOf(item) /\ p[m] = p[m - 1] + s
  BY <1>1, <1>2, <1>4, ItemIs DEF IsPlaced
<1>10. p[m] \in Nat /\ p[m - 1] \in Nat
  BY <1>3
<1>11. IF b.error THEN n < p[m - 1] ELSE n = p[m - 1]
  BY <1>2, <1>8 DEF Holds
<1>12. Extends(c, b)
  BY <1>7 DEF IsWrittenBy
<1>13. b.error => c.error /\ k = n
  BY <1>7, <1>8 DEF IsWrittenBy
<1>14. ~b.error => IF c.error THEN k < n + s
                   ELSE k = n + s /\ SpelledAt(item, c.data, c.strings, n)
  BY <1>7, <1>8, <1>9 DEF IsWrittenBy
<1>15. b.error \in BOOLEAN /\ c.error \in BOOLEAN
  BY <1>5, <1>12, BufferIs DEF Extends
<1>16. IF c.error THEN k < p[m] ELSE k = p[m]
  BY <1>9, <1>10, <1>11, <1>13, <1>14, <1>15
<1>17. ASSUME NEW j \in 1 .. m, p[j] <= k
       PROVE  SpelledAt(x.items[j], c.data, c.strings, p[j - 1])
  <2>1. CASE j = m
    <3>1. ~c.error /\ ~b.error /\ n = p[m - 1]
      BY <1>10, <1>11, <1>13, <1>15, <1>16, <1>17, <2>1
    <3> QED
      BY <1>4, <1>14, <2>1, <3>1
  <2>2. CASE j # m
    <3>1. j \in 1 .. m - 1 /\ j \in 1 .. N /\ j - 1 \in 0 .. N /\ j \in 0 .. N /\ j <= m - 1
      BY <1>3, <2>2
    <3>2. p[j] <= p[m - 1] /\ p[j] \in Nat /\ p[j - 1] \in Nat
      <4>1. \A q, r \in 0 .. N : q <= r => p[q] <= p[r]
        BY <1>1, <1>2 DEF IsPlaced
      <4> QED
        BY <1>3, <3>1, <4>1
    <3>3. p[j] <= n
      BY <1>10, <1>11, <1>13, <1>15, <1>17, <3>2
    <3>4. SpelledAt(x.items[j], b.data, b.strings, p[j - 1])
      BY <1>2, <1>8, <3>1, <3>3 DEF Holds
    <3>5. x.items[j] \in Item /\ p[j - 1] + SizeOf(x.items[j]) = p[j]
      BY <1>1, <1>2, <3>1 DEF IsPlaced
    <3> QED
      BY <1>5, <1>8, <1>12, <3>2, <3>3, <3>4, <3>5, SpelledKeeps
  <2> QED
    BY <2>1, <2>2
<1>18. c \in Buffer /\ Fits(c)
  BY <1>12 DEF Extends
<1>19. Holds(x, c, m)
  BY <1>1, <1>2, <1>3, <1>8, <1>16, <1>17, <1>18 DEF Holds
<1> QED
  BY <1>4, <1>6, <1>19

LEMMA PutAllHolds ==
  ASSUME NEW x, IsPlaced(x), NEW m \in Nat, NEW b, Holds(x, b, m),
         NEW items \in Seq(Item), m + Len(items) <= Len(x.items),
         \A i \in 1 .. Len(items) : x.items[m + i] = items[i]
  PROVE  Holds(x, PutAll(b, items), m + Len(items))
<1> DEFINE Is(f) == f = [n \in 0 .. Len(items) |->
                           IF n = 0 THEN b ELSE Put(f[n - 1], items[n])]
           N == Len(items)
           V == {c \in Buffer : Fits(c)}
           F == [y \in (1 .. N) \X V |-> Put(y[2], items[y[1]])]
<1>1. N \in Nat /\ b \in V /\ Len(x.items) \in Nat
  BY DEF Holds, IsPlaced
<1>2. F \in [(1 .. N) \X V -> V]
  <2>1. ASSUME NEW n \in 1 .. N, NEW c \in V PROVE Put(c, items[n]) \in V
    <3>1. items[n] \in Item /\ c \in Buffer /\ Fits(c)
      OBVIOUS
    <3> QED
      BY <3>1, PutIs DEF IsWrittenBy, Extends
  <2> HIDE DEF V, N
  <2> QED
    BY <2>1
<1>3. PICK g : IsLoop(g, N, V, b, F)
  <2> HIDE DEF F, V, N
  <2> QED
    BY <1>1, <1>2, LoopExists
<1>4. Is(g)
  <2>1. ASSUME NEW n \in 1 .. N PROVE g[n] = Put(g[n - 1], items[n])
    <3>1. n - 1 \in 0 .. N
      BY <1>1
    <3>2. g[n - 1] \in V /\ g[n] = F[<<n, g[n - 1]>>]
      BY <1>3, <3>1 DEF IsLoop
    <3> HIDE DEF V
    <3> QED
      BY <3>2
  <2>2. g[0] = b /\ g = [n \in 0 .. N |-> g[n]]
    BY <1>3 DEF IsLoop
  <2>3. ASSUME NEW n \in 0 .. N PROVE g[n] = IF n = 0 THEN b ELSE Put(g[n - 1], items[n])
    <3>1. n = 0 \/ n \in 1 .. N
      BY <1>1
    <3> HIDE DEF N
    <3> QED
      BY <2>1, <2>2, <3>1
  <2>4. g = [n \in 0 .. N |-> IF n = 0 THEN b ELSE Put(g[n - 1], items[n])]
    <3> HIDE DEF N
    <3> QED
      BY <2>2, <2>3
  <2> QED
    BY <2>4
<1>5. PICK h : h = (CHOOSE f : Is(f))
  OBVIOUS
<1>6. Is(h)
  <2> HIDE DEF Is
  <2> QED
    BY <1>4, <1>5
<1>7. PutAll(b, items) = h[N]
  BY <1>5 DEF PutAll
<1> DEFINE S == {n \in 0 .. N : Holds(x, h[n], m + n)}
<1>8. 0 \in S
  <2>1. h[0] = b /\ m + 0 = m
    BY <1>1, <1>6
  <2> QED
    BY <1>1, <2>1
<1>9. ASSUME NEW n \in 1 .. N, n - 1 \in S PROVE n \in S
  <2>1. h[n] = Put(h[n - 1], items[n])
    BY <1>1, <1>6, SMTT(30)
  <2>2. PICK k : k = m + n
    OBVIOUS
  <2>3. k \in 1 .. Len(x.items) /\ m + (n - 1) = k - 1
    BY <1>1, <2>2
  <2>4. x.items[k] = items[n]
    BY <2>2
  <2>5. PICK c : c = h[n - 1]
    OBVIOUS
  <2>6. Holds(x, c, k - 1)
    BY <1>9, <2>3, <2>5
  <2>7. Holds(x, Put(c, x.items[k]), k)
    BY <2>3, <2>6, PutHolds
  <2> QED
    BY <2>1, <2>2, <2>4, <2>5, <2>7
<1>10. \A n \in 0 .. N : n \in S
  <2> HIDE DEF S, N
  <2> QED
    BY <1>1, <1>8, <1>9, UpTo
<1>11. N \in S
  BY <1>1, <1>10
<1> QED
  BY <1>7, <1>11

-------------------------------------------------------------------------------
(* Reading.  A reader is at the k-th item, with r words of memory left, or *)
(* past the end of the data.                                               *)

Reading ==
  [data : Seq(Int), strings : Seq(STRING), room : Int, errno : BOOLEAN,
   error : BOOLEAN, failed : BOOLEAN]

Rest(data, n) == SubSeq(data, n + 1, Len(data))

Here(x, k, r, e) ==
  [data |-> Rest(x.data, x.place[k]), strings |-> x.strings, room |-> r,
   errno |-> e, error |-> FALSE, failed |-> FALSE]

Past(b, e) == b \in Reading /\ b.data = <<>> /\ b.errno = e /\ (e => b.error)

At(x, b, k, r, e) == IF Held(x, k) THEN b = Here(x, k, r, e) ELSE Past(b, e)

(* The items of seq are those behind the k-th. *)
Block(x, k, seq) ==
  /\ k \in Nat /\ k + Len(seq) <= Len(x.items)
  /\ \A i \in 1 .. Len(seq) : x.items[k + i] = seq[i]

LEMMA RestIs ==
  ASSUME NEW data \in Seq(Int), NEW n \in Nat, n <= Len(data)
  PROVE  /\ Rest(data, n) \in Seq(Int) /\ Len(Rest(data, n)) = Len(data) - n
         /\ \A i \in 1 .. Len(data) - n : Rest(data, n)[i] = data[n + i]
<1>1. PICK l \in Nat : l = Len(data)
  OBVIOUS
<1>2. n + 1 \in Int /\ l \in Int /\ \A i \in n + 1 .. l : data[i] \in Int
  BY <1>1
<1>3. /\ SubSeq(data, n + 1, l) \in Seq(Int)
      /\ Len(SubSeq(data, n + 1, l)) = IF n + 1 <= l THEN l - (n + 1) + 1 ELSE 0
      /\ \A i \in 1 .. l - (n + 1) + 1 : SubSeq(data, n + 1, l)[i] = data[(n + 1) + i - 1]
  BY <1>2, SubSeqProperties
<1>4. (IF n + 1 <= l THEN l - (n + 1) + 1 ELSE 0) = l - n /\ l - (n + 1) + 1 = l - n
  BY <1>1
<1>5. \A i \in 1 .. l - n : (n + 1) + i - 1 = n + i
  OBVIOUS
<1> QED
  BY <1>1, <1>3, <1>4, <1>5 DEF Rest

LEMMA RestEnds ==
  ASSUME NEW data \in Seq(Int)
  PROVE  Rest(data, Len(data)) = <<>>
<1>1. PICK l \in Nat : l = Len(data)
  OBVIOUS
<1>2. PICK s : s = Rest(data, l)
  OBVIOUS
<1>3. s \in Seq(Int) /\ Len(s) = 0
  BY <1>1, <1>2, RestIs
<1> QED
  BY <1>1, <1>2, <1>3

LEMMA RestGoesOn ==
  ASSUME NEW data \in Seq(Int), NEW n \in Nat, NEW m \in Nat, n + m <= Len(data)
  PROVE  /\ SubSeq(Rest(data, n), m + 1, Len(Rest(data, n))) = Rest(data, n + m)
         /\ SubSeq(Rest(data, n), 1, m) \in Seq(Int)
         /\ Len(SubSeq(Rest(data, n), 1, m)) = m
         /\ \A i \in 1 .. m : SubSeq(Rest(data, n), 1, m)[i] = data[n + i]
<1>1. PICK l \in Nat : l = Len(data) /\ n + m <= l
  OBVIOUS
<1>2. PICK s \in Seq(Int) : s = Rest(data, n) /\ Len(s) = l - n
                            /\ \A i \in 1 .. l - n : s[i] = data[n + i]
  <2>1. n <= l
    BY <1>1
  <2>2. n <= Len(data)
    BY <1>1, <2>1
  <2>3. /\ Rest(data, n) \in Seq(Int) /\ Len(Rest(data, n)) = Len(data) - n
        /\ \A i \in 1 .. Len(data) - n : Rest(data, n)[i] = data[n + i]
    BY <2>2, RestIs
  <2> QED
    BY <1>1, <2>3
<1>3. PICK t \in Seq(Int) : t = Rest(s, m) /\ Len(t) = (l - n) - m
                            /\ \A i \in 1 .. (l - n) - m : t[i] = s[m + i]
  <2>1. m <= Len(s) /\ Len(s) = l - n
    BY <1>1, <1>2
  <2>2. /\ Rest(s, m) \in Seq(Int) /\ Len(Rest(s, m)) = Len(s) - m
        /\ \A i \in 1 .. Len(s) - m : Rest(s, m)[i] = s[m + i]
    BY <2>1, RestIs
  <2> QED
    BY <2>1, <2>2
<1>4. PICK u \in Seq(Int) : u = Rest(data, n + m) /\ Len(u) = l - (n + m)
                            /\ \A i \in 1 .. l - (n + m) : u[i] = data[(n + m) + i]
  <2>1. n + m \in Nat
    OBVIOUS
  <2> QED
    BY <1>1, <2>1, RestIs
<1>5. t = u
  <2>1. Len(t) = Len(u)
    BY <1>3, <1>4
  <2>2. ASSUME NEW i \in 1 .. Len(t) PROVE t[i] = u[i]
    <3>1. m + i \in 1 .. l - n /\ n + (m + i) = (n + m) + i /\ i \in 1 .. l - (n + m)
      BY <1>1, <1>3, <2>2
    <3> QED
      BY <1>2, <1>3, <1>4, <2>2, <3>1
  <2> QED
    BY <2>1, <2>2, SeqEqual
<1>6. /\ SubSeq(s, 1, m) \in Seq(Int) /\ Len(SubSeq(s, 1, m)) = m
      /\ \A i \in 1 .. m : SubSeq(s, 1, m)[i] = s[i]
  <2>1. 1 \in Int /\ m \in Int /\ \A i \in 1 .. m : s[i] \in Int
    BY <1>1, <1>2
  <2>2. /\ SubSeq(s, 1, m) \in Seq(Int)
        /\ Len(SubSeq(s, 1, m)) = IF 1 <= m THEN m - 1 + 1 ELSE 0
        /\ \A i \in 1 .. m - 1 + 1 : SubSeq(s, 1, m)[i] = s[1 + i - 1]
    BY <2>1, SubSeqProperties
  <2>3. (IF 1 <= m THEN m - 1 + 1 ELSE 0) = m /\ m - 1 + 1 = m
    OBVIOUS
  <2>4. \A i \in 1 .. m : 1 + i - 1 = i
    OBVIOUS
  <2> QED
    BY <2>2, <2>3, <2>4
<1>7. \A i \in 1 .. m : s[i] = data[n + i]
  BY <1>1, <1>2
<1> QED
  BY <1>2, <1>3, <1>4, <1>5, <1>6, <1>7 DEF Rest

LEMMA RestHasMore ==
  ASSUME NEW data \in Seq(Int), NEW n \in Nat, n < Len(data)
  PROVE  /\ Rest(data, n) # <<>> /\ Head(Rest(data, n)) = data[n + 1]
         /\ Tail(Rest(data, n)) = Rest(data, n + 1)
<1>1. PICK l \in Nat : l = Len(data) /\ n < l
  OBVIOUS
<1>2. n + 1 \in 1 .. Len(data) /\ l \in n + 1 .. Len(data)
  BY <1>1
<1>3. PICK m : m = n + 1
  OBVIOUS
<1>4. /\ Head(SubSeq(data, m, l)) = data[m]
      /\ Tail(SubSeq(data, m, l)) = SubSeq(data, m + 1, l)
  BY <1>2, <1>3, HeadTailOfSubSeq
<1>5. Rest(data, n) # <<>>
  <2>1. PICK s : s = Rest(data, n)
    OBVIOUS
  <2>2. Len(s) = l - n
    <3>1. n <= Len(data)
      BY <1>1
    <3> QED
      BY <1>1, <2>1, <3>1, RestIs
  <2>3. s # <<>>
    BY <1>1, <2>2
  <2> QED
    BY <2>1, <2>3
<1> QED
  BY <1>1, <1>3, <1>4, <1>5 DEF Rest

LEMMA TextIs ==
  ASSUME NEW x, IsText(x)
  PROVE  /\ x.items \in Seq(Item) /\ Len(x.items) \in Nat
         /\ x.place \in [0 .. Len(x.items) -> Nat] /\ x.place[0] = 0
         /\ x.data \in Seq(Int) /\ Len(x.data) \in Nat /\ x.strings \in Seq(STRING)
<1>1. IsPlaced(x)
  BY DEF IsText
<1>2. x.items \in Seq(Item) /\ Len(x.items) \in Nat
  BY <1>1 DEF IsPlaced
<1>3. x.place \in [0 .. Len(x.items) -> Nat] /\ x.place[0] = 0
  BY <1>1 DEF IsPlaced
<1>4. x.data \in Seq(Int) /\ Len(x.data) \in Nat /\ x.strings \in Seq(STRING)
  BY DEF IsText
<1> QED
  BY <1>2, <1>3, <1>4

LEMMA PlaceIs ==
  ASSUME NEW x, IsText(x), NEW k \in Nat, k + 1 <= Len(x.items)
  PROVE  /\ x.place[k] \in Nat /\ x.items[k + 1] \in Item
         /\ SizeOf(x.items[k + 1]) \in Nat \ {0}
         /\ x.place[k + 1] = x.place[k] + SizeOf(x.items[k + 1])
         /\ x.data \in Seq(Int) /\ Len(x.data) \in Nat /\ x.strings \in Seq(STRING)
         /\ Held(x, k + 1) => Held(x, k)
         /\ Held(x, k + 1) => SpelledAt(x.items[k + 1], x.data, x.strings, x.place[k])
<1>1. PICK N \in Nat : N = Len(x.items)
  BY TextIs
<1>2. PICK j : j = k + 1
  OBVIOUS
<1>3. j \in 1 .. N /\ j - 1 = k /\ k \in 0 .. N
  BY <1>1, <1>2
<1>7. x.place[k] \in Nat /\ x.items[j] \in Item
  BY <1>1, <1>3, TextIs, SMTT(30)
<1>8. SizeOf(x.items[j]) \in Nat \ {0} /\ x.place[j] = x.place[k] + SizeOf(x.items[j])
  <2>1. IsPlaced(x)
    BY DEF IsText
  <2> QED
    BY <1>1, <1>3, <2>1 DEF IsPlaced
<1>9. Held(x, j) => Spelled(x, j)
  BY <1>1, <1>3 DEF IsText
<1>4. /\ x.place[k] \in Nat /\ x.items[j] \in Item /\ SizeOf(x.items[j]) \in Nat \ {0}
      /\ x.place[j] = x.place[k] + SizeOf(x.items[j])
      /\ Held(x, j) => Spelled(x, j)
  BY <1>7, <1>8, <1>9
<1>5. x.data \in Seq(Int) /\ Len(x.data) \in Nat /\ x.strings \in Seq(STRING)
  BY DEF IsText
<1>6. Held(x, j) => Held(x, k)
  BY <1>4, <1>5 DEF Held
<1> QED
  BY <1>2, <1>3, <1>4, <1>5, <1>6 DEF Spelled

LEMMA HeldDown ==
  ASSUME NEW x, IsText(x), NEW k \in Nat, NEW m \in Nat, k <= m, m <= Len(x.items), Held(x, m)
  PROVE  Held(x, k)
<1>1. PICK N \in Nat : N = Len(x.items)
  BY TextIs
<1>2. k \in 0 .. N /\ m \in 0 .. N
  BY <1>1
<1>3. x.place[k] <= x.place[m] /\ x.place[k] \in Nat /\ x.place[m] \in Nat
  <2>1. IsPlaced(x)
    BY DEF IsText
  <2> QED
    BY <1>1, <1>2, <2>1 DEF IsPlaced
<1>4. Len(x.data) \in Nat
  BY DEF IsText
<1> QED
  BY <1>3, <1>4 DEF Held

LEMMA HereIs ==
  ASSUME NEW x, IsText(x), NEW k \in Nat, k <= Len(x.items), Held(x, k),
         NEW r \in Int, NEW e \in BOOLEAN
  PROVE  Here(x, k, r, e) \in Reading
<1>1. x.place[k] \in Nat /\ x.place[k] <= Len(x.data)
  BY DEF IsText, IsPlaced, Held
<1>2. x.data \in Seq(Int) /\ x.strings \in Seq(STRING)
  BY DEF IsText
<1>3. Rest(x.data, x.place[k]) \in Seq(Int)
  BY <1>1, <1>2, RestIs
<1> QED
  BY <1>2, <1>3 DEF Here, Reading

LEMMA AtIs ==
  ASSUME NEW x, IsText(x), NEW k \in Nat, k <= Len(x.items), NEW b,
         NEW r \in Int, NEW e \in BOOLEAN, At(x, b, k, r, e)
  PROVE  b \in Reading
BY HereIs DEF At, Past

LEMMA PastReserve ==
  ASSUME NEW b, NEW e \in BOOLEAN, Past(b, e), NEW n \in Int
  PROVE  Past(Reserve(b, n), e)
<1>1. b \in Reading /\ b.room \in Int
  BY DEF Past, Reading
<1>2. CASE b.failed \/ b.error \/ b.room < n
  <2>1. PICK c : c = [b EXCEPT !.error = TRUE, !.failed = TRUE]
    OBVIOUS
  <2>2. Reserve(b, n) = c
    BY <1>2, <2>1 DEF Reserve
  <2>3. c \in Reading /\ c.data = b.data /\ c.errno = b.errno /\ c.error
    BY <1>1, <2>1 DEF Reading
  <2> QED
    BY <2>2, <2>3 DEF Past
<1>3. CASE ~(b.failed \/ b.error \/ b.room < n)
  <2>1. PICK c : c = [b EXCEPT !.room = @ - n]
    OBVIOUS
  <2>2. Reserve(b, n) = c
    BY <1>3, <2>1 DEF Reserve
  <2>3. c \in Reading /\ c.data = b.data /\ c.errno = b.errno /\ c.error = b.error
    BY <1>1, <2>1 DEF Reading
  <2> QED
    BY <2>2, <2>3 DEF Past
<1> QED
  BY <1>2, <1>3

LEMMA ReserveAt ==
  ASSUME NEW x, IsText(x), NEW k \in Nat, k <= Len(x.items), NEW b, NEW r \in Nat,
         NEW e \in BOOLEAN, At(x, b, k, r, e), NEW n \in Nat, n <= r
  PROVE  At(x, Reserve(b, n), k, r - n, e)
<1>1. CASE Held(x, k)
  <2>1. b = Here(x, k, r, e) /\ b \in Reading
    BY <1>1, AtIs DEF At
  <2>2. ~b.failed /\ ~b.error /\ b.room = r /\ ~(b.room < n)
    BY <2>1 DEF Here
  <2>3. Reserve(b, n) = [b EXCEPT !.room = @ - n]
    BY <2>2 DEF Reserve
  <2>4. Reserve(b, n) = Here(x, k, r - n, e)
    BY <2>1, <2>3 DEF Here
  <2> QED
    BY <1>1, <2>4 DEF At
<1>2. CASE ~Held(x, k)
  BY <1>2, PastReserve DEF At
<1> QED
  BY <1>1, <1>2

(* What fails behind the end of the data. *)
LEMMA PastWord ==
  ASSUME NEW b \in Reading, b.data = <<>>
  PROVE  Past(ReadWord(b).b, b.errno) /\ ReadWord(b).v = 0
<1>1. PICK c : c = [b EXCEPT !.error = b.errno]
  OBVIOUS
<1>2. ReadWord(b) = Pair(c, 0)
  BY <1>1 DEF ReadWord
<1>3. ReadWord(b).b = c /\ ReadWord(b).v = 0
  BY <1>2 DEF Pair
<1>4. c \in Reading /\ c.data = <<>> /\ c.errno = b.errno /\ c.error = b.errno
  BY <1>1 DEF Reading
<1> QED
  BY <1>3, <1>4 DEF Past

LEMMA PastString ==
  ASSUME NEW b \in Reading, b.data = <<>>
  PROVE  Past(ReadString(b).b, b.errno)
<1>1. PICK c : c = [b EXCEPT !.error = b.errno]
  OBVIOUS
<1>2. ReadString(b) = Pair(c, NoString)
  BY <1>1 DEF ReadString
<1>3. ReadString(b).b = c
  BY <1>2 DEF Pair
<1>4. c \in Reading /\ c.data = <<>> /\ c.errno = b.errno /\ c.error = b.errno
  BY <1>1 DEF Reading
<1> QED
  BY <1>3, <1>4 DEF Past

(* Of an item of one word there is the whole or nothing. *)
LEMMA AtOne ==
  ASSUME NEW x, IsText(x), NEW k \in Nat, k + 1 <= Len(x.items), SizeOf(x.items[k + 1]) = 1,
         NEW b, NEW r \in Int, NEW e \in BOOLEAN, At(x, b, k, r, e)
  PROVE  /\ b \in Reading /\ b.errno = e
         /\ ~Held(x, k + 1) => b.data = <<>>
         /\ Held(x, k + 1) =>
              /\ b.data # <<>> /\ b.strings = x.strings
              /\ Head(b.data) = x.data[x.place[k] + 1]
              /\ [b EXCEPT !.data = Tail(@)] = Here(x, k + 1, r, e)
<1>1. /\ x.place[k] \in Nat /\ x.place[k + 1] = x.place[k] + 1
      /\ x.data \in Seq(Int) /\ Len(x.data) \in Nat
      /\ Held(x, k + 1) => Held(x, k)
  BY PlaceIs
<1>2. k <= Len(x.items)
  BY DEF IsText, IsPlaced
<1>3. b \in Reading
  BY <1>2, AtIs
<1>4. CASE ~Held(x, k)
  BY <1>1, <1>3, <1>4 DEF At, Past
<1>5. CASE Held(x, k) /\ ~Held(x, k + 1)
  <2>1. x.place[k] = Len(x.data)
    BY <1>1, <1>5 DEF Held
  <2>2. b = Here(x, k, r, e)
    BY <1>5 DEF At
  <2>3. b.data = <<>> /\ b.errno = e
    BY <1>1, <2>1, <2>2, RestEnds DEF Here
  <2> QED
    BY <1>3, <1>5, <2>3
<1>6. CASE Held(x, k + 1)
  <2>1. x.place[k] < Len(x.data)
    BY <1>1, <1>6 DEF Held
  <2>2. b = Here(x, k, r, e)
    BY <1>1, <1>6 DEF At
  <2>3. PICK rest, tail : rest = Rest(x.data, x.place[k]) /\ tail = Rest(x.data, x.place[k + 1])
    OBVIOUS
  <2>4. rest # <<>> /\ Head(rest) = x.data[x.place[k] + 1] /\ Tail(rest) = tail
    BY <1>1, <2>1, <2>3, RestHasMore
  <2>5. b.data = rest /\ b.strings = x.strings /\ b.errno = e
    BY <2>2, <2>3 DEF Here
  <2>6. [b EXCEPT !.data = Tail(@)] = [b EXCEPT !.data = tail]
    BY <2>4, <2>5
  <2>7. [b EXCEPT !.data = tail] = Here(x, k + 1, r, e)
    <3>1. b = [data |-> rest, strings |-> x.strings, room |-> r, errno |-> e,
               error |-> FALSE, failed |-> FALSE]
      BY <2>2, <2>3 DEF Here
    <3>2. Here(x, k + 1, r, e) =
            [data |-> tail, strings |-> x.strings, room |-> r, errno |-> e,
             error |-> FALSE, failed |-> FALSE]
      BY <2>3 DEF Here
    <3>3. \A t, f :
            [[data |-> rest, strings |-> t, room |-> r, errno |-> e,
              error |-> f, failed |-> f] EXCEPT !.data = tail] =
              [data |-> tail, strings |-> t, room |-> r, errno |-> e,
               error |-> f, failed |-> f]
      OBVIOUS
    <3> QED
      BY <3>1, <3>2, <3>3
  <2> QED
    BY <1>3, <1>6, <2>4, <2>5, <2>6, <2>7
<1> QED
  BY <1>4, <1>5, <1>6

LEMMA WordAt ==
  ASSUME NEW x, IsText(x), NEW k \in Nat, k + 1 <= Len(x.items), NEW w,
         x.items[k + 1] = Word(w),
         NEW b, NEW r \in Int, NEW e \in BOOLEAN, At(x, b, k, r, e)
  PROVE  /\ At(x, ReadWord(b).b, k + 1, r, e)
         /\ ReadWord(b).v = IF Held(x, k + 1) THEN w ELSE 0
<1>1. /\ x.items[k + 1] \in Item
      /\ Held(x, k + 1) => SpelledAt(x.items[k + 1], x.data, x.strings, x.place[k])
  BY PlaceIs
<1>2. x.items[k + 1].kind = "word" /\ x.items[k + 1].v = w
  BY DEF Word
<1>3. SizeOf(x.items[k + 1]) = 1
  BY <1>1, <1>2, ItemIs
<1>4. /\ b \in Reading /\ b.errno = e
      /\ ~Held(x, k + 1) => b.data = <<>>
      /\ Held(x, k + 1) =>
           /\ b.data # <<>> /\ b.strings = x.strings
           /\ Head(b.data) = x.data[x.place[k] + 1]
           /\ [b EXCEPT !.data = Tail(@)] = Here(x, k + 1, r, e)
  BY <1>3, AtOne
<1>5. CASE ~Held(x, k + 1)
  <2>1. Past(ReadWord(b).b, b.errno) /\ ReadWord(b).v = 0
    BY <1>4, <1>5, PastWord
  <2> QED
    BY <1>4, <1>5, <2>1 DEF At
<1>6. CASE Held(x, k + 1)
  <2>1. ReadWord(b) = Pair(Here(x, k + 1, r, e), x.data[x.place[k] + 1])
    BY <1>4, <1>6 DEF ReadWord
  <2>2. x.data[x.place[k] + 1] = w
    BY <1>1, <1>2, <1>6 DEF SpelledAt
  <2> QED
    BY <1>6, <2>1, <2>2 DEF At, Pair
<1> QED
  BY <1>5, <1>6

LEMMA StringAt ==
  ASSUME NEW x, IsText(x), NEW k \in Nat, k + 1 <= Len(x.items), NEW s,
         x.items[k + 1] = String(s),
         NEW b, NEW r \in Int, NEW e \in BOOLEAN, At(x, b, k, r, e)
  PROVE  /\ At(x, ReadString(b).b, k + 1, r, e)
         /\ Held(x, k + 1) => ReadString(b).v = s
<1>1. /\ x.items[k + 1] \in Item
      /\ x.strings \in Seq(STRING)
      /\ Held(x, k + 1) => SpelledAt(x.items[k + 1], x.data, x.strings, x.place[k])
  BY PlaceIs
<1>2. x.items[k + 1].kind = "string" /\ x.items[k + 1].v = s
  BY DEF String
<1>3. SizeOf(x.items[k + 1]) = 1
  BY <1>1, <1>2, ItemIs
<1>4. /\ b \in Reading /\ b.errno = e
      /\ ~Held(x, k + 1) => b.data = <<>>
      /\ Held(x, k + 1) =>
           /\ b.data # <<>> /\ b.strings = x.strings
           /\ Head(b.data) = x.data[x.place[k] + 1]
           /\ [b EXCEPT !.data = Tail(@)] = Here(x, k + 1, r, e)
  BY <1>3, AtOne
<1>5. CASE ~Held(x, k + 1)
  <2>1. Past(ReadString(b).b, b.errno)
    BY <1>4, <1>5, PastString
  <2> QED
    BY <1>4, <1>5, <2>1 DEF At
<1>6. CASE Held(x, k + 1)
  <2>1. PICK o, rest : o = Head(b.data) /\ rest = [b EXCEPT !.data = Tail(@)]
    OBVIOUS
  <2>2. ReadString(b) = CASE o = 0             -> Pair(rest, "")
                          [] o > Len(b.strings) -> Pair([rest EXCEPT !.error = TRUE], NoString)
                          [] OTHER             -> Pair(rest, b.strings[o])
    BY <1>4, <1>6, <2>1 DEF ReadString
  <2>3. (s = "" /\ o = 0) \/ (o \in 1 .. Len(x.strings) /\ x.strings[o] = s)
    BY <1>1, <1>2, <1>4, <1>6, <2>1 DEF SpelledAt
  <2>4. ReadString(b) = Pair(rest, s)
    <3>1. CASE s = "" /\ o = 0
      <4>1. ~(o > Len(b.strings))
        <5>1. PICK l \in Nat : l = Len(b.strings)
          BY <1>1, <1>4, <1>6
        <5>3. ~(0 > l)
          BY <5>1
        <5>2. o = 0
          BY <3>1
        <5> QED
          BY <5>1, <5>2, <5>3
      <4>2. o = 0
        BY <3>1
      <4> QED
        BY <2>2, <3>1, <4>1, <4>2
    <3>2. CASE o \in 1 .. Len(x.strings) /\ x.strings[o] = s
      <4>1. PICK l \in Nat : l = Len(b.strings)
        BY <1>1, <1>4, <1>6
      <4>2. o \in 1 .. l
        BY <1>4, <1>6, <3>2, <4>1
      <4>3. o # 0 /\ ~(o > l)
        BY <4>2
      <4> QED
        BY <1>4, <1>6, <2>2, <3>2, <4>1, <4>3
    <3> QED
      BY <2>3, <3>1, <3>2
  <2> QED
    BY <1>4, <1>6, <2>1, <2>4 DEF At, Pair
<1> QED
  BY <1>5, <1>6

(* What a double has become when it is read again. *)
AsDouble(d) ==
  LET sign == IF IntegerPart(d) < 0 THEN -1 ELSE 1
  IN 10000 * IntegerPart(d) + sign * 10 * DecimalPart(d)

LEMMA NextWord ==
  ASSUME NEW data \in Seq(Int), NEW n \in Nat, n < Len(data),
         NEW b \in Reading, b.data = Rest(data, n)
  PROVE  /\ ReadWord(b).v = data[n + 1]
         /\ ReadWord(b).b = [b EXCEPT !.data = Rest(data, n + 1)]
         /\ ReadWord(b).b \in Reading
<1>1. /\ Rest(data, n) # <<>> /\ Head(Rest(data, n)) = data[n + 1]
      /\ Tail(Rest(data, n)) = Rest(data, n + 1)
  BY RestHasMore
<1>2. ReadWord(b) = Pair([b EXCEPT !.data = Tail(@)], Head(b.data))
  BY <1>1 DEF ReadWord
<1>3. Rest(data, n + 1) \in Seq(Int)
  <2>1. n + 1 \in Nat /\ n + 1 <= Len(data)
    OBVIOUS
  <2> QED
    BY <2>1, RestIs
<1>4. [b EXCEPT !.data = Tail(@)] = [b EXCEPT !.data = Rest(data, n + 1)]
  BY <1>1
<1>5. PICK c : c = [b EXCEPT !.data = Rest(data, n + 1)]
  OBVIOUS
<1>6. c \in Reading
  <2>1. PICK rest \in Seq(Int) : rest = Rest(data, n + 1)
    BY <1>3
  <2> QED
    BY <1>5, <2>1 DEF Reading
<1> QED
  BY <1>1, <1>2, <1>4, <1>5, <1>6 DEF Pair

LEMMA HereWith ==
  ASSUME NEW x, NEW k, NEW m, NEW r, NEW e, NEW b, b = Here(x, k, r, e)
  PROVE  [b EXCEPT !.data = Rest(x.data, x.place[m])] = Here(x, m, r, e)
<1>1. PICK rest, tail, t, f :
        /\ rest = Rest(x.data, x.place[k]) /\ tail = Rest(x.data, x.place[m])
        /\ t = x.strings /\ f = FALSE
  OBVIOUS
<1>2. b = [data |-> rest, strings |-> t, room |-> r, errno |-> e, error |-> f, failed |-> f]
  BY <1>1 DEF Here
<1>3. Here(x, m, r, e) =
        [data |-> tail, strings |-> t, room |-> r, errno |-> e, error |-> f, failed |-> f]
  BY <1>1 DEF Here
<1>4. [[data |-> rest, strings |-> t, room |-> r, errno |-> e, error |-> f, failed |-> f]
         EXCEPT !.data = tail] =
        [data |-> tail, strings |-> t, room |-> r, errno |-> e, error |-> f, failed |-> f]
  OBVIOUS
<1>5. [b EXCEPT !.data = tail] = Here(x, m, r, e)
  BY <1>2, <1>3, <1>4
<1> QED
  BY <1>1, <1>5

LEMMA DoubleAt ==
  ASSUME NEW x, IsText(x), NEW k \in Nat, k + 1 <= Len(x.items), NEW d,
         x.items[k + 1] = Double(d),
         NEW b, NEW r \in Int, NEW e \in BOOLEAN, At(x, b, k, r, e)
  PROVE  /\ At(x, ReadDouble(b).b, k + 1, r, e)
         /\ Held(x, k + 1) => ReadDouble(b).v = AsDouble(d)
<1>1. /\ x.items[k + 1] \in Item
      /\ Held(x, k + 1) => SpelledAt(x.items[k + 1], x.data, x.strings, x.place[k])
      /\ Held(x, k + 1) => Held(x, k)
      /\ x.data \in Seq(Int) /\ Len(x.data) \in Nat
      /\ x.place[k + 1] = x.place[k] + SizeOf(x.items[k + 1])
  BY PlaceIs
<1>2. x.items[k + 1].kind = "double" /\ x.items[k + 1].v = d
  BY DEF Double
<1>3. SizeOf(x.items[k + 1]) = 2
  BY <1>1, <1>2, ItemIs
<1>4. PICK p \in Nat, l \in Nat : p = x.place[k] /\ l = Len(x.data) /\ x.place[k + 1] = p + 2
  BY <1>1, <1>3, PlaceIs
<1>5. b \in Reading
  BY AtIs, TextIs
<1>6. PICK int, dec : int = ReadWord(b) /\ dec = ReadWord(int.b)
  OBVIOUS
<1>7. /\ ReadDouble(b).b = dec.b
      /\ ReadDouble(b).v = IF Len(b.data) < 2 THEN 0
                           ELSE 10000 * int.v + (IF int.v < 0 THEN -1 ELSE 1) * 10 * dec.v
  BY <1>6 DEF ReadDouble, Pair
<1>8. ASSUME b.data = <<>>, b.errno = e PROVE Past(dec.b, e)
  <2>1. Past(int.b, e)
    BY <1>5, <1>6, <1>8, PastWord
  <2>2. int.b \in Reading /\ int.b.data = <<>> /\ int.b.errno = e
    BY <2>1 DEF Past
  <2> QED
    BY <1>6, <2>2, PastWord
<1>9. CASE ~Held(x, k)
  <2>1. b.data = <<>> /\ b.errno = e
    BY <1>9 DEF At, Past
  <2> QED
    BY <1>1, <1>7, <1>8, <1>9, <2>1 DEF At
<1>10. CASE Held(x, k) /\ ~Held(x, k + 1)
  <2>1. b = Here(x, k, r, e)
    BY <1>10 DEF At
  <2>2. b.data = Rest(x.data, p) /\ b.errno = e
    BY <1>4, <2>1 DEF Here
  <2>3. p = l \/ p + 1 = l
    BY <1>4, <1>10, SMTT(30) DEF Held
  <2>4. CASE p = l
    <3>1. b.data = <<>>
      BY <1>1, <1>4, <2>2, <2>4, RestEnds
    <3> QED
      BY <1>7, <1>8, <1>10, <2>2, <3>1 DEF At
  <2>5. CASE p + 1 = l
    <3>1. p < Len(x.data)
      BY <1>4, <2>5
    <3>2. int.b = [b EXCEPT !.data = Rest(x.data, p + 1)] /\ int.b \in Reading
      BY <1>1, <1>5, <1>6, <2>2, <3>1, NextWord
    <3>3. Rest(x.data, p + 1) = <<>>
      BY <1>1, <1>4, <2>5, RestEnds
    <3>4. int.b.data = <<>> /\ int.b.errno = e
      BY <1>5, <2>2, <3>2, <3>3 DEF Reading
    <3>5. Past(dec.b, e)
      BY <1>6, <3>2, <3>4, PastWord
    <3> QED
      BY <1>7, <1>10, <3>5 DEF At
  <2> QED
    BY <2>3, <2>4, <2>5
<1>11. CASE Held(x, k + 1)
  <2>1. b = Here(x, k, r, e)
    BY <1>1, <1>11 DEF At
  <2>2. p + 2 <= l
    BY <1>4, <1>11 DEF Held
  <2>0. PICK D \in Seq(Int) : D = x.data
    BY <1>1
  <2>3. p < Len(D) /\ p + 1 < Len(D) /\ p + 1 \in Nat /\ (p + 1) + 1 = p + 2
    <3>1. p < l /\ p + 1 < l /\ p + 1 \in Nat /\ (p + 1) + 1 = p + 2
      BY <2>2
    <3> QED
      BY <1>4, <2>0, <3>1
  <2>4. b.data = Rest(x.data, p)
    BY <1>4, <2>1 DEF Here
  <2>5. /\ int.b = [b EXCEPT !.data = Rest(x.data, p + 1)] /\ int.b \in Reading
        /\ int.v = x.data[p + 1]
    <3>1. b.data = Rest(D, p)
      BY <2>0, <2>4
    <3>2. /\ ReadWord(b).v = D[p + 1]
          /\ ReadWord(b).b = [b EXCEPT !.data = Rest(D, p + 1)] /\ ReadWord(b).b \in Reading
      BY <1>5, <2>3, <3>1, NextWord
    <3> QED
      BY <1>6, <2>0, <3>2
  <2>6. int.b.data = Rest(x.data, p + 1)
    BY <1>5, <2>5 DEF Reading
  <2>7. dec.b = [int.b EXCEPT !.data = Rest(x.data, p + 2)] /\ dec.v = x.data[p + 2]
    <3>0. PICK q \in Nat : q = p + 1
      OBVIOUS
    <3>1. PICK i : i = int.b
      OBVIOUS
    <3>3. i \in Reading /\ i.data = Rest(D, q) /\ q < Len(D)
      BY <2>0, <2>3, <2>5, <2>6, <3>0, <3>1
    <3>2. /\ ReadWord(i).v = D[q + 1]
          /\ ReadWord(i).b = [i EXCEPT !.data = Rest(D, q + 1)]
      BY <3>3, NextWord, SMTT(30)
    <3> QED
      BY <1>6, <2>0, <2>3, <3>0, <3>1, <3>2
  <2>8. dec.b = [b EXCEPT !.data = Rest(x.data, p + 2)]
    <3>1. PICK s, t : s = Rest(x.data, p + 1) /\ t = Rest(x.data, p + 2)
      OBVIOUS
    <3>2. [[b EXCEPT !.data = s] EXCEPT !.data = t] = [b EXCEPT !.data = t]
      OBVIOUS
    <3> QED
      BY <2>5, <2>7, <3>1, <3>2
  <2>9. dec.b = Here(x, k + 1, r, e)
    BY <1>4, <2>1, <2>8, HereWith, SMTT(30)
  <2>10. int.v = IntegerPart(d) /\ dec.v = DecimalPart(d)
    BY <1>1, <1>2, <1>4, <1>11, <2>5, <2>7 DEF SpelledAt
  <2>11. ~(Len(b.data) < 2)
    <3>1. p <= Len(D)
      BY <1>4, <2>0, <2>2
    <3>2. Len(Rest(D, p)) = Len(D) - p
      BY <3>1, RestIs, SMTT(30)
    <3>3. b.data = Rest(D, p) /\ Len(D) = l
      BY <1>4, <2>0, <2>4, Zenon
    <3>4. Len(b.data) = l - p
      BY <3>2, <3>3, Zenon
    <3> QED
      BY <2>2, <3>4
  <2>12. ReadDouble(b).v = AsDouble(d)
    BY <1>7, <2>10, <2>11 DEF AsDouble
  <2> QED
    BY <1>7, <1>11, <2>9, <2>12 DEF At
<1> QED
  BY <1>9, <1>10, <1>11

LEMMA PastBlock ==
  ASSUME NEW b, NEW e \in BOOLEAN, NEW n \in Int, NEW c, c = Reserve(b, n),
         c \in Reading, c.errno = e, b.errno = e, Len(c.data) < n
  PROVE  Past(ReadBlock(b, n).b, e)
<1>1. PICK y : y = [c EXCEPT !.data = <<>>, !.error = b.errno]
  OBVIOUS
<1>2. ReadBlock(b, n) = Pair(y, <<>>)
  BY <1>1 DEF ReadBlock
<1>3. y \in Reading /\ y.data = <<>> /\ y.errno = e /\ y.error = e
  <2>1. PICK nil \in Seq(Int) : nil = <<>>
    <3>1. <<>> \in Seq(Int)
      OBVIOUS
    <3> QED
      BY <3>1
  <2>2. y = [c EXCEPT !.data = nil, !.error = e]
    BY <1>1, <2>1
  <2> QED
    BY <2>1, <2>2 DEF Reading
<1> QED
  BY <1>2, <1>3 DEF Past, Pair

LEMMA CodeAt ==
  ASSUME NEW x, IsText(x), NEW k \in Nat, k + 1 <= Len(x.items), NEW c,
         x.items[k + 1] = Code(c),
         NEW b, NEW r \in Nat, NEW e \in BOOLEAN, At(x, b, k, r, e), Len(c) <= r
  PROVE  /\ At(x, ReadBlock(b, Len(c)).b, k + 1, r - Len(c), e)
         /\ Held(x, k + 1) => ReadBlock(b, Len(c)).v = c
<1>1. /\ x.items[k + 1] \in Item
      /\ Held(x, k + 1) => SpelledAt(x.items[k + 1], x.data, x.strings, x.place[k])
      /\ Held(x, k + 1) => Held(x, k)
      /\ x.data \in Seq(Int) /\ Len(x.data) \in Nat
      /\ x.place[k + 1] = x.place[k] + SizeOf(x.items[k + 1])
  BY PlaceIs
<1>2. x.items[k + 1].kind = "code" /\ x.items[k + 1].v = c
  BY DEF Code
<1>3. SizeOf(x.items[k + 1]) = Len(c) /\ c \in Seq(Int) /\ c # <<>>
  BY <1>1, <1>2, ItemIs
<1>4. PICK n \in Nat \ {0} : n = Len(c)
  BY <1>3
<1>5. PICK p \in Nat, l \in Nat : p = x.place[k] /\ l = Len(x.data) /\ x.place[k + 1] = p + n
  BY <1>1, <1>3, <1>4, PlaceIs
<1>6. PICK y : y = Reserve(b, n)
  OBVIOUS
<1>7. At(x, y, k, r - n, e) /\ r - n \in Int /\ n <= r
  <2>1. k <= Len(x.items) /\ n \in Nat /\ n <= r
    BY <1>4, TextIs
  <2> QED
    BY <1>6, <2>1, ReserveAt
<1>8. y \in Reading /\ b \in Reading
  <2>1. k <= Len(x.items) /\ r \in Int
    BY TextIs
  <2>2. y \in Reading
    BY <1>7, <2>1, AtIs
  <2> QED
    BY <2>1, <2>2, AtIs
<1>9. y.errno = e /\ b.errno = e
  BY <1>7 DEF At, Past, Here
<1>10. CASE ~Held(x, k)
  <2>1. Len(y.data) < n
    <3>1. y.data = <<>>
      BY <1>7, <1>10 DEF At, Past
    <3>2. Len(y.data) = 0
      BY <3>1
    <3> QED
      BY <3>2
  <2>2. Past(ReadBlock(b, n).b, e)
    BY <1>6, <1>8, <1>9, <2>1, PastBlock
  <2> QED
    BY <1>1, <1>4, <1>10, <2>2 DEF At
<1>11. CASE Held(x, k)
  <2>1. y = Here(x, k, r - n, e)
    BY <1>7, <1>11 DEF At
  <2>2. y.data = Rest(x.data, p) /\ Len(y.data) = l - p
    <3>1. p <= Len(x.data)
      BY <1>5, <1>11 DEF Held
    <3>2. y.data = Rest(x.data, p)
      BY <1>5, <2>1 DEF Here
    <3> QED
      BY <1>1, <1>5, <3>1, <3>2, RestIs, ZenonT(60)
  <2>3. CASE ~Held(x, k + 1)
    <3>1. Len(y.data) < n
      BY <1>5, <2>2, <2>3, SMTT(30) DEF Held
    <3>2. Past(ReadBlock(b, n).b, e)
      BY <1>6, <1>8, <1>9, <3>1, PastBlock
    <3> QED
      BY <1>4, <2>3, <3>2 DEF At
  <2>4. CASE Held(x, k + 1)
    <3>1. p + n <= l /\ p + n <= Len(x.data)
      BY <1>5, <2>4 DEF Held
    <3>2. ~(Len(y.data) < n)
      BY <2>2, <3>1
    <3>3. PICK s, t : s = SubSeq(y.data, n + 1, Len(y.data)) /\ t = SubSeq(y.data, 1, n)
      OBVIOUS
    <3>4. ReadBlock(b, n) = Pair([y EXCEPT !.data = s], t)
      BY <1>6, <3>2, <3>3 DEF ReadBlock
    <3>5. s = Rest(x.data, p + n) /\ t \in Seq(Int) /\ Len(t) = n
          /\ \A i \in 1 .. n : t[i] = x.data[p + i]
      <4>1. PICK D \in Seq(Int) : D = x.data /\ p + n <= Len(D)
        BY <1>1, <3>1
      <4>2. n \in Nat
        OBVIOUS
      <4>4. /\ SubSeq(Rest(D, p), n + 1, Len(Rest(D, p))) = Rest(D, p + n)
            /\ SubSeq(Rest(D, p), 1, n) \in Seq(Int)
            /\ Len(SubSeq(Rest(D, p), 1, n)) = n
            /\ \A i \in 1 .. n : SubSeq(Rest(D, p), 1, n)[i] = D[p + i]
        BY <4>1, <4>2, RestGoesOn
      <4>5. s = SubSeq(Rest(D, p), n + 1, Len(Rest(D, p))) /\ t = SubSeq(Rest(D, p), 1, n)
        BY <2>2, <3>3, <4>1
      <4> QED
        BY <4>1, <4>4, <4>5
    <3>6. [y EXCEPT !.data = s] = Here(x, k + 1, r - n, e)
      BY <1>5, <2>1, <3>5, HereWith, SMTT(30)
    <3>7. t = c
      <4>1. \A i \in 1 .. n : x.data[p + i] = c[i]
        BY <1>1, <1>2, <1>4, <1>5, <2>4 DEF SpelledAt
      <4>2. Len(t) = Len(c) /\ \A i \in 1 .. Len(t) : t[i] = c[i]
        BY <1>4, <3>5, <4>1
      <4> QED
        BY <1>3, <3>5, <4>2, SeqEqual
    <3> QED
      BY <1>4, <2>4, <3>4, <3>6, <3>7 DEF At, Pair
  <2> QED
    BY <2>3, <2>4
<1> QED
  BY <1>10, <1>11

-------------------------------------------------------------------------------
(* Where the items of an entry are. *)

LEMMA BlockParts ==
  ASSUME NEW x, NEW k, NEW s \in Seq(Item), NEW t \in Seq(Item), Block(x, k, s \o t),
         Len(x.items) \in Nat
  PROVE  Block(x, k, s) /\ Block(x, k + Len(s), t)
<1>1. PICK m \in Nat, n \in Nat : m = Len(s) /\ n = Len(t)
  OBVIOUS
<1>2. /\ Len(s \o t) = m + n
      /\ \A i \in 1 .. m + n : (s \o t)[i] = IF i <= m THEN s[i] ELSE t[i - m]
  BY <1>1, ConcatProperties
<1>3. k \in Nat /\ k + (m + n) <= Len(x.items)
  BY <1>2 DEF Block
<1>4. \A i \in 1 .. m + n : x.items[k + i] = IF i <= m THEN s[i] ELSE t[i - m]
  BY <1>2 DEF Block
<1>5. Block(x, k, s)
  <2>1. k + m <= Len(x.items)
    BY <1>3
  <2>2. ASSUME NEW i \in 1 .. m PROVE x.items[k + i] = s[i]
    <3>1. i \in 1 .. m + n /\ i <= m
      OBVIOUS
    <3> QED
      BY <1>4, <3>1
  <2> QED
    BY <1>1, <1>3, <2>1, <2>2 DEF Block
<1>6. Block(x, k + m, t)
  <2>1. k + m \in Nat /\ (k + m) + n <= Len(x.items)
    BY <1>3
  <2>2. ASSUME NEW i \in 1 .. n PROVE x.items[(k + m) + i] = t[i]
    <3>1. PICK j : j = m + i
      OBVIOUS
    <3>2. j \in 1 .. m + n /\ ~(j <= m) /\ j - m = i /\ (k + m) + i = k + j
      BY <1>3, <3>1
    <3> QED
      BY <1>4, <3>2
  <2> QED
    BY <1>1, <2>1, <2>2 DEF Block
<1> QED
  BY <1>1, <1>5, <1>6

LEMMA BlockFlat ==
  ASSUME NEW x, NEW k, NEW seqs \in Seq(Seq(Item)), Block(x, k, FlattenSeq(seqs)),
         Len(x.items) \in Nat
  PROVE  /\ Offsets(seqs) \in [0 .. Len(seqs) -> Nat] /\ Offsets(seqs)[0] = 0
         /\ Len(FlattenSeq(seqs)) = Offsets(seqs)[Len(seqs)]
         /\ \A i \in 1 .. Len(seqs) :
              /\ Offsets(seqs)[i] = Offsets(seqs)[i - 1] + Len(seqs[i])
              /\ Block(x, k + Offsets(seqs)[i - 1], seqs[i])
         /\ \A i \in 0 .. Len(seqs) : k + Offsets(seqs)[i] <= Len(x.items)
<1>0. PICK N \in Nat : N = Len(seqs)
  OBVIOUS
<1>1. PICK o, all : o = Offsets(seqs) /\ all = FlattenSeq(seqs) /\ N = Len(seqs)
  BY <1>0
<1>2. /\ Lengths(seqs) \in Seq(Nat) /\ Len(Lengths(seqs)) = N /\ IsSums(o, Lengths(seqs))
      /\ \A n \in 1 .. N : Lengths(seqs)[n] = Len(seqs[n])
  BY <1>1, LengthsAre
<1>3. o \in [0 .. N -> Nat] /\ o[0] = 0 /\ \A n \in 1 .. N : o[n] = o[n - 1] + Len(seqs[n])
  BY <1>2 DEF IsSums
<1>4. \A a, b \in 0 .. N : a <= b => o[a] <= o[b]
  BY <1>2, SumsGrow
<1>5. /\ Len(all) = o[N]
      /\ \A n \in 1 .. N, i \in Nat : i \in 1 .. Len(seqs[n]) => all[o[n - 1] + i] = seqs[n][i]
  <2>1. IsJoined(all, seqs, Item)
    BY <1>1, FlattenIs
  <2> QED
    BY <1>1, <2>1 DEF IsJoined
<1>6. k \in Nat /\ k + o[N] <= Len(x.items) /\ \A i \in 1 .. o[N] : x.items[k + i] = all[i]
  BY <1>1, <1>5 DEF Block
<1>7. \A i \in 0 .. N : k + o[i] <= Len(x.items)
  <2> SUFFICES ASSUME NEW i \in 0 .. N PROVE k + o[i] <= Len(x.items)
    OBVIOUS
  <2>1. o[i] <= o[N] /\ o[i] \in Nat /\ o[N] \in Nat
    BY <1>3, <1>4
  <2> QED
    BY <1>6, <2>1
<1>8. ASSUME NEW n \in 1 .. N PROVE Block(x, k + o[n - 1], seqs[n])
  <2>1. n - 1 \in 0 .. N /\ n \in 0 .. N /\ N \in 0 .. N
    OBVIOUS
  <2>6. seqs[n] \in Seq(Item)
    BY <1>1
  <2>7. PICK l \in Nat : l = Len(seqs[n])
    BY <2>6
  <2>2. PICK p \in Nat : p = o[n - 1] /\ l = Len(seqs[n]) /\ o[n] = p + l
    BY <1>1, <1>3, <2>1, <2>7
  <2>8. PICK z \in Nat : z = o[N] /\ p + l <= z
    BY <1>3, <1>4, <2>1, <2>2
  <2>3. k \in Nat /\ k + z <= Len(x.items)
    BY <1>6, <2>8
  <2>4. k + p \in Nat /\ (k + p) + l <= Len(x.items)
    BY <2>3, <2>8
  <2>5. ASSUME NEW i \in 1 .. l PROVE x.items[(k + p) + i] = seqs[n][i]
    <3>1. PICK j : j = p + i
      OBVIOUS
    <3>2. j \in 1 .. z /\ (k + p) + i = k + j
      BY <2>3, <2>8, <3>1
    <3>3. all[j] = seqs[n][i]
      BY <1>5, <2>2, <3>1
    <3> QED
      BY <1>6, <2>8, <3>2, <3>3
  <2> QED
    BY <2>2, <2>4, <2>5 DEF Block
<1> QED
  BY <1>1, <1>3, <1>5, <1>7, <1>8

LEMMA BlockOne ==
  ASSUME NEW x, NEW k, NEW s, Block(x, k, <<s>>)
  PROVE  k \in Nat /\ k + 1 <= Len(x.items) /\ x.items[k + 1] = s
<1>1. Len(<<s>>) = 1 /\ <<s>>[1] = s /\ 1 \in 1 .. 1
  OBVIOUS
<1> QED
  BY <1>1 DEF Block

LEMMA BlockTwo ==
  ASSUME NEW x, NEW k, NEW s, NEW t, Block(x, k, <<s, t>>)
  PROVE  /\ k \in Nat /\ k + 2 <= Len(x.items)
         /\ x.items[k + 1] = s /\ x.items[k + 2] = t
<1>1. Len(<<s, t>>) = 2 /\ <<s, t>>[1] = s /\ <<s, t>>[2] = t /\ 1 \in 1 .. 2 /\ 2 \in 1 .. 2
  OBVIOUS
<1> QED
  BY <1>1 DEF Block

LEMMA BlockThree ==
  ASSUME NEW x, NEW k, NEW s, NEW t, NEW u, Block(x, k, <<s, t, u>>)
  PROVE  /\ k \in Nat /\ k + 3 <= Len(x.items)
         /\ x.items[k + 1] = s /\ x.items[k + 2] = t /\ x.items[k + 3] = u
<1>1. /\ Len(<<s, t, u>>) = 3
      /\ <<s, t, u>>[1] = s /\ <<s, t, u>>[2] = t /\ <<s, t, u>>[3] = u
      /\ 1 \in 1 .. 3 /\ 2 \in 1 .. 3 /\ 3 \in 1 .. 3
  OBVIOUS
<1> QED
  BY <1>1 DEF Block

-------------------------------------------------------------------------------
(* Reading lists. *)

Kinds == {"word", "target", "factvar", "name", "field", "initializer"}

ReadBy(kind, b) ==
  CASE kind = "word"        -> ReadWord(b)
    [] kind = "target"      -> ReadTarget(b)
    [] kind = "factvar"     -> ReadFactvar(b)
    [] kind = "name"        -> ReadName(b)
    [] kind = "field"       -> ReadField(b)
    [] kind = "initializer" -> ReadInitializer(b)

MoreBy(kind, acc) ==
  IF acc.b.failed THEN acc
  ELSE LET x == ReadBy(kind, acc.b) IN Pair(x.b, Append(acc.v, x.v))

IsMany(h, kind, b, N) ==
  h = [i \in 0 .. N |-> IF i = 0 THEN Pair(b, <<>>) ELSE MoreBy(kind, h[i - 1])]

LEMMA ManyExists ==
  ASSUME NEW N \in Nat, NEW kind, NEW b
  PROVE  \E h : IsMany(h, kind, b, N)
<1> DEFINE S == {n \in 0 .. N : \E h : IsMany(h, kind, b, n)}
<1>1. 0 \in S
  <2>1. IsMany([i \in 0 .. 0 |-> Pair(b, <<>>)], kind, b, 0)
    BY DEF IsMany
  <2> QED
    BY <2>1
<1>2. ASSUME NEW n \in 1 .. N, n - 1 \in S PROVE n \in S
  <2>1. PICK g : IsMany(g, kind, b, n - 1)
    BY <1>2
  <2> DEFINE last == MoreBy(kind, g[n - 1])
             h == [i \in 0 .. n |-> IF i = n THEN last ELSE g[i]]
  <2>2. ASSUME NEW i \in 0 .. n
        PROVE  h[i] = IF i = 0 THEN Pair(b, <<>>) ELSE MoreBy(kind, h[i - 1])
    <3>1. CASE i = n
      <4>1. h[i] = last /\ i # 0
        BY <3>1
      <4>2. h[i - 1] = g[n - 1]
        BY <3>1
      <4> HIDE DEF h
      <4> QED
        BY <3>1, <4>1, <4>2
    <3>2. CASE i # n
      <4>1. i \in 0 .. n - 1 /\ h[i] = g[i]
        BY <3>2
      <4>2. i # 0 => h[i - 1] = g[i - 1]
        BY <3>2
      <4>3. g[i] = IF i = 0 THEN Pair(b, <<>>) ELSE MoreBy(kind, g[i - 1])
        BY <2>1, <4>1 DEF IsMany
      <4> HIDE DEF h
      <4> QED
        BY <4>1, <4>2, <4>3
    <3> QED
      BY <3>1, <3>2
  <2>3. h = [i \in 0 .. n |-> h[i]]
    OBVIOUS
  <2>4. IsMany(h, kind, b, n)
    <3> HIDE DEF h
    <3> QED
      BY <2>2, <2>3 DEF IsMany
  <2> HIDE DEF h
  <2> QED
    BY <2>4
<1>3. N \in S
  <2> HIDE DEF S
  <2> QED
    BY <1>1, <1>2, UpTo
<1> QED
  BY <1>3

LEMMA OneMore ==
  ASSUME NEW n \in Nat, NEW vals
  PROVE  Append([j \in 1 .. n |-> vals[j]], vals[n + 1]) = [j \in 1 .. n + 1 |-> vals[j]]
<1> DEFINE V == {vals[j] : j \in 1 .. n + 1}
<1>8. \A j \in 1 .. n + 1 : vals[j] \in V
  OBVIOUS
<1>1. PICK s \in Seq(V) : s = [j \in 1 .. n |-> vals[j]]
  <2>1. [j \in 1 .. n |-> vals[j]] \in Seq(V)
    <3> HIDE DEF V
    <3> QED
      BY <1>8
  <2> QED
    BY <2>1
<1>2. PICK t \in Seq(V) : t = [j \in 1 .. n + 1 |-> vals[j]]
  <2>1. [j \in 1 .. n + 1 |-> vals[j]] \in Seq(V)
    <3> HIDE DEF V
    <3> QED
      BY <1>8
  <2> QED
    BY <2>1
<1>3. PICK v \in V : v = vals[n + 1]
  OBVIOUS
<1>4. Len(s) = n /\ Len(t) = n + 1
  BY <1>1, <1>2
<1>5. /\ Append(s, v) \in Seq(V) /\ Len(Append(s, v)) = n + 1
      /\ \A i \in 1 .. n : Append(s, v)[i] = s[i]
      /\ Append(s, v)[n + 1] = v
  <2> HIDE DEF V
  <2> QED
    BY <1>4, AppendProperties
<1>6. ASSUME NEW i \in 1 .. n + 1 PROVE Append(s, v)[i] = t[i]
  <2>1. CASE i = n + 1
    BY <1>2, <1>3, <1>5, <2>1
  <2>2. CASE i # n + 1
    <3>1. i \in 1 .. n
      BY <2>2
    <3> QED
      BY <1>1, <1>2, <1>5, <3>1
  <2> QED
    BY <2>1, <2>2
<1>7. Append(s, v) = t
  <2> HIDE DEF V
  <2> QED
    BY <1>4, <1>5, <1>6, SeqEqual
<1> QED
  BY <1>1, <1>2, <1>3, <1>7

(* From the k-th item to the m-th there is v, and reading it takes some of *)
(* the memory.                                                             *)
Reads(x, kind, k, m, r, s, e, v) ==
  \A c : At(x, c, k, r, e) =>
           /\ At(x, ReadBy(kind, c).b, m, s, e)
           /\ Held(x, m) => ReadBy(kind, c).v = v

(* N values one behind the other: o counts the items before each, need the *)
(* memory.                                                                 *)
Listed(x, kind, N, k, r, e, o, need, vals) ==
  /\ o \in [0 .. N -> Nat] /\ need \in [0 .. N -> Nat] /\ o[0] = 0 /\ need[0] = 0
  /\ \A i \in 1 .. N : o[i - 1] <= o[i]
  /\ \A i \in 0 .. N : k + o[i] <= Len(x.items)
  /\ \A i \in 1 .. N : Reads(x, kind, k + o[i - 1], k + o[i],
                             r - need[i - 1], r - need[i], e, vals[i])

(* What a reader does for every element of a list, ReadMany does for the   *)
(* list.                                                                   *)
LEMMA ListAt ==
  ASSUME NEW x, IsText(x), NEW kind, NEW N \in Nat, NEW b, NEW h, IsMany(h, kind, b, N),
         NEW e \in BOOLEAN, NEW k \in Nat, NEW r \in Nat, NEW o, NEW need, NEW vals,
         Listed(x, kind, N, k, r, e, o, need, vals), At(x, b, k, r, e)
  PROVE  /\ At(x, h[N].b, k + o[N], r - need[N], e)
         /\ Held(x, k + o[N]) => h[N].v = [i \in 1 .. N |-> vals[i]]
<1> DEFINE Good(n) == /\ At(x, h[n].b, k + o[n], r - need[n], e)
                      /\ Held(x, k + o[n]) => h[n].v = [i \in 1 .. n |-> vals[i]]
           S == {n \in 0 .. N : Good(n)}
<1>4. /\ o \in [0 .. N -> Nat] /\ need \in [0 .. N -> Nat] /\ o[0] = 0 /\ need[0] = 0
      /\ \A i \in 1 .. N : o[i - 1] <= o[i]
      /\ \A i \in 0 .. N : k + o[i] <= Len(x.items)
  BY DEF Listed
<1>1. 0 \in S
  <2>1. h[0] = Pair(b, <<>>)
    BY DEF IsMany
  <2>2. h[0].b = b /\ h[0].v = <<>>
    BY <2>1 DEF Pair
  <2>3. <<>> = [i \in 1 .. 0 |-> vals[i]]
    OBVIOUS
  <2>4. k + o[0] = k /\ r - need[0] = r
    BY <1>4
  <2> QED
    BY <2>2, <2>3, <2>4
<1>2. ASSUME NEW n \in 1 .. N, n - 1 \in S PROVE n \in S
  <2>0. n - 1 \in 0 .. N /\ n \in 0 .. N /\ n - 1 \in Nat
    OBVIOUS
  <2>1. PICK acc : acc = h[n - 1]
    OBVIOUS
  <2>2. h[n] = MoreBy(kind, acc)
    <3>1. n # 0
      OBVIOUS
    <3>2. h[n] = IF n = 0 THEN Pair(b, <<>>) ELSE MoreBy(kind, h[n - 1])
      BY <2>0 DEF IsMany
    <3> QED
      BY <2>1, <3>1, <3>2
  <2>3. PICK k1 \in Nat, k2 \in Nat : k1 = k + o[n - 1] /\ k2 = k + o[n]
    <3>1. PICK p \in Nat, q \in Nat : p = o[n - 1] /\ q = o[n]
      BY <1>4, <2>0
    <3>2. k + p \in Nat /\ k + q \in Nat
      OBVIOUS
    <3> QED
      BY <3>1, <3>2
  <2>4. k1 <= k2 /\ k2 <= Len(x.items)
    <3>1. o[n - 1] \in Nat /\ o[n] \in Nat /\ o[n - 1] <= o[n]
      BY <1>4, <2>0
    <3> QED
      BY <1>4, <2>0, <2>3, <3>1
  <2>5. /\ At(x, acc.b, k1, r - need[n - 1], e)
        /\ Held(x, k1) => acc.v = [i \in 1 .. n - 1 |-> vals[i]]
    BY <1>2, <2>1, <2>3
  <2>6. Held(x, k2) => Held(x, k1)
    BY <2>4, HeldDown
  <2>7. PICK y : y = ReadBy(kind, acc.b)
    OBVIOUS
  <2>9. CASE acc.b.failed
    <3>1. ~Held(x, k1)
      <4>1. PICK c : c = acc.b
        OBVIOUS
      <4>2. Held(x, k1) => c = Here(x, k1, r - need[n - 1], e)
        BY <2>5, <4>1 DEF At
      <4>3. ~Here(x, k1, r - need[n - 1], e).failed
        BY DEF Here
      <4> QED
        BY <2>9, <4>1, <4>2, <4>3
    <3>2. h[n] = acc
      BY <2>2, <2>9 DEF MoreBy
    <3> QED
      BY <2>0, <2>3, <2>5, <2>6, <3>1, <3>2 DEF At
  <2>10. CASE ~acc.b.failed
    <3>1. h[n] = Pair(y.b, Append(acc.v, y.v))
      BY <2>2, <2>7, <2>10 DEF MoreBy
    <3>2. h[n].b = y.b /\ h[n].v = Append(acc.v, y.v)
      <4>1. PICK z, p, q : z = h[n] /\ p = y.b /\ q = Append(acc.v, y.v)
        OBVIOUS
      <4>2. z = [b |-> p, v |-> q]
        BY <3>1, <4>1 DEF Pair
      <4>3. z.b = p /\ z.v = q
        BY <4>2
      <4> QED
        BY <4>1, <4>3
    <3>3. At(x, y.b, k2, r - need[n], e) /\ (Held(x, k2) => y.v = vals[n])
      <4>1. Reads(x, kind, k1, k2, r - need[n - 1], r - need[n], e, vals[n])
        BY <2>3 DEF Listed
      <4> QED
        BY <2>5, <2>7, <4>1 DEF Reads
    <3>4. Append([i \in 1 .. n - 1 |-> vals[i]], vals[n]) = [i \in 1 .. n |-> vals[i]]
      <4>1. PICK m \in Nat : m = n - 1 /\ m + 1 = n
        BY <2>0
      <4>2. Append([i \in 1 .. m |-> vals[i]], vals[m + 1]) = [i \in 1 .. m + 1 |-> vals[i]]
        BY OneMore
      <4> QED
        BY <4>1, <4>2
    <3>5. Held(x, k2) => h[n].v = [i \in 1 .. n |-> vals[i]]
      BY <2>5, <2>6, <3>2, <3>3, <3>4
    <3> QED
      BY <2>0, <2>3, <3>2, <3>3, <3>5
  <2> QED
    BY <2>9, <2>10
<1>3. \A n \in 0 .. N : n \in S
  <2> HIDE DEF S
  <2> QED
    BY <1>1, <1>2, UpTo
<1> QED
  BY <1>3

(* ReadMany with each of the readers. *)
LEMMA ManyWords ==
  ASSUME NEW b, NEW N \in Nat
  PROVE  \E h : IsMany(h, "word", b, N) /\ ReadMany(b, N, ReadWord) = h[N]
<1> DEFINE Is(g) == g = [i \in 0 .. N |-> IF i = 0 THEN Pair(b, <<>>)
                                          ELSE ReadMore(g[i - 1], ReadWord)]
<1>1. \A acc : ReadMore(acc, ReadWord) = MoreBy("word", acc)
  BY DEF ReadMore, MoreBy, ReadBy
<1>2. \A g : Is(g) <=> IsMany(g, "word", b, N)
  BY <1>1 DEF IsMany
<1>3. PICK h : h = (CHOOSE g : Is(g))
  OBVIOUS
<1>4. Is(h)
  <2>1. \E g : Is(g)
    <3> HIDE DEF Is
    <3> QED
      BY <1>2, ManyExists
  <2> HIDE DEF Is
  <2> QED
    BY <1>3, <2>1
<1>5. ReadMany(b, N, ReadWord) = h[N]
  BY <1>3 DEF ReadMany
<1> QED
  BY <1>2, <1>4, <1>5

LEMMA ManyTargets ==
  ASSUME NEW b, NEW N \in Nat
  PROVE  \E h : IsMany(h, "target", b, N) /\ ReadMany(b, N, ReadTarget) = h[N]
<1> DEFINE Is(g) == g = [i \in 0 .. N |-> IF i = 0 THEN Pair(b, <<>>)
                                          ELSE ReadMore(g[i - 1], ReadTarget)]
<1>1. \A acc : ReadMore(acc, ReadTarget) = MoreBy("target", acc)
  BY DEF ReadMore, MoreBy, ReadBy
<1>2. \A g : Is(g) <=> IsMany(g, "target", b, N)
  BY <1>1 DEF IsMany
<1>3. PICK h : h = (CHOOSE g : Is(g))
  OBVIOUS
<1>4. Is(h)
  <2>1. \E g : Is(g)
    <3> HIDE DEF Is
    <3> QED
      BY <1>2, ManyExists
  <2> HIDE DEF Is
  <2> QED
    BY <1>3, <2>1
<1>5. ReadMany(b, N, ReadTarget) = h[N]
  BY <1>3 DEF ReadMany
<1> QED
  BY <1>2, <1>4, <1>5

LEMMA ManyFactvars ==
  ASSUME NEW b, NEW N \in Nat
  PROVE  \E h : IsMany(h, "factvar", b, N) /\ ReadMany(b, N, ReadFactvar) = h[N]
<1> DEFINE Is(g) == g = [i \in 0 .. N |-> IF i = 0 THEN Pair(b, <<>>)
                                          ELSE ReadMore(g[i - 1], ReadFactvar)]
<1>1. \A acc : ReadMore(acc, ReadFactvar) = MoreBy("factvar", acc)
  BY DEF ReadMore, MoreBy, ReadBy
<1>2. \A g : Is(g) <=> IsMany(g, "factvar", b, N)
  BY <1>1 DEF IsMany
<1>3. PICK h : h = (CHOOSE g : Is(g))
  OBVIOUS
<1>4. Is(h)
  <2>1. \E g : Is(g)
    <3> HIDE DEF Is
    <3> QED
      BY <1>2, ManyExists
  <2> HIDE DEF Is
  <2> QED
    BY <1>3, <2>1
<1>5. ReadMany(b, N, ReadFactvar) = h[N]
  BY <1>3 DEF ReadMany
<1> QED
  BY <1>2, <1>4, <1>5

LEMMA ManyNames ==
  ASSUME NEW b, NEW N \in Nat
  PROVE  \E h : IsMany(h, "name", b, N) /\ ReadMany(b, N, ReadName) = h[N]
<1> DEFINE Is(g) == g = [i \in 0 .. N |-> IF i = 0 THEN Pair(b, <<>>)
                                          ELSE ReadMore(g[i - 1], ReadName)]
<1>1. \A acc : ReadMore(acc, ReadName) = MoreBy("name", acc)
  BY DEF ReadMore, MoreBy, ReadBy
<1>2. \A g : Is(g) <=> IsMany(g, "name", b, N)
  BY <1>1 DEF IsMany
<1>3. PICK h : h = (CHOOSE g : Is(g))
  OBVIOUS
<1>4. Is(h)
  <2>1. \E g : Is(g)
    <3> HIDE DEF Is
    <3> QED
      BY <1>2, ManyExists
  <2> HIDE DEF Is
  <2> QED
    BY <1>3, <2>1
<1>5. ReadMany(b, N, ReadName) = h[N]
  BY <1>3 DEF ReadMany
<1> QED
  BY <1>2, <1>4, <1>5

LEMMA ManyFields ==
  ASSUME NEW b, NEW N \in Nat
  PROVE  \E h : IsMany(h, "field", b, N) /\ ReadMany(b, N, ReadField) = h[N]
<1> DEFINE Is(g) == g = [i \in 0 .. N |-> IF i = 0 THEN Pair(b, <<>>)
                                          ELSE ReadMore(g[i - 1], ReadField)]
<1>1. \A acc : ReadMore(acc, ReadField) = MoreBy("field", acc)
  BY DEF ReadMore, MoreBy, ReadBy
<1>2. \A g : Is(g) <=> IsMany(g, "field", b, N)
  BY <1>1 DEF IsMany
<1>3. PICK h : h = (CHOOSE g : Is(g))
  OBVIOUS
<1>4. Is(h)
  <2>1. \E g : Is(g)
    <3> HIDE DEF Is
    <3> QED
      BY <1>2, ManyExists
  <2> HIDE DEF Is
  <2> QED
    BY <1>3, <2>1
<1>5. ReadMany(b, N, ReadField) = h[N]
  BY <1>3 DEF ReadMany
<1> QED
  BY <1>2, <1>4, <1>5

LEMMA ManyInitializers ==
  ASSUME NEW b, NEW N \in Nat
  PROVE  \E h : IsMany(h, "initializer", b, N) /\ ReadMany(b, N, ReadInitializer) = h[N]
<1> DEFINE Is(g) == g = [i \in 0 .. N |-> IF i = 0 THEN Pair(b, <<>>)
                                          ELSE ReadMore(g[i - 1], ReadInitializer)]
<1>1. \A acc : ReadMore(acc, ReadInitializer) = MoreBy("initializer", acc)
  BY DEF ReadMore, MoreBy, ReadBy
<1>2. \A g : Is(g) <=> IsMany(g, "initializer", b, N)
  BY <1>1 DEF IsMany
<1>3. PICK h : h = (CHOOSE g : Is(g))
  OBVIOUS
<1>4. Is(h)
  <2>1. \E g : Is(g)
    <3> HIDE DEF Is
    <3> QED
      BY <1>2, ManyExists
  <2> HIDE DEF Is
  <2> QED
    BY <1>3, <2>1
<1>5. ReadMany(b, N, ReadInitializer) = h[N]
  BY <1>3 DEF ReadMany
<1> QED
  BY <1>2, <1>4, <1>5

LEMMA WordsAt ==
  ASSUME NEW x, IsText(x), NEW ws \in Seq(Int), NEW k, Block(x, k, Words(ws)),
         NEW b, NEW r \in Nat, NEW e \in BOOLEAN, At(x, b, k, r, e),
         NEW m, m = k + Len(ws)
  PROVE  /\ At(x, ReadMany(b, Len(ws), ReadWord).b, m, r, e)
         /\ Held(x, m) => ReadMany(b, Len(ws), ReadWord).v = ws
         /\ m \in Nat /\ m <= Len(x.items) /\ k <= m
<1>1. PICK N \in Nat : N = Len(ws)
  OBVIOUS
<1>2. Len(Words(ws)) = N /\ \A i \in 1 .. N : Words(ws)[i] = Word(ws[i])
  BY <1>1 DEF Words
<1>3. k \in Nat /\ k + N <= Len(x.items) /\ \A i \in 1 .. N : x.items[k + i] = Word(ws[i])
  BY <1>2 DEF Block
<1>4. PICK h : IsMany(h, "word", b, N) /\ ReadMany(b, N, ReadWord) = h[N]
  BY ManyWords
<1> DEFINE o == [i \in 0 .. N |-> i]
           need == [i \in 0 .. N |-> 0]
<1>5. o \in [0 .. N -> Nat] /\ need \in [0 .. N -> Nat] /\ o[0] = 0 /\ need[0] = 0
  OBVIOUS
<1>6. \A i \in 1 .. N : o[i - 1] <= o[i] /\ o[i - 1] = i - 1 /\ o[i] = i
                        /\ need[i - 1] = 0 /\ need[i] = 0
  OBVIOUS
<1>10. PICK L \in Nat : L = Len(x.items)
  BY TextIs
<1>7. \A i \in 0 .. N : k + o[i] <= Len(x.items)
  BY <1>3, <1>10
<1>8. ASSUME NEW i \in 1 .. N
      PROVE  Reads(x, "word", k + o[i - 1], k + o[i], r - need[i - 1], r - need[i], e, ws[i])
  <2>1. PICK j \in Nat : j = k + (i - 1) /\ j + 1 = k + i
    <3>1. k + (i - 1) \in Nat /\ (k + (i - 1)) + 1 = k + i
      BY <1>3
    <3> QED
      BY <3>1
  <2>2. x.items[j + 1] = Word(ws[i]) /\ j + 1 <= Len(x.items)
    BY <1>3, <1>10, <2>1
  <2>3. ASSUME NEW c, At(x, c, j, r, e)
        PROVE  /\ At(x, ReadBy("word", c).b, j + 1, r, e)
               /\ Held(x, j + 1) => ReadBy("word", c).v = ws[i]
    <3>1. ReadBy("word", c) = ReadWord(c)
      BY DEF ReadBy
    <3> QED
      BY <2>2, <2>3, <3>1, WordAt
  <2>4. k + o[i - 1] = j /\ k + o[i] = j + 1 /\ r - need[i - 1] = r /\ r - need[i] = r
    BY <1>6, <2>1
  <2> HIDE DEF o, need
  <2> QED
    BY <2>3, <2>4 DEF Reads
<1>9. /\ At(x, h[N].b, k + o[N], r - need[N], e)
      /\ Held(x, k + o[N]) => h[N].v = [i \in 1 .. N |-> ws[i]]
  <2>1. \A i \in 1 .. N : o[i - 1] <= o[i]
    BY <1>6
  <2> HIDE DEF o, need
  <2>2. Listed(x, "word", N, k, r, e, o, need, ws)
    BY <1>5, <1>7, <1>8, <2>1 DEF Listed
  <2> QED
    BY <1>3, <1>4, <2>2, ListAt
<1>11. o[N] = N /\ need[N] = 0 /\ ws = [i \in 1 .. N |-> ws[i]]
  BY <1>1
<1>12. k + N \in Nat /\ k <= k + N /\ r - 0 = r
  BY <1>3
<1> HIDE DEF o, need
<1> QED
  BY <1>1, <1>3, <1>4, <1>9, <1>11, <1>12

-------------------------------------------------------------------------------
(* The parts of a target, and the memory that they take. *)

NeedPrereqs(ws) == IF ws = <<>> THEN 0 ELSE PrereqSize + Len(ws)
NeedCode(c) == IF c = <<>> THEN 0 ELSE ChunkSize + Len(c)
NeedTarget(t) == NeedPrereqs(t.prereqs) + NeedCode(t.code) + (Len(t.dependencies) + 1)

LEMMA PastStays ==
  ASSUME NEW x, IsText(x), NEW b, NEW e, NEW k \in Nat, NEW m \in Nat, NEW r,
         k <= m, m <= Len(x.items), ~Held(x, k), Past(b, e)
  PROVE  At(x, b, m, r, e) /\ ~Held(x, m)
BY HeldDown DEF At

LEMMA EmptyIs ==
  ASSUME NEW S, NEW s \in Seq(S)
  PROVE  Len(s) \in Nat /\ (s = <<>> <=> Len(s) = 0) /\ (s = <<>> <=> Len(s) <= 0)
<1>1. Len(s) \in Nat /\ (s = <<>> => Len(s) = 0) /\ (s # <<>> => Len(s) \in Nat \ {0})
  BY EmptySeq, LenProperties
<1> QED
  BY <1>1

(* The parts of a target in the form in which TargetAt needs them: what    *)
(* must hold before a reader is called, and what holds after it.           *)
Ready(x, items, k, b, r, e, need, m) ==
  /\ Block(x, k, items) /\ At(x, b, k, r, e) /\ r \in Nat /\ need <= r
  /\ m = k + Len(items)

Done(x, p, k, m, r, e, v) ==
  /\ At(x, p.b, m, r, e) /\ (Held(x, m) => p.v = v)
  /\ m \in Nat /\ m <= Len(x.items) /\ k <= m

ReadPrereqs(b, n) ==
  IF n <= 0 THEN Pair(b, <<>>) ELSE ReadArray(Reserve(b, PrereqSize), n, 1, ReadWord)
ReadDependencies(b, n) ==
  IF n <= 0 THEN Pair(b, <<>>) ELSE ReadMany(Reserve(b, n), n - 1, ReadWord)
Counted(x, k, n, count) == n = IF Held(x, k) THEN count ELSE 0

LEMMA PrereqsAt ==
  ASSUME NEW x, IsText(x), NEW ws \in Seq(Int), NEW k, Block(x, k, Words(ws)),
         NEW b, NEW r \in Nat, NEW e \in BOOLEAN, At(x, b, k, r, e),
         NeedPrereqs(ws) <= r, NEW m, m = k + Len(ws),
         NEW n, Counted(x, k, n, Len(ws)), NEW p, p = ReadPrereqs(b, n)
  PROVE  /\ At(x, p.b, m, r - NeedPrereqs(ws), e)
         /\ Held(x, m) => p.v = ws
         /\ m \in Nat /\ m <= Len(x.items) /\ k <= m /\ NeedPrereqs(ws) \in Nat
<1>1. PICK N \in Nat : N = Len(ws) /\ (ws = <<>> <=> N <= 0)
  BY EmptyIs
<1>2. m \in Nat /\ m <= Len(x.items) /\ k <= m /\ k \in Nat /\ k <= Len(x.items)
  <2>1. PICK L \in Nat : L = Len(x.items)
    BY TextIs
  <2>2. k \in Nat /\ k + N <= L
    <3>1. Len(Words(ws)) = N
      BY <1>1 DEF Words
    <3> QED
      BY <2>1, <3>1 DEF Block
  <2> QED
    BY <1>1, <2>1, <2>2
<1>3. PICK q \in Nat : q = NeedPrereqs(ws) /\ q = (IF N <= 0 THEN 0 ELSE 2 + N) /\ q <= r
  BY <1>1 DEF NeedPrereqs, PrereqSize
<1>4. CASE N <= 0
  <2>1. p = Pair(b, <<>>)
    BY <1>1, <1>4 DEF ReadPrereqs, Counted
  <2>2. p.b = b /\ p.v = <<>>
    BY <2>1 DEF Pair
  <2>3. m = k /\ r - q = r /\ ws = <<>>
    BY <1>1, <1>2, <1>3, <1>4
  <2> QED
    BY <1>2, <1>3, <2>2, <2>3
<1>5. CASE ~(N <= 0) /\ ~Held(x, k)
  <2>1. n <= 0
    BY <1>5 DEF Counted
  <2>2. p.b = b
    BY <2>1 DEF Pair, ReadPrereqs
  <2>3. Past(b, e)
    BY <1>5 DEF At
  <2> QED
    BY <1>2, <1>3, <1>5, <2>2, <2>3, PastStays
<1>6. CASE ~(N <= 0) /\ Held(x, k)
  <2>1. n = N /\ ~(n <= 0) /\ n * 1 = N
    BY <1>1, <1>6 DEF Counted
  <2>2. PICK c : c = Reserve(b, 2)
    OBVIOUS
  <2>3. PICK d : d = Reserve(c, N)
    OBVIOUS
  <2>4. p = ReadMany(d, N, ReadWord)
    BY <2>1, <2>2, <2>3 DEF ReadPrereqs, ReadArray, PrereqSize
  <2>5. 2 <= r /\ r - 2 \in Nat /\ N <= r - 2 /\ (r - 2) - N = r - q /\ r - q \in Nat
    BY <1>3, <1>6
  <2>6. At(x, c, k, r - 2, e)
    BY <1>2, <2>2, <2>5, ReserveAt
  <2>7. At(x, d, k, r - q, e)
    <3>1. PICK s \in Nat : s = r - 2 /\ s - N = r - q
      BY <2>5
    <3>2. At(x, d, k, s - N, e)
      BY <1>2, <2>3, <2>5, <2>6, <3>1, ReserveAt
    <3> QED
      BY <3>1, <3>2
  <2>8. PICK t \in Nat : t = r - q
    BY <2>5
  <2>9. At(x, ReadMany(d, N, ReadWord).b, m, t, e)
        /\ (Held(x, m) => ReadMany(d, N, ReadWord).v = ws)
    BY <1>1, <2>7, <2>8, WordsAt
  <2> QED
    BY <1>2, <1>3, <2>4, <2>8, <2>9
<1> QED
  BY <1>4, <1>5, <1>6

LEMMA DependenciesAt ==
  ASSUME NEW x, IsText(x), NEW ws \in Seq(Int), NEW k, Block(x, k, Words(ws)),
         NEW b, NEW r \in Nat, NEW e \in BOOLEAN, At(x, b, k, r, e),
         Len(ws) + 1 <= r, NEW m, m = k + Len(ws),
         NEW n, Counted(x, k, n, Len(ws) + 1), NEW p, p = ReadDependencies(b, n)
  PROVE  /\ At(x, p.b, m, r - (Len(ws) + 1), e)
         /\ Held(x, m) => p.v = ws
         /\ m \in Nat /\ m <= Len(x.items) /\ k <= m
<1>1. PICK N \in Nat : N = Len(ws)
  OBVIOUS
<1>2. m \in Nat /\ m <= Len(x.items) /\ k <= m /\ k \in Nat /\ k <= Len(x.items)
  <2>1. PICK L \in Nat : L = Len(x.items)
    BY TextIs
  <2>2. k \in Nat /\ k + N <= L
    <3>1. Len(Words(ws)) = N
      BY <1>1 DEF Words
    <3> QED
      BY <2>1, <3>1 DEF Block
  <2> QED
    BY <1>1, <2>1, <2>2
<1>3. CASE ~Held(x, k)
  <2>1. n <= 0
    BY <1>3 DEF Counted
  <2>2. p.b = b
    BY <2>1 DEF Pair, ReadDependencies
  <2>3. Past(b, e)
    BY <1>3 DEF At
  <2> QED
    BY <1>2, <1>3, <2>2, <2>3, PastStays
<1>4. CASE Held(x, k)
  <2>1. n = N + 1 /\ ~(n <= 0) /\ n - 1 = N
    BY <1>1, <1>4 DEF Counted
  <2>2. PICK q \in Nat : q = N + 1 /\ q <= r
    BY <1>1
  <2>3. PICK d : d = Reserve(b, q)
    OBVIOUS
  <2>4. p = ReadMany(d, N, ReadWord)
    BY <2>1, <2>2, <2>3 DEF ReadDependencies
  <2>5. PICK t \in Nat : t = r - q
    BY <2>2
  <2>6. At(x, d, k, t, e)
    BY <1>2, <2>2, <2>3, <2>5, ReserveAt
  <2>7. At(x, ReadMany(d, N, ReadWord).b, m, t, e)
        /\ (Held(x, m) => ReadMany(d, N, ReadWord).v = ws)
    BY <1>1, <2>6, WordsAt
  <2> QED
    BY <1>1, <1>2, <2>2, <2>4, <2>5, <2>7
<1> QED
  BY <1>3, <1>4

LEMMA PastNoBlock ==
  ASSUME NEW b, NEW e \in BOOLEAN, Past(b, e)
  PROVE  Past(ReadBlock(b, 0).b, e)
<1>1. PICK c : c = Reserve(b, 0)
  OBVIOUS
<1>2. Past(c, e)
  BY <1>1, PastReserve
<1>3. c \in Reading /\ c.data = <<>> /\ Len(c.data) = 0
  <2>1. c \in Reading /\ c.data = <<>>
    BY <1>2 DEF Past
  <2> QED
    BY <2>1
<1>4. PICK s : s = SubSeq(c.data, 0 + 1, Len(c.data))
  OBVIOUS
<1>5. s = <<>>
  <2>1. SubSeq(c.data, 1, 0) = <<>>
    BY SubSeqEmpty
  <2> QED
    BY <1>3, <1>4, <2>1
<1>6. ReadBlock(b, 0).b = [c EXCEPT !.data = s]
  <2>1. ReadBlock(b, 0) = Pair([c EXCEPT !.data = s], SubSeq(c.data, 1, 0))
    BY <1>1, <1>3, <1>4 DEF ReadBlock
  <2> QED
    BY <2>1 DEF Pair
<1>7. PICK y : y = [c EXCEPT !.data = s]
  OBVIOUS
<1>8. y \in Reading /\ y.data = <<>> /\ y.errno = c.errno /\ y.error = c.error
  <2>1. s \in Seq(Int)
    BY <1>3, <1>5
  <2> QED
    BY <1>3, <1>5, <1>7, <2>1 DEF Reading
<1> QED
  BY <1>2, <1>6, <1>7, <1>8 DEF Past

LEMMA CodeItemsAt ==
  ASSUME NEW x, IsText(x), NEW c \in Seq(Int), NEW k, Block(x, k, CodeItems(c)),
         NEW b, NEW r \in Nat, NEW e \in BOOLEAN, At(x, b, k, r, e),
         NeedCode(c) <= r, NEW m, m = k + Len(CodeItems(c))
  PROVE  /\ At(x, ReadCode(b).b, m, r - NeedCode(c), e)
         /\ Held(x, m) => ReadCode(b).v = c
         /\ m \in Nat /\ m <= Len(x.items) /\ k <= m /\ NeedCode(c) \in Nat
<1>1. PICK N \in Nat : N = Len(c) /\ (c = <<>> <=> N <= 0)
  BY EmptyIs
<1>2. PICK q \in Nat : q = NeedCode(c) /\ q = (IF N <= 0 THEN 0 ELSE 4 + N) /\ q <= r
  BY <1>1 DEF NeedCode, ChunkSize
<1>3. PICK i, s : i = ReadWord(b) /\ s = ReadWord(Reserve(i.b, 4))
  OBVIOUS
<1>4. ReadCode(b) = IF i.v <= 0 THEN Pair(i.b, <<>>) ELSE ReadBlock(s.b, s.v)
  BY <1>3 DEF ReadCode, ChunkSize
<1>5. CASE N <= 0
  <2>1. CodeItems(c) = <<Word(0)>> /\ Len(<<Word(0)>>) = 1
    BY <1>1, <1>5 DEF CodeItems
  <2>2. k \in Nat /\ k + 1 <= Len(x.items) /\ x.items[k + 1] = Word(0) /\ m = k + 1
    BY <2>1, BlockOne
  <2>3. At(x, i.b, m, r, e) /\ i.v = 0
    BY <1>3, <2>2, WordAt
  <2>4. ReadCode(b).b = i.b /\ ReadCode(b).v = <<>>
    <3>1. ReadCode(b) = Pair(i.b, <<>>)
      BY <1>4, <2>3
    <3> QED
      BY <3>1 DEF Pair
  <2>5. r - q = r /\ c = <<>>
    BY <1>1, <1>2, <1>5
  <2> QED
    BY <1>2, <2>2, <2>3, <2>4, <2>5
<1>6. CASE ~(N <= 0)
  <2>1. CodeItems(c) = <<Word(N), Word(N), Code(c)>> /\ Len(<<Word(N), Word(N), Code(c)>>) = 3
    BY <1>1, <1>6 DEF CodeItems
  <2>2. /\ k \in Nat /\ k + 3 <= Len(x.items) /\ m = k + 3
        /\ x.items[k + 1] = Word(N) /\ x.items[k + 2] = Word(N) /\ x.items[k + 3] = Code(c)
    <3>1. Block(x, k, <<Word(N), Word(N), Code(c)>>)
      BY <2>1
    <3> QED
      BY <2>1, <3>1, BlockThree
  <2>3. PICK k1 \in Nat, k2 \in Nat :
          /\ k1 = k + 1 /\ k2 = k + 2 /\ k1 + 1 = k2 /\ k2 + 1 = m /\ m \in Nat
          /\ k1 <= k2 /\ k2 <= m /\ k1 <= m /\ k <= m
          /\ k1 <= Len(x.items) /\ k2 <= Len(x.items) /\ m <= Len(x.items)
    BY <2>2, TextIs, SMTT(30)
  <2>4. At(x, i.b, k1, r, e) /\ i.v = IF Held(x, k1) THEN N ELSE 0
    BY <1>3, <2>2, <2>3, WordAt
  <2>5. CASE ~Held(x, k1)
    <3>1. ReadCode(b).b = i.b
      BY <1>4, <2>4, <2>5 DEF Pair
    <3>2. Past(i.b, e)
      BY <2>4, <2>5 DEF At
    <3> QED
      BY <1>2, <2>3, <2>5, <3>1, <3>2, PastStays
  <2>6. CASE Held(x, k1)
    <3>1. ReadCode(b) = ReadBlock(s.b, s.v)
      BY <1>4, <1>6, <2>4, <2>6
    <3>2. PICK t \in Nat : t = r - 4 /\ t - N = r - q /\ N <= t /\ 4 <= r
      BY <1>2, <1>6
    <3>3. At(x, Reserve(i.b, 4), k1, t, e)
      BY <2>3, <2>4, <3>2, ReserveAt
    <3>4. At(x, s.b, k2, t, e) /\ s.v = IF Held(x, k2) THEN N ELSE 0
      <4>1. k1 + 1 <= Len(x.items) /\ x.items[k1 + 1] = Word(N)
        BY <2>2, <2>3
      <4>2. PICK y : y = Reserve(i.b, 4)
        OBVIOUS
      <4>3. /\ At(x, ReadWord(y).b, k1 + 1, t, e)
            /\ ReadWord(y).v = IF Held(x, k1 + 1) THEN N ELSE 0
        BY <3>3, <4>1, <4>2, WordAt
      <4> QED
        BY <1>3, <2>3, <4>2, <4>3
    <3>5. CASE ~Held(x, k2)
      <4>1. Past(ReadBlock(s.b, 0).b, e)
        BY <3>4, <3>5, PastNoBlock DEF At
      <4>2. s.v = 0
        BY <3>4, <3>5
      <4> QED
        BY <1>2, <2>3, <3>1, <3>5, <4>1, <4>2, PastStays
    <3>6. CASE Held(x, k2)
      <4>1. s.v = Len(c)
        BY <1>1, <3>4, <3>6
      <4>2. /\ At(x, ReadBlock(s.b, Len(c)).b, k2 + 1, t - Len(c), e)
            /\ Held(x, k2 + 1) => ReadBlock(s.b, Len(c)).v = c
        <5>1. k2 + 1 <= Len(x.items) /\ x.items[k2 + 1] = Code(c) /\ Len(c) <= t
          BY <1>1, <2>2, <2>3, <3>2
        <5> QED
          BY <3>4, <5>1, CodeAt
      <4> QED
        BY <1>1, <1>2, <2>3, <3>1, <3>2, <4>1, <4>2
    <3> QED
      BY <3>5, <3>6
  <2> QED
    BY <2>5, <2>6
<1> QED
  BY <1>5, <1>6

LEMMA ItemsAre ==
  /\ \A w \in Int : Word(w) \in Item
  /\ \A s \in STRING : String(s) \in Item
  /\ \A d \in Int : Double(d) \in Item
  /\ \A c \in Seq(Int) : c # <<>> => Code(c) \in Item
<1>1. \A w \in Int : Word(w) \in Item
  BY DEF Word, Item
<1>2. \A s \in STRING : String(s) \in Item
  BY DEF String, Item
<1>3. \A d \in Int : Double(d) \in Item
  BY DEF Double, Item
<1>4. ASSUME NEW c \in Seq(Int), c # <<>> PROVE Code(c) \in Item
  <2>1. PICK d \in Seq(Int) \ {<<>>} : d = c
    BY <1>4
  <2>2. Code(d) \in [kind : {"code"}, v : Seq(Int) \ {<<>>}]
    BY DEF Code
  <2> QED
    BY <2>1, <2>2 DEF Item
<1> QED
  BY <1>1, <1>2, <1>3, <1>4

LEMMA FewItems ==
  ASSUME NEW s \in Item, NEW t \in Item, NEW u \in Item
  PROVE  /\ <<s>> \in Seq(Item) /\ Len(<<s>>) = 1
         /\ <<s, t>> \in Seq(Item) /\ Len(<<s, t>>) = 2
         /\ <<s, t, u>> \in Seq(Item) /\ Len(<<s, t, u>>) = 3
<1>1. <<s>> \in Seq(Item)
  OBVIOUS
<1>2. <<s, t>> \in Seq(Item)
  OBVIOUS
<1>3. <<s, t, u>> \in Seq(Item)
  OBVIOUS
<1> QED
  BY <1>1, <1>2, <1>3

LEMMA WordsAre ==
  ASSUME NEW ws \in Seq(Int)
  PROVE  Words(ws) \in Seq(Item) /\ Len(Words(ws)) = Len(ws)
<1>1. PICK N \in Nat : N = Len(ws) /\ DOMAIN ws = 1 .. N
  OBVIOUS
<1>2. \A i \in 1 .. N : Word(ws[i]) \in Item
  BY <1>1, ItemsAre
<1>3. [i \in 1 .. N |-> Word(ws[i])] \in Seq(Item)
  BY <1>2
<1> QED
  BY <1>1, <1>3 DEF Words

LEMMA CodeItemsAre ==
  ASSUME NEW c \in Seq(Int)
  PROVE  CodeItems(c) \in Seq(Item)
<1>1. Len(c) \in Int /\ 0 \in Int
  OBVIOUS
<1>2. CASE c = <<>>
  <2>1. CodeItems(c) = <<Word(0)>> /\ Word(0) \in Item
    BY <1>1, <1>2, ItemsAre DEF CodeItems
  <2> QED
    BY <2>1, FewItems
<1>3. CASE c # <<>>
  <2>1. CodeItems(c) = <<Word(Len(c)), Word(Len(c)), Code(c)>>
    BY <1>3 DEF CodeItems
  <2>2. Word(Len(c)) \in Item /\ Code(c) \in Item
    BY <1>1, <1>3, ItemsAre
  <2> QED
    BY <2>1, <2>2, FewItems
<1> QED
  BY <1>2, <1>3

LEMMA JoinOf ==
  ASSUME NEW S, NEW s \in Seq(S), NEW t \in Seq(S)
  PROVE  \E u \in Seq(S) : u = s \o t /\ Len(u) = Len(s) + Len(t)
<1>1. s \o t \in Seq(S) /\ Len(s \o t) = Len(s) + Len(t)
  BY ConcatProperties
<1> QED
  BY <1>1

Target == [name : STRING, prereqs : Seq(Int), code : Seq(Int), dependencies : Seq(Int)]

LEMMA TargetItemsAre ==
  ASSUME NEW t \in Target, NEW id \in Int
  PROVE  /\ TargetItems(id, t) \in Seq(Item)
         /\ \A x, k : Len(x.items) \in Nat /\ Block(x, k, TargetItems(id, t)) =>
              \E k4, k5 :
                /\ k \in Nat
                /\ Block(x, k, <<Word(id), String(t.name), Word(Len(t.prereqs))>>)
                /\ Block(x, k + 3, Words(t.prereqs))
                /\ Block(x, k + 3 + Len(t.prereqs), CodeItems(t.code))
                /\ k4 = k + 3 + Len(t.prereqs) + Len(CodeItems(t.code))
                /\ Block(x, k4, <<Word(Len(t.dependencies) + 1)>>)
                /\ k5 = k4 + 1 /\ Block(x, k5, Words(t.dependencies))
                /\ k + Len(TargetItems(id, t)) = k5 + Len(t.dependencies)
<1>1. t.name \in STRING /\ t.prereqs \in Seq(Int) /\ t.code \in Seq(Int) /\ t.dependencies \in Seq(Int)
  BY DEF Target
<1>2. /\ Len(t.prereqs) \in Int /\ Len(t.dependencies) + 1 \in Int
      /\ Word(id) \in Item /\ String(t.name) \in Item /\ Word(Len(t.prereqs)) \in Item
      /\ Word(Len(t.dependencies) + 1) \in Item
  <2>1. Len(t.prereqs) \in Int /\ Len(t.dependencies) + 1 \in Int
    BY <1>1
  <2> QED
    BY <1>1, <2>1, ItemsAre
<1>3. PICK s1 \in Seq(Item) : /\ s1 = <<Word(id), String(t.name), Word(Len(t.prereqs))>>
                              /\ Len(s1) = 3
  BY <1>2, FewItems
<1>4. PICK s2 \in Seq(Item) : s2 = Words(t.prereqs) /\ Len(s2) = Len(t.prereqs)
  BY <1>1, WordsAre
<1>5. PICK s3 \in Seq(Item) : s3 = CodeItems(t.code)
  BY <1>1, CodeItemsAre
<1>6. PICK s4 \in Seq(Item) : s4 = <<Word(Len(t.dependencies) + 1)>> /\ Len(s4) = 1
  BY <1>2, FewItems
<1>7. PICK s5 \in Seq(Item) : s5 = Words(t.dependencies) /\ Len(s5) = Len(t.dependencies)
  BY <1>1, WordsAre
<1>8. PICK l2 \in Nat, l3 \in Nat, l5 \in Nat : l2 = Len(s2) /\ l3 = Len(s3) /\ l5 = Len(s5)
  OBVIOUS
<1>9. PICK a2 \in Seq(Item) : a2 = s1 \o s2 /\ Len(a2) = 3 + l2
  <2>1. PICK u \in Seq(Item) : u = s1 \o s2 /\ Len(u) = Len(s1) + Len(s2)
    BY JoinOf
  <2>2. Len(u) = 3 + l2
    BY <1>3, <1>8, <2>1
  <2> QED
    BY <2>1, <2>2
<1>10. PICK a3 \in Seq(Item) : a3 = a2 \o s3 /\ Len(a3) = 3 + l2 + l3
  <2>1. PICK u \in Seq(Item) : u = a2 \o s3 /\ Len(u) = Len(a2) + Len(s3)
    BY JoinOf
  <2>2. Len(u) = 3 + l2 + l3
    BY <1>8, <1>9, <2>1
  <2> QED
    BY <2>1, <2>2
<1>11. PICK a4 \in Seq(Item) : a4 = a3 \o s4 /\ Len(a4) = 3 + l2 + l3 + 1
  <2>1. PICK u \in Seq(Item) : u = a3 \o s4 /\ Len(u) = Len(a3) + Len(s4)
    BY JoinOf
  <2>2. Len(u) = 3 + l2 + l3 + 1
    BY <1>6, <1>10, <2>1
  <2> QED
    BY <2>1, <2>2
<1>12. PICK a5 \in Seq(Item) : a5 = a4 \o s5 /\ Len(a5) = 3 + l2 + l3 + 1 + l5
  <2>1. PICK u \in Seq(Item) : u = a4 \o s5 /\ Len(u) = Len(a4) + Len(s5)
    BY JoinOf
  <2>2. Len(u) = 3 + l2 + l3 + 1 + l5
    BY <1>8, <1>11, <2>1
  <2> QED
    BY <2>1, <2>2
<1>13. TargetItems(id, t) = a5
  BY <1>3, <1>4, <1>5, <1>6, <1>7, <1>9, <1>10, <1>11, <1>12 DEF TargetItems
<1>14. ASSUME NEW x, NEW k, Len(x.items) \in Nat, Block(x, k, a5)
       PROVE  /\ k \in Nat /\ Block(x, k, s1) /\ Block(x, k + 3, s2)
              /\ Block(x, k + 3 + l2, s3)
              /\ Block(x, k + 3 + l2 + l3, s4)
              /\ Block(x, k + 3 + l2 + l3 + 1, s5)
              /\ k + Len(a5) = k + 3 + l2 + l3 + 1 + l5
  <2>1. k \in Nat
    BY <1>14 DEF Block
  <2>2. Block(x, k, a4) /\ Block(x, k + Len(a4), s5)
    BY <1>12, <1>14, BlockParts
  <2>3. Block(x, k, a3) /\ Block(x, k + Len(a3), s4)
    BY <1>11, <1>14, <2>2, BlockParts
  <2>4. Block(x, k, a2) /\ Block(x, k + Len(a2), s3)
    BY <1>10, <1>14, <2>3, BlockParts
  <2>5. Block(x, k, s1) /\ Block(x, k + Len(s1), s2)
    BY <1>9, <1>14, <2>4, BlockParts
  <2>6. /\ k + (3 + l2) = k + 3 + l2 /\ k + (3 + l2 + l3) = k + 3 + l2 + l3
        /\ k + (3 + l2 + l3 + 1) = k + 3 + l2 + l3 + 1
        /\ k + (3 + l2 + l3 + 1 + l5) = k + 3 + l2 + l3 + 1 + l5
    BY <2>1
  <2> QED
    BY <1>3, <1>9, <1>10, <1>11, <1>12, <2>1, <2>2, <2>3, <2>4, <2>5, <2>6
<1> QED
  BY <1>3, <1>4, <1>5, <1>6, <1>7, <1>8, <1>13, <1>14, ZenonT(60)

LEMMA PrereqsDone ==
  ASSUME NEW x, IsText(x), NEW ws \in Seq(Int), NEW k, NEW b, NEW r \in Nat, NEW e \in BOOLEAN,
         NEW m, Ready(x, Words(ws), k, b, r, e, NeedPrereqs(ws), m),
         NEW n, Counted(x, k, n, Len(ws))
  PROVE  Done(x, ReadPrereqs(b, n), k, m, r - NeedPrereqs(ws), e, ws)
<1>1. /\ Block(x, k, Words(ws)) /\ At(x, b, k, r, e) /\ NeedPrereqs(ws) <= r
      /\ m = k + Len(ws)
  BY WordsAre DEF Ready
<1>2. PICK p : p = ReadPrereqs(b, n)
  OBVIOUS
<1>3. /\ At(x, p.b, m, r - NeedPrereqs(ws), e)
      /\ Held(x, m) => p.v = ws
      /\ m \in Nat /\ m <= Len(x.items) /\ k <= m /\ NeedPrereqs(ws) \in Nat
  BY <1>1, <1>2, PrereqsAt
<1> QED
  BY <1>2, <1>3 DEF Done

LEMMA DependenciesDone ==
  ASSUME NEW x, IsText(x), NEW ws \in Seq(Int), NEW k, NEW b, NEW r \in Nat, NEW e \in BOOLEAN,
         NEW m, Ready(x, Words(ws), k, b, r, e, Len(ws) + 1, m),
         NEW n, Counted(x, k, n, Len(ws) + 1)
  PROVE  Done(x, ReadDependencies(b, n), k, m, r - (Len(ws) + 1), e, ws)
<1>1. /\ Block(x, k, Words(ws)) /\ At(x, b, k, r, e) /\ Len(ws) + 1 <= r
      /\ m = k + Len(ws)
  BY WordsAre DEF Ready
<1>2. PICK p : p = ReadDependencies(b, n)
  OBVIOUS
<1>3. /\ At(x, p.b, m, r - (Len(ws) + 1), e)
      /\ Held(x, m) => p.v = ws
      /\ m \in Nat /\ m <= Len(x.items) /\ k <= m
  BY <1>1, <1>2, DependenciesAt
<1> QED
  BY <1>2, <1>3 DEF Done

LEMMA CodeDone ==
  ASSUME NEW x, IsText(x), NEW c \in Seq(Int), NEW k, NEW b, NEW r, NEW e \in BOOLEAN,
         NEW m, Ready(x, CodeItems(c), k, b, r, e, NeedCode(c), m)
  PROVE  Done(x, ReadCode(b), k, m, r - NeedCode(c), e, c)
<1>1. /\ Block(x, k, CodeItems(c)) /\ At(x, b, k, r, e) /\ NeedCode(c) <= r
      /\ m = k + Len(CodeItems(c)) /\ r \in Nat
  BY DEF Ready
<1>2. /\ At(x, ReadCode(b).b, m, r - NeedCode(c), e)
      /\ Held(x, m) => ReadCode(b).v = c
      /\ m \in Nat /\ m <= Len(x.items) /\ k <= m /\ NeedCode(c) \in Nat
  BY <1>1, CodeItemsAt
<1> QED
  BY <1>2 DEF Done

LEMMA TargetAt ==
  ASSUME NEW x, IsText(x), NEW t \in Target, NEW id \in Int, NEW k,
         Block(x, k, TargetItems(id, t)), NEW r \in Nat, NEW e \in BOOLEAN,
         NeedTarget(t) <= r, NEW m, m = k + Len(TargetItems(id, t))
  PROVE  Reads(x, "target", k, m, r, r - NeedTarget(t), e, t)
<1>0. PICK name0, W, C, D :
        name0 = t.name /\ W = t.prereqs /\ C = t.code /\ D = t.dependencies
  OBVIOUS
<1>a. W \in Seq(Int) /\ C \in Seq(Int) /\ D \in Seq(Int)
  BY <1>0 DEF Target
<1>1. Len(W) \in Nat /\ Len(C) \in Nat /\ Len(D) \in Nat
  BY <1>a
<1>2. PICK L \in Nat : L = Len(x.items)
  BY TextIs
<1>3. PICK k4, k5 :
        /\ k \in Nat
        /\ Block(x, k, <<Word(id), String(name0), Word(Len(W))>>)
        /\ Block(x, k + 3, Words(W))
        /\ Block(x, k + 3 + Len(W), CodeItems(C))
        /\ k4 = k + 3 + Len(W) + Len(CodeItems(C))
        /\ Block(x, k4, <<Word(Len(D) + 1)>>)
        /\ k5 = k4 + 1 /\ Block(x, k5, Words(D))
        /\ k + Len(TargetItems(id, t)) = k5 + Len(D)
  BY <1>0, <1>2, TargetItemsAre
<1>4. /\ k + 3 <= Len(x.items) /\ x.items[k + 1] = Word(id)
      /\ x.items[k + 2] = String(name0) /\ x.items[k + 3] = Word(Len(W))
  BY <1>3, BlockThree
<1>5. k \in Nat /\ k4 \in Nat /\ k4 + 1 <= Len(x.items) /\ x.items[k4 + 1] = Word(Len(D) + 1)
  BY <1>3, BlockOne
<1>6. PICK k1 \in Nat, k2 \in Nat, k3 \in Nat :
        /\ k1 = k + 1 /\ k2 = k + 2 /\ k3 = k + 3 /\ k1 + 1 = k2 /\ k2 + 1 = k3
        /\ k1 <= L /\ k2 <= L /\ k3 <= L
  <2>1. k \in Nat /\ k + 3 <= L
    BY <1>2, <1>3, <1>4
  <2> QED
    BY <2>1
<1>7. PICK n1, n2, n3 : /\ n1 = NeedPrereqs(W) /\ n2 = NeedCode(C)
                        /\ n3 = Len(D) + 1
  OBVIOUS
<1>8. n1 \in Nat /\ n2 \in Nat /\ n3 \in Nat /\ NeedTarget(t) = n1 + n2 + n3
  <2>2. n1 \in Nat
    BY <1>a, <1>1, <1>7 DEF NeedPrereqs, PrereqSize
  <2>3. n2 \in Nat
    BY <1>a, <1>1, <1>7 DEF NeedCode, ChunkSize
  <2> QED
    BY <1>0, <1>1, <1>7, <2>2, <2>3 DEF NeedTarget
<1>9. PICK r1 \in Nat, r2 \in Nat, r3 \in Nat :
        /\ r1 = r - n1 /\ r2 = r1 - n2 /\ r3 = r2 - n3 /\ r3 = r - NeedTarget(t)
        /\ n1 <= r /\ n2 <= r1 /\ n3 <= r2
  BY <1>8
<1> SUFFICES ASSUME NEW b, At(x, b, k, r, e)
             PROVE  /\ At(x, ReadTarget(b).b, m, r3, e)
                    /\ Held(x, m) => ReadTarget(b).v = t
  <2>2. \A c : ReadBy("target", c) = ReadTarget(c)
    BY DEF ReadBy
  <2> QED
    BY <1>9, <2>2 DEF Reads
<1>10. PICK b1, b2, b3, b4, b5, b6, name, nid, prereqs, code, ndep, deps :
         /\ b1 = ReadWord(b).b /\ name = ReadString(b1) /\ b2 = name.b
         /\ nid = ReadWord(b2) /\ b3 = nid.b
         /\ prereqs = ReadPrereqs(b3, nid.v)
         /\ b4 = prereqs.b
         /\ code = ReadCode(b4) /\ b5 = code.b
         /\ ndep = ReadWord(b5) /\ b6 = ndep.b
         /\ deps = ReadDependencies(b6, ndep.v)
  OBVIOUS
<1>11. At(x, b1, k1, r, e)
  <2>1. k + 1 <= Len(x.items) /\ x.items[k + 1] = Word(id)
    BY <1>2, <1>4, <1>6
  <2>2. At(x, ReadWord(b).b, k + 1, r, e)
    BY <1>5, <2>1, WordAt, SMTT(30)
  <2> QED
    BY <1>6, <1>10, <2>2, Zenon
<1>12. At(x, b2, k2, r, e) /\ (Held(x, k2) => name.v = name0)
  <2>1. k1 + 1 <= Len(x.items) /\ x.items[k1 + 1] = String(name0)
    BY <1>2, <1>4, <1>6
  <2>2. At(x, ReadString(b1).b, k1 + 1, r, e) /\ (Held(x, k1 + 1) => ReadString(b1).v = name0)
    BY <1>11, <2>1, StringAt, SMTT(30)
  <2> QED
    BY <1>6, <1>10, <2>2, Zenon
<1>13. At(x, b3, k3, r, e) /\ nid.v = IF Held(x, k3) THEN Len(W) ELSE 0
  <2>1. k2 + 1 <= Len(x.items) /\ x.items[k2 + 1] = Word(Len(W))
    BY <1>2, <1>4, <1>6
  <2>2. /\ At(x, ReadWord(b2).b, k2 + 1, r, e)
        /\ ReadWord(b2).v = IF Held(x, k2 + 1) THEN Len(W) ELSE 0
    BY <1>12, <2>1, WordAt, SMTT(30)
  <2> QED
    BY <1>6, <1>10, <2>2, Zenon
<1>14. PICK m1 : m1 = k3 + Len(W)
  OBVIOUS
<1>15. /\ At(x, b4, m1, r1, e) /\ (Held(x, m1) => prereqs.v = W)
       /\ m1 \in Nat /\ m1 <= L
  <2>1. PICK n : n = nid.v
    OBVIOUS
  <2>2. Counted(x, k3, n, Len(W))
    BY <1>13, <2>1 DEF Counted
  <2>3. m1 = k3 + Len(Words(W))
    BY <1>a, <1>14, WordsAre
  <2>4. Block(x, k3, Words(W)) /\ NeedPrereqs(W) <= r
    BY <1>3, <1>6, <1>7, <1>9
  <2>5. Ready(x, Words(W), k3, b3, r, e, NeedPrereqs(W), m1)
    BY <1>13, <2>3, <2>4 DEF Ready
  <2>6. Done(x, ReadPrereqs(b3, n), k3, m1, r - NeedPrereqs(W), e, W)
    BY <1>a, <2>2, <2>5, PrereqsDone
  <2>7. r - NeedPrereqs(W) = r1 /\ ReadPrereqs(b3, n) = prereqs
    BY <1>7, <1>9, <1>10, <2>1, Zenon
  <2> QED
    BY <1>2, <1>10, <2>6, <2>7, Zenon DEF Done
<1>16. At(x, b5, k4, r2, e) /\ (Held(x, k4) => code.v = C) /\ m1 <= k4
  <2>1. Block(x, m1, CodeItems(C)) /\ k4 = m1 + Len(CodeItems(C))
    BY <1>3, <1>6, <1>14
  <2>2. NeedCode(C) <= r1 /\ At(x, b4, m1, r1, e)
    BY <1>7, <1>9, <1>15
  <2>3. Ready(x, CodeItems(C), m1, b4, r1, e, NeedCode(C), k4)
    BY <2>1, <2>2 DEF Ready
  <2>4. Done(x, ReadCode(b4), m1, k4, r1 - NeedCode(C), e, C)
    BY <1>a, <2>3, CodeDone
  <2>5. r1 - NeedCode(C) = r2 /\ ReadCode(b4) = code
    BY <1>7, <1>9, <1>10, Zenon
  <2> QED
    BY <1>10, <2>4, <2>5, Zenon DEF Done
<1>17. At(x, b6, k5, r2, e) /\ ndep.v = IF Held(x, k5) THEN Len(D) + 1 ELSE 0
  <2>1. At(x, b5, k4, r2, e)
    BY <1>16
  <2>2. /\ At(x, ReadWord(b5).b, k4 + 1, r2, e)
        /\ ReadWord(b5).v = IF Held(x, k4 + 1) THEN Len(D) + 1 ELSE 0
    BY <1>5, <2>1, WordAt, SMTT(30)
  <2> QED
    BY <1>3, <1>10, <2>2, Zenon
<1>18. /\ At(x, deps.b, m, r3, e) /\ (Held(x, m) => deps.v = D)
       /\ m \in Nat /\ m <= L /\ k5 <= m
  <2>1. PICK n : n = ndep.v
    OBVIOUS
  <2>2. Counted(x, k5, n, Len(D) + 1)
    BY <1>17, <2>1 DEF Counted
  <2>3. Block(x, k5, Words(D)) /\ Len(D) + 1 <= r2
    BY <1>3, <1>7, <1>9
  <2>4. m = k5 + Len(Words(D))
    BY <1>a, <1>3, WordsAre
  <2>5. Ready(x, Words(D), k5, b6, r2, e, Len(D) + 1, m)
    BY <1>17, <2>3, <2>4 DEF Ready
  <2>6. Done(x, ReadDependencies(b6, n), k5, m, r2 - (Len(D) + 1), e, D)
    BY <1>a, <2>2, <2>5, DependenciesDone
  <2>7. r2 - (Len(D) + 1) = r3 /\ ReadDependencies(b6, n) = deps
    BY <1>7, <1>9, <1>10, <2>1, Zenon
  <2> QED
    BY <1>2, <2>6, <2>7 DEF Done
<1>19. PICK d, nm, p, c : d = deps /\ nm = name.v /\ p = prereqs.v /\ c = code.v
  OBVIOUS
<1>20. /\ ReadTarget(b).b = d.b
       /\ ReadTarget(b).v = [name |-> nm, prereqs |-> p, code |-> c, dependencies |-> d.v]
  <2>1. ReadTarget(b) = Pair(deps.b, [name |-> name.v, prereqs |-> prereqs.v, code |-> code.v,
                                      dependencies |-> deps.v])
    BY <1>10, ZenonT(60) DEF ReadTarget, ReadPrereqs, ReadDependencies
  <2> QED
    BY <1>19, <2>1 DEF Pair
<1>21. ASSUME Held(x, m) PROVE ReadTarget(b).v = t
  <2>1. k5 \in Nat /\ k4 <= k5 /\ k5 <= m /\ k4 <= m /\ m1 <= m /\ k2 <= m1 /\ k2 <= m
    <3>1. k2 <= m1
      BY <1>1, <1>6, <1>14, SMTT(30)
    <3>2. k4 \in Nat /\ k5 = k4 + 1 /\ m1 \in Nat /\ m \in Nat /\ k5 <= m /\ m1 <= k4
      BY <1>3, <1>5, <1>15, <1>16, <1>18
    <3> QED
      BY <3>1, <3>2
  <2>2. Held(x, k2) /\ Held(x, m1) /\ Held(x, k4)
    BY <1>2, <1>5, <1>6, <1>15, <1>18, <1>21, <2>1, HeldDown
  <2>3. nm = t.name /\ p = t.prereqs /\ c = t.code /\ d.v = t.dependencies
    BY <1>12, <1>15, <1>16, <1>0, <1>18, <1>19, <1>21, <2>2
  <2>4. t = [name |-> t.name, prereqs |-> t.prereqs, code |-> t.code,
             dependencies |-> t.dependencies]
    BY DEF Target
  <2> QED
    BY <1>20, <2>3, <2>4
<1> QED
  BY <1>18, <1>19, <1>20, <1>21

Factvar == [name : STRING, flags : Int]

LEMMA FactvarAt ==
  ASSUME NEW x, IsText(x), NEW v \in Factvar, NEW id \in Int, NEW k,
         Block(x, k, VariableItems(id, v)), NEW r \in Nat, NEW e \in BOOLEAN,
         NEW m, m = k + Len(VariableItems(id, v))
  PROVE  Reads(x, "factvar", k, m, r, r, e, v)
<1>1. PICK name0 \in STRING, flags0 \in Int : name0 = v.name /\ flags0 = v.flags
  BY DEF Factvar
<1>2. VariableItems(id, v) = <<Word(id), String(name0), Word(flags0)>>
  BY <1>1 DEF VariableItems
<1>3. /\ k \in Nat /\ k + 3 <= Len(x.items) /\ x.items[k + 1] = Word(id)
      /\ x.items[k + 2] = String(name0) /\ x.items[k + 3] = Word(flags0)
  <2>1. Block(x, k, <<Word(id), String(name0), Word(flags0)>>)
    BY <1>2
  <2> QED
    BY <2>1, BlockThree
<1>4. m = k + 3
  BY <1>2
<1>5. PICK L \in Nat, j \in Nat : L = Len(x.items) /\ j = k
  BY <1>3, TextIs
<1>6. PICK k1 \in Nat, k2 \in Nat, k3 \in Nat :
        k1 = j + 1 /\ k2 = k1 + 1 /\ k3 = k2 + 1 /\ k3 = m
  BY <1>4, <1>5
<1>7. /\ j + 1 <= Len(x.items) /\ x.items[j + 1] = Word(id)
      /\ k1 + 1 <= Len(x.items) /\ x.items[k1 + 1] = String(name0)
      /\ k2 + 1 <= Len(x.items) /\ x.items[k2 + 1] = Word(flags0)
  BY <1>3, <1>5, <1>6
<1> SUFFICES ASSUME NEW b, At(x, b, j, r, e)
             PROVE  /\ At(x, ReadFactvar(b).b, k3, r, e)
                    /\ Held(x, k3) => ReadFactvar(b).v = v
  <2>1. \A c : ReadBy("factvar", c) = ReadFactvar(c)
    BY DEF ReadBy
  <2> QED
    BY <1>5, <1>6, <2>1 DEF Reads
<1>8. PICK b1, b2, b3, name, flags :
        /\ b1 = ReadWord(b).b /\ name = ReadString(b1) /\ b2 = name.b
        /\ flags = ReadWord(b2) /\ b3 = flags.b
  OBVIOUS
<1>9. At(x, b1, k1, r, e)
  <2>1. At(x, ReadWord(b).b, j + 1, r, e)
    BY <1>7, WordAt, SMTT(30)
  <2> QED
    BY <1>6, <1>8, <2>1
<1>10. At(x, b2, k2, r, e) /\ (Held(x, k2) => name.v = name0)
  <2>1. /\ At(x, ReadString(b1).b, k1 + 1, r, e)
        /\ Held(x, k1 + 1) => ReadString(b1).v = name0
    BY <1>7, <1>9, StringAt
  <2> QED
    BY <1>6, <1>8, <2>1
<1>11. At(x, b3, k3, r, e) /\ (Held(x, k3) => flags.v = flags0)
  <2>1. /\ At(x, ReadWord(b2).b, k2 + 1, r, e)
        /\ ReadWord(b2).v = IF Held(x, k2 + 1) THEN flags0 ELSE 0
    BY <1>7, <1>10, WordAt
  <2> QED
    BY <1>6, <1>8, <2>1
<1>12. ReadFactvar(b).b = b3 /\ ReadFactvar(b).v = [name |-> name.v, flags |-> flags.v]
  BY <1>8 DEF ReadFactvar, Pair
<1>13. ASSUME Held(x, k3) PROVE ReadFactvar(b).v = v
  <2>1. k2 <= k3 /\ k3 <= Len(x.items)
    BY <1>5, <1>6, <1>7
  <2>2. Held(x, k2)
    BY <1>13, <2>1, HeldDown
  <2>3. v = [name |-> v.name, flags |-> v.flags]
    BY DEF Factvar
  <2> QED
    BY <1>1, <1>10, <1>11, <1>12, <1>13, <2>2, <2>3
<1> QED
  BY <1>11, <1>12, <1>13

LEMMA NameAt ==
  ASSUME NEW x, IsText(x), NEW name0 \in STRING, NEW id \in Int, NEW k,
         Block(x, k, NameItems(id, name0)), NEW r \in Nat, NEW e \in BOOLEAN,
         NEW m, m = k + Len(NameItems(id, name0))
  PROVE  Reads(x, "name", k, m, r, r, e, name0)
<1>1. /\ k \in Nat /\ k + 2 <= Len(x.items) /\ x.items[k + 1] = Word(id)
      /\ x.items[k + 2] = String(name0)
  <2>1. Block(x, k, <<Word(id), String(name0)>>)
    BY DEF NameItems
  <2> QED
    BY <2>1, BlockTwo
<1>2. m = k + 2
  BY DEF NameItems
<1>3. PICK L \in Nat, j \in Nat : L = Len(x.items) /\ j = k
  BY <1>1, TextIs
<1>4. PICK k1 \in Nat, k2 \in Nat : k1 = j + 1 /\ k2 = k1 + 1 /\ k2 = m
  BY <1>2, <1>3
<1>5. /\ j + 1 <= Len(x.items) /\ x.items[j + 1] = Word(id)
      /\ k1 + 1 <= Len(x.items) /\ x.items[k1 + 1] = String(name0)
  BY <1>1, <1>3, <1>4
<1> SUFFICES ASSUME NEW b, At(x, b, j, r, e)
             PROVE  /\ At(x, ReadName(b).b, k2, r, e)
                    /\ Held(x, k2) => ReadName(b).v = name0
  <2>1. \A c : ReadBy("name", c) = ReadName(c)
    BY DEF ReadBy
  <2> QED
    BY <1>3, <1>4, <2>1 DEF Reads
<1>6. PICK b1 : b1 = ReadWord(b).b
  OBVIOUS
<1>7. At(x, b1, k1, r, e)
  <2>1. At(x, ReadWord(b).b, j + 1, r, e)
    BY <1>5, WordAt
  <2> QED
    BY <1>4, <1>6, <2>1
<1>8. /\ At(x, ReadString(b1).b, k1 + 1, r, e)
      /\ Held(x, k1 + 1) => ReadString(b1).v = name0
  BY <1>5, <1>7, StringAt
<1> QED
  BY <1>4, <1>6, <1>8 DEF ReadName

Field == [name : STRING, value : Values]

AsRead(v) ==
  IF v.type = "double" THEN [type |-> "double", v |-> AsDouble(v.v)] ELSE v
FieldAsRead(f) == [name |-> f.name, value |-> AsRead(f.value)]

LEMMA ValuesAre ==
  ASSUME NEW v \in Values
  PROVE  /\ v = [type |-> v.type, v |-> v.v]
         /\ v.type \in {"integer", "double", "string"}
         /\ v.type \in {"integer", "double"} => v.v \in Int
         /\ v.type = "string" => v.v \in STRING
         /\ ValueItem(v) \in Item
         /\ v.type = "integer" => ValueItem(v) = Word(v.v)
         /\ v.type = "string" => ValueItem(v) = String(v.v)
         /\ v.type = "double" => ValueItem(v) = Double(v.v)
<1>1. CASE v \in [type : {"integer", "double"}, v : Int]
  <2>1. v = [type |-> v.type, v |-> v.v] /\ v.type \in {"integer", "double"} /\ v.v \in Int
    BY <1>1
  <2> QED
    BY <2>1, ItemsAre DEF ValueItem
<1>2. CASE v \in [type : {"string"}, v : STRING]
  <2>1. v = [type |-> v.type, v |-> v.v] /\ v.type = "string" /\ v.v \in STRING
    BY <1>2
  <2> QED
    BY <2>1, ItemsAre DEF ValueItem
<1> QED
  BY <1>1, <1>2 DEF Values

LEMMA TypeCodes ==
  /\ TypeCode("integer") = 2 /\ TypeCode("double") = 3 /\ TypeCode("string") = 4
  /\ TypeNames[2] = "integer" /\ TypeNames[3] = "double" /\ TypeNames[4] = "string"
<1>1. /\ DOMAIN TypeNames = {1, 2, 3, 4}
      /\ TypeNames[1] = "nil" /\ TypeNames[2] = "integer" /\ TypeNames[3] = "double"
      /\ TypeNames[4] = "string"
  BY DEF TypeNames
<1>2. /\ "nil" # "integer" /\ "nil" # "double" /\ "nil" # "string"
      /\ "integer" # "double" /\ "integer" # "string" /\ "double" # "string"
  OBVIOUS
<1>3. /\ \A i \in {1, 2, 3, 4} : TypeNames[i] = "integer" <=> i = 2
      /\ \A i \in {1, 2, 3, 4} : TypeNames[i] = "double" <=> i = 3
      /\ \A i \in {1, 2, 3, 4} : TypeNames[i] = "string" <=> i = 4
  BY <1>1, <1>2
<1>4. TypeCode("integer") = 2
  <2>1. \A i : i = 2 <=> i \in DOMAIN TypeNames /\ TypeNames[i] = "integer"
    BY <1>1, <1>3
  <2> QED
    BY <2>1 DEF TypeCode
<1>5. TypeCode("double") = 3
  <2>1. \A i : i = 3 <=> i \in DOMAIN TypeNames /\ TypeNames[i] = "double"
    BY <1>1, <1>3
  <2> QED
    BY <2>1 DEF TypeCode
<1>6. TypeCode("string") = 4
  <2>1. \A i : i = 4 <=> i \in DOMAIN TypeNames /\ TypeNames[i] = "string"
    BY <1>1, <1>3
  <2> QED
    BY <2>1 DEF TypeCode
<1> QED
  BY <1>1, <1>4, <1>5, <1>6

LEMMA ValueReads ==
  ASSUME NEW b
  PROVE  /\ ReadValue(b, 2) = Pair(ReadWord(b).b, [type |-> "integer", v |-> ReadWord(b).v])
         /\ ReadValue(b, 3) = Pair(ReadDouble(b).b, [type |-> "double", v |-> ReadDouble(b).v])
         /\ ReadValue(b, 4) = Pair(ReadString(b).b, [type |-> "string", v |-> ReadString(b).v])
         /\ ReadValue(b, 0).b = b
<1>1. ReadValue(b, 2) = Pair(ReadWord(b).b, [type |-> "integer", v |-> ReadWord(b).v])
  <2>1. (IF 2 = 0 THEN "unknown" ELSE TypeNames[2]) = "integer"
    BY TypeCodes
  <2> QED
    BY <2>1 DEF ReadValue
<1>2. ReadValue(b, 3) = Pair(ReadDouble(b).b, [type |-> "double", v |-> ReadDouble(b).v])
  <2>1. (IF 3 = 0 THEN "unknown" ELSE TypeNames[3]) = "double"
    BY TypeCodes
  <2> QED
    BY <2>1 DEF ReadValue
<1>3. ReadValue(b, 4) = Pair(ReadString(b).b, [type |-> "string", v |-> ReadString(b).v])
  <2>1. (IF 4 = 0 THEN "unknown" ELSE TypeNames[4]) = "string"
    BY TypeCodes
  <2> QED
    BY <2>1 DEF ReadValue
<1>4. ReadValue(b, 0).b = b
  <2>1. ReadValue(b, 0) = Pair(Pair(b, 0).b, [type |-> "unknown", v |-> Pair(b, 0).v])
    BY DEF ReadValue
  <2> QED
    BY <2>1 DEF Pair
<1> QED
  BY <1>1, <1>2, <1>3, <1>4

LEMMA ValueAt ==
  ASSUME NEW x, IsText(x), NEW v \in Values, NEW k \in Nat, k + 1 <= Len(x.items),
         x.items[k + 1] = ValueItem(v), NEW r \in Nat, NEW e \in BOOLEAN,
         NEW b, At(x, b, k, r, e), NEW code, Counted(x, k, code, TypeCode(v.type))
  PROVE  /\ At(x, ReadValue(b, code).b, k + 1, r, e)
         /\ Held(x, k + 1) => ReadValue(b, code).v = AsRead(v)
<1>1. CASE ~Held(x, k)
  <2>1. code = 0
    BY <1>1 DEF Counted
  <2>2. ReadValue(b, code).b = b /\ Past(b, e)
    BY <1>1, <2>1, ValueReads DEF At
  <2>3. PICK m \in Nat : m = k + 1 /\ k <= m /\ m <= Len(x.items)
    OBVIOUS
  <2>4. At(x, b, m, r, e) /\ ~Held(x, m)
    BY <1>1, <2>2, <2>3, PastStays
  <2> QED
    BY <2>2, <2>3, <2>4
<1>2. CASE Held(x, k)
  <2>1. code = TypeCode(v.type)
    BY <1>2 DEF Counted
  <2>2. CASE v.type = "integer"
    <3>1. code = 2 /\ x.items[k + 1] = Word(v.v)
      BY <2>1, <2>2, TypeCodes, ValuesAre
    <3>2. /\ At(x, ReadWord(b).b, k + 1, r, e)
          /\ Held(x, k + 1) => ReadWord(b).v = v.v
      <4>1. PICK w : w = v.v
        OBVIOUS
      <4>2. x.items[k + 1] = Word(w)
        BY <3>1, <4>1
      <4>3. /\ At(x, ReadWord(b).b, k + 1, r, e)
            /\ ReadWord(b).v = IF Held(x, k + 1) THEN w ELSE 0
        BY <4>2, WordAt
      <4> QED
        BY <4>1, <4>3
    <3>3. ReadValue(b, code) = Pair(ReadWord(b).b, [type |-> "integer", v |-> ReadWord(b).v])
      BY <3>1, ValueReads
    <3>4. AsRead(v) = [type |-> "integer", v |-> v.v]
      BY <2>2, ValuesAre DEF AsRead
    <3> QED
      BY <3>2, <3>3, <3>4 DEF Pair
  <2>3. CASE v.type = "string"
    <3>1. code = 4 /\ x.items[k + 1] = String(v.v)
      BY <2>1, <2>3, TypeCodes, ValuesAre
    <3>2. /\ At(x, ReadString(b).b, k + 1, r, e)
          /\ Held(x, k + 1) => ReadString(b).v = v.v
      BY <3>1, StringAt
    <3>3. ReadValue(b, code) = Pair(ReadString(b).b, [type |-> "string", v |-> ReadString(b).v])
      BY <3>1, ValueReads
    <3>4. AsRead(v) = [type |-> "string", v |-> v.v]
      BY <2>3, ValuesAre DEF AsRead
    <3> QED
      BY <3>2, <3>3, <3>4 DEF Pair
  <2>4. CASE v.type = "double"
    <3>1. code = 3 /\ x.items[k + 1] = Double(v.v)
      BY <2>1, <2>4, TypeCodes, ValuesAre
    <3>2. /\ At(x, ReadDouble(b).b, k + 1, r, e)
          /\ Held(x, k + 1) => ReadDouble(b).v = AsDouble(v.v)
      BY <3>1, DoubleAt
    <3>3. ReadValue(b, code) = Pair(ReadDouble(b).b, [type |-> "double", v |-> ReadDouble(b).v])
      BY <3>1, ValueReads
    <3>4. AsRead(v) = [type |-> "double", v |-> AsDouble(v.v)]
      BY <2>4 DEF AsRead
    <3> QED
      BY <3>2, <3>3, <3>4 DEF Pair
  <2> QED
    BY <2>2, <2>3, <2>4, ValuesAre
<1> QED
  BY <1>1, <1>2

LEMMA FieldAt ==
  ASSUME NEW x, IsText(x), NEW f \in Field, NEW k,
         Block(x, k, FieldItems(f)), NEW r \in Nat, NEW e \in BOOLEAN, FieldSize <= r,
         NEW m, m = k + Len(FieldItems(f))
  PROVE  Reads(x, "field", k, m, r, r - FieldSize, e, FieldAsRead(f))
<1>1. PICK name0 \in STRING, v \in Values : name0 = f.name /\ v = f.value
  BY DEF Field
<1>2. PICK c : c = TypeCode(v.type)
  OBVIOUS
<1>3. FieldItems(f) = <<String(name0), Word(c), ValueItem(v)>>
  BY <1>1, <1>2 DEF FieldItems
<1>4. /\ k \in Nat /\ k + 3 <= Len(x.items) /\ x.items[k + 1] = String(name0)
      /\ x.items[k + 2] = Word(c) /\ x.items[k + 3] = ValueItem(v)
  <2>1. Block(x, k, <<String(name0), Word(c), ValueItem(v)>>)
    BY <1>3
  <2> QED
    BY <2>1, BlockThree
<1>5. m = k + 3
  BY <1>3
<1>6. PICK L \in Nat, j \in Nat : L = Len(x.items) /\ j = k
  BY <1>4, TextIs
<1>7. PICK k1 \in Nat, k2 \in Nat, k3 \in Nat :
        k1 = j + 1 /\ k2 = k1 + 1 /\ k3 = k2 + 1 /\ k3 = m
  BY <1>5, <1>6
<1>8. /\ j + 1 <= Len(x.items) /\ x.items[j + 1] = String(name0)
      /\ k1 + 1 <= Len(x.items) /\ x.items[k1 + 1] = Word(c)
      /\ k2 + 1 <= Len(x.items) /\ x.items[k2 + 1] = ValueItem(v)
      /\ j <= Len(x.items)
  BY <1>4, <1>6, <1>7
<1>9. PICK s \in Nat : s = r - FieldSize
  BY DEF FieldSize
<1> SUFFICES ASSUME NEW b, At(x, b, j, r, e)
             PROVE  /\ At(x, ReadField(b).b, k3, s, e)
                    /\ Held(x, k3) => ReadField(b).v = FieldAsRead(f)
  <2>1. \A d : ReadBy("field", d) = ReadField(d)
    BY DEF ReadBy
  <2> QED
    BY <1>6, <1>7, <1>9, <2>1 DEF Reads
<1>10. PICK b0, b1, b2, name, type, value :
         /\ b0 = Reserve(b, FieldSize) /\ name = ReadString(b0) /\ b1 = name.b
         /\ type = ReadWord(b1) /\ b2 = type.b /\ value = ReadValue(b2, type.v)
  OBVIOUS
<1>11. At(x, b0, j, s, e)
  <2>1. FieldSize \in Nat
    BY DEF FieldSize
  <2>2. At(x, Reserve(b, FieldSize), j, r - FieldSize, e)
    BY <1>8, <2>1, ReserveAt
  <2> QED
    BY <1>9, <1>10, <2>2
<1>12. At(x, b1, k1, s, e) /\ (Held(x, k1) => name.v = name0)
  <2>1. /\ At(x, ReadString(b0).b, j + 1, s, e)
        /\ Held(x, j + 1) => ReadString(b0).v = name0
    BY <1>8, <1>11, StringAt
  <2> QED
    BY <1>7, <1>10, <2>1
<1>13. At(x, b2, k2, s, e) /\ Counted(x, k2, type.v, c)
  <2>1. /\ At(x, ReadWord(b1).b, k1 + 1, s, e)
        /\ ReadWord(b1).v = IF Held(x, k1 + 1) THEN c ELSE 0
    BY <1>8, <1>12, WordAt
  <2> QED
    BY <1>7, <1>10, <2>1 DEF Counted
<1>14. At(x, value.b, k3, s, e) /\ (Held(x, k3) => value.v = AsRead(v))
  <2>1. PICK n : n = type.v
    OBVIOUS
  <2>2. Counted(x, k2, n, TypeCode(v.type))
    BY <1>2, <1>13, <2>1
  <2>3. /\ At(x, ReadValue(b2, n).b, k2 + 1, s, e)
        /\ Held(x, k2 + 1) => ReadValue(b2, n).v = AsRead(v)
    BY <1>8, <1>13, <2>2, ValueAt, SMTT(30)
  <2> QED
    BY <1>7, <1>10, <2>1, <2>3
<1>15. ReadField(b).b = value.b /\ ReadField(b).v = [name |-> name.v, value |-> value.v]
  BY <1>10 DEF ReadField, Pair
<1>16. ASSUME Held(x, k3) PROVE ReadField(b).v = FieldAsRead(f)
  <2>1. k1 <= k3 /\ k3 <= Len(x.items)
    BY <1>6, <1>7, <1>8
  <2>2. Held(x, k1)
    BY <1>16, <2>1, HeldDown
  <2> QED
    BY <1>1, <1>12, <1>14, <1>15, <1>16, <2>2 DEF FieldAsRead
<1> QED
  BY <1>14, <1>15, <1>16

(* What is read of every entry of a list, whatever is in front of it;      *)
(* needs is the memory that each takes, need sums it.                      *)
EntryReads(x, kind, seqs, needs, vals, e) ==
  \A i \in 1 .. Len(seqs) : \A k, r, m :
    Block(x, k, seqs[i]) /\ r \in Nat /\ needs[i] <= r /\ m = k + Len(seqs[i])
      => Reads(x, kind, k, m, r, r - needs[i], e, vals[i])

Entered(x, kind, seqs, needs, need, vals, e) ==
  /\ seqs \in Seq(Seq(Item)) /\ needs \in Seq(Nat) /\ Len(needs) = Len(seqs)
  /\ IsSums(need, needs) /\ EntryReads(x, kind, seqs, needs, vals, e)

LEMMA FlatIsListed ==
  ASSUME NEW x, IsText(x), NEW kind, NEW seqs, NEW needs, NEW need, NEW vals,
         NEW e \in BOOLEAN, Entered(x, kind, seqs, needs, need, vals, e),
         NEW k, Block(x, k, FlattenSeq(seqs)), NEW r \in Nat, need[Len(seqs)] <= r
  PROVE  Listed(x, kind, Len(seqs), k, r, e, Offsets(seqs), need, vals)
<1>1. seqs \in Seq(Seq(Item)) /\ Len(x.items) \in Nat
  BY TextIs DEF Entered
<1>a. PICK o : o = Offsets(seqs)
  OBVIOUS
<1>2. PICK N \in Nat, L \in Nat : N = Len(seqs) /\ o = Offsets(seqs) /\ L = Len(x.items)
  BY <1>1, <1>a
<1>3. /\ o \in [0 .. N -> Nat] /\ o[0] = 0
      /\ \A i \in 1 .. N : /\ o[i] = o[i - 1] + Len(seqs[i])
                           /\ Block(x, k + o[i - 1], seqs[i])
      /\ \A i \in 0 .. N : k + o[i] <= Len(x.items)
  BY <1>1, <1>2, BlockFlat
<1>4. /\ needs \in Seq(Nat) /\ Len(needs) = N /\ IsSums(need, needs)
      /\ EntryReads(x, kind, seqs, needs, vals, e)
  BY <1>2 DEF Entered
<1>5. /\ need \in [0 .. N -> Nat] /\ need[0] = 0
      /\ \A i \in 1 .. N : need[i] = need[i - 1] + needs[i]
  BY <1>4 DEF IsSums
<1>6. \A a, b \in 0 .. N : a <= b => need[a] <= need[b]
  BY <1>4, SumsGrow
<1>7. ASSUME NEW i \in 1 .. N
      PROVE  /\ o[i - 1] <= o[i]
             /\ Reads(x, kind, k + o[i - 1], k + o[i], r - need[i - 1], r - need[i], e, vals[i])
  <2>1. i - 1 \in 0 .. N /\ i \in 0 .. N /\ N \in 0 .. N
    OBVIOUS
  <2>2. seqs[i] \in Seq(Item) /\ needs[i] \in Nat
    BY <1>1, <1>2, <1>4
  <2>3. PICK l \in Nat, q \in Nat : l = Len(seqs[i]) /\ q = needs[i]
    BY <2>2
  <2>4. PICK p0 \in Nat, p1 \in Nat, n0 \in Nat, n1 \in Nat, nN \in Nat :
          /\ p0 = o[i - 1] /\ p1 = o[i] /\ n0 = need[i - 1] /\ n1 = need[i] /\ nN = need[N]
    BY <1>3, <1>5, <2>1
  <2>5. p1 = p0 + l /\ n1 = n0 + q /\ n1 <= nN /\ nN <= r
    <3>1. need[i] <= need[N]
      BY <1>6, <2>1
    <3>2. need[N] <= r
      BY <1>2
    <3> QED
      BY <1>3, <1>5, <2>3, <2>4, <3>1, <3>2
  <2>6. PICK k0 : k0 = k + p0
    OBVIOUS
  <2>7. Block(x, k0, seqs[i])
    BY <1>3, <2>4, <2>6
  <2>8. k \in Nat
    BY <1>1, BlockFlat DEF Block
  <2>9. PICK r0 \in Nat, k1 \in Nat : r0 = r - n0 /\ k1 = k + p1 /\ q <= r0 /\ k1 = k0 + l
                                      /\ r0 - q = r - n1
    BY <2>5, <2>6, <2>8
  <2>10. Reads(x, kind, k0, k1, r0, r0 - q, e, vals[i])
    BY <1>2, <1>4, <2>3, <2>7, <2>9 DEF EntryReads
  <2>11. p0 <= p1
    BY <2>5
  <2> QED
    BY <2>4, <2>6, <2>9, <2>10, <2>11
<1> QED
  BY <1>2, <1>3, <1>5, <1>7 DEF Listed

FirstOf(vals, N) == [i \in 1 .. N |-> vals[i]]

(* A list is read if its length is; of the other case nothing is left.     *)
LEMMA ManyAt ==
  ASSUME NEW x, IsText(x), NEW kind, NEW seqs, NEW needs, NEW need, NEW vals,
         NEW e \in BOOLEAN, Entered(x, kind, seqs, needs, need, vals, e),
         NEW k, NEW b, NEW r \in Nat, NEW m,
         Ready(x, FlattenSeq(seqs), k, b, r, e, need[Len(seqs)], m),
         NEW n, Counted(x, k, n, Len(seqs)), NEW h, IsMany(h, kind, b, n)
  PROVE  Done(x, h[n], k, m, r - need[Len(seqs)], e, FirstOf(vals, Len(seqs)))
<1>1. /\ Block(x, k, FlattenSeq(seqs)) /\ At(x, b, k, r, e) /\ r \in Nat
      /\ need[Len(seqs)] <= r /\ m = k + Len(FlattenSeq(seqs))
  BY DEF Ready
<1>2. seqs \in Seq(Seq(Item)) /\ Len(x.items) \in Nat
  BY TextIs DEF Entered
<1>a. PICK o : o = Offsets(seqs)
  OBVIOUS
<1>3. PICK N \in Nat, L \in Nat, s \in Nat :
        N = Len(seqs) /\ o = Offsets(seqs) /\ L = Len(x.items) /\ s = r
  BY <1>1, <1>2, <1>a
<1>4. /\ o \in [0 .. N -> Nat] /\ m = k + o[N] /\ \A i \in 0 .. N : k + o[i] <= Len(x.items)
  BY <1>1, <1>2, <1>3, BlockFlat
<1>5. PICK j \in Nat : j = k
  BY <1>1 DEF Block
<1>6. m \in Nat /\ m <= Len(x.items) /\ k <= m /\ j <= m
  <2>1. PICK p \in Nat : p = o[N] /\ k + p <= Len(x.items)
    BY <1>4
  <2> QED
    BY <1>4, <1>5, <2>1
<1>7. CASE ~Held(x, j)
  <2>1. n = 0
    BY <1>5, <1>7 DEF Counted
  <2>2. h[n].b = b
    <3>1. h[0] = Pair(b, <<>>)
      BY <2>1 DEF IsMany
    <3> QED
      BY <2>1, <3>1 DEF Pair
  <2>3. Past(b, e)
    BY <1>1, <1>5, <1>7 DEF At
  <2>4. At(x, b, m, r - need[Len(seqs)], e) /\ ~Held(x, m)
    BY <1>6, <1>7, <2>3, PastStays
  <2> QED
    BY <1>6, <2>2, <2>4 DEF Done
<1>8. CASE Held(x, j)
  <2>1. n = N
    BY <1>3, <1>5, <1>8 DEF Counted
  <2>2. Listed(x, kind, N, j, s, e, o, need, vals)
    BY <1>1, <1>3, <1>5, FlatIsListed
  <2>3. IsMany(h, kind, b, N) /\ At(x, b, j, s, e)
    BY <1>1, <1>3, <1>5, <2>1
  <2>4. /\ At(x, h[N].b, j + o[N], s - need[N], e)
        /\ Held(x, j + o[N]) => h[N].v = [i \in 1 .. N |-> vals[i]]
    BY <2>2, <2>3, ListAt
  <2> QED
    BY <1>3, <1>4, <1>5, <1>6, <2>1, <2>4 DEF Done, FirstOf
<1> QED
  BY <1>7, <1>8

LEMMA ConstantSums ==
  ASSUME NEW N \in Nat, NEW c \in Nat, NEW needs, needs = [i \in 1 .. N |-> c],
         NEW need, need = [n \in 0 .. N |-> n * c]
  PROVE  /\ needs \in Seq(Nat) /\ Len(needs) = N /\ IsSums(need, needs) /\ need[N] = N * c
<1>1. needs \in Seq(Nat) /\ Len(needs) = N
  OBVIOUS
<1>2. \A n \in 0 .. N : n * c \in Nat
  OBVIOUS
<1>3. need \in [0 .. N -> Nat] /\ need[0] = 0 /\ need[N] = N * c
  BY <1>2
<1>4. ASSUME NEW n \in 1 .. N PROVE need[n] = need[n - 1] + needs[n]
  <2>1. n \in 0 .. N /\ n - 1 \in 0 .. N
    OBVIOUS
  <2>2. need[n] = n * c /\ need[n - 1] = (n - 1) * c /\ needs[n] = c
    BY <2>1
  <2>3. n * c = (n - 1) * c + c
    OBVIOUS
  <2> QED
    BY <2>2, <2>3
<1> QED
  BY <1>1, <1>3, <1>4 DEF IsSums

LEMMA FieldItemsAre ==
  ASSUME NEW f \in Field
  PROVE  FieldItems(f) \in Seq(Item) /\ Len(FieldItems(f)) = 3
<1>1. PICK name0 \in STRING, v \in Values : name0 = f.name /\ v = f.value
  BY DEF Field
<1>2. String(name0) \in Item /\ ValueItem(v) \in Item
  BY ItemsAre, ValuesAre
<1>3. TypeCode(v.type) \in Int
  <2>1. v.type \in {"integer", "double", "string"}
    BY ValuesAre
  <2> QED
    BY <2>1, TypeCodes
<1>4. Word(TypeCode(v.type)) \in Item
  BY <1>3, ItemsAre
<1>5. FieldItems(f) = <<String(name0), Word(TypeCode(v.type)), ValueItem(v)>>
  BY <1>1 DEF FieldItems
<1> QED
  BY <1>2, <1>4, <1>5, FewItems

Initializer == [variable : Nat, fields : Seq(Field)]
Fieldwise(fs) == [i \in DOMAIN fs |-> FieldItems(fs[i])]

LEMMA InitItemsAre ==
  ASSUME NEW init \in Initializer
  PROVE  /\ InitItems(init) \in Seq(Item)
         /\ Fieldwise(init.fields) \in Seq(Seq(Item))
         /\ Len(Fieldwise(init.fields)) = Len(init.fields)
         /\ \A x, k : Len(x.items) \in Nat /\ Block(x, k, InitItems(init)) =>
              /\ Block(x, k, <<Word(init.variable), Word(Len(init.fields))>>)
              /\ Block(x, k + 2, FlattenSeq(Fieldwise(init.fields)))
              /\ k + Len(InitItems(init)) = (k + 2) + Len(FlattenSeq(Fieldwise(init.fields)))
<1>1. PICK var \in Nat, fs \in Seq(Field) : var = init.variable /\ fs = init.fields
  BY DEF Initializer
<1>2. PICK seqs : seqs = Fieldwise(fs)
  OBVIOUS
<1>3. seqs \in Seq(Seq(Item)) /\ Len(seqs) = Len(fs)
  <2>1. \A i \in DOMAIN fs : FieldItems(fs[i]) \in Seq(Item)
    BY FieldItemsAre
  <2>2. DOMAIN fs = 1 .. Len(fs) /\ Len(fs) \in Nat
    OBVIOUS
  <2>3. seqs \in [1 .. Len(fs) -> Seq(Item)]
    BY <1>2, <2>1, <2>2 DEF Fieldwise
  <2> QED
    BY <2>2, <2>3
<1>4. PICK all \in Seq(Item) : all = FlattenSeq(seqs)
  BY <1>3, FlattenIs DEF IsJoined
<1>5. Word(var) \in Item /\ Word(Len(fs)) \in Item
  BY ItemsAre
<1>6. PICK head \in Seq(Item) : head = <<Word(var), Word(Len(fs))>> /\ Len(head) = 2
  BY <1>5, FewItems
<1>7. PICK joined \in Seq(Item) : joined = head \o all /\ Len(joined) = Len(head) + Len(all)
  BY JoinOf
<1>8. InitItems(init) = joined
  BY <1>1, <1>2, <1>4, <1>6, <1>7 DEF InitItems, FieldsItems, Fieldwise
<1>9. ASSUME NEW x, NEW k, Len(x.items) \in Nat, Block(x, k, joined)
      PROVE  /\ Block(x, k, head) /\ Block(x, k + 2, all)
             /\ k + Len(joined) = (k + 2) + Len(all)
  <2>1. Block(x, k, head) /\ Block(x, k + Len(head), all)
    BY <1>7, <1>9, BlockParts
  <2>a. k \in Nat /\ Len(all) \in Nat
    BY <1>9 DEF Block
  <2>2. PICK j \in Nat, l \in Nat : j = k /\ l = Len(all)
    BY <2>a
  <2>3. Len(joined) = 2 + l /\ j + (2 + l) = (j + 2) + l
    BY <1>6, <1>7, <2>2
  <2> QED
    BY <1>6, <2>1, <2>2, <2>3
<1> QED
  BY <1>1, <1>2, <1>3, <1>4, <1>6, <1>8, <1>9

InitAsRead(init) ==
  [variable |-> init.variable,
   fields |-> [i \in 1 .. Len(init.fields) |-> FieldAsRead(init.fields[i])]]
NeedInit(init) == InitializerSize + Len(init.fields) * FieldSize

LEMMA FieldsEntered ==
  ASSUME NEW x, IsText(x), NEW fs \in Seq(Field), NEW e \in BOOLEAN
  PROVE  \E needs, need, vals :
           /\ Entered(x, "field", Fieldwise(fs), needs, need, vals, e)
           /\ need[Len(Fieldwise(fs))] = Len(fs) * FieldSize /\ Len(Fieldwise(fs)) = Len(fs)
           /\ FirstOf(vals, Len(fs)) = [i \in 1 .. Len(fs) |-> FieldAsRead(fs[i])]
<1>a. PICK seqs : seqs = Fieldwise(fs)
  OBVIOUS
<1>1. PICK N \in Nat, c \in Nat : seqs = Fieldwise(fs) /\ N = Len(fs) /\ c = FieldSize
  BY <1>a DEF FieldSize
<1>2. seqs \in Seq(Seq(Item)) /\ Len(seqs) = N
  <2>1. \A i \in DOMAIN fs : FieldItems(fs[i]) \in Seq(Item)
    BY FieldItemsAre
  <2>2. DOMAIN fs = 1 .. N
    BY <1>1
  <2>3. seqs \in [1 .. N -> Seq(Item)]
    BY <1>1, <2>1, <2>2 DEF Fieldwise
  <2> QED
    BY <2>3
<1>3. PICK needs, need, vals :
        /\ needs = [i \in 1 .. N |-> c] /\ need = [n \in 0 .. N |-> n * c]
        /\ vals = [i \in 1 .. N |-> FieldAsRead(fs[i])]
  OBVIOUS
<1>4. needs \in Seq(Nat) /\ Len(needs) = N /\ IsSums(need, needs) /\ need[N] = N * c
  BY <1>3, ConstantSums
<1>5. EntryReads(x, "field", seqs, needs, vals, e)
  <2> SUFFICES ASSUME NEW i \in 1 .. N, NEW k, NEW r \in Nat, NEW m, Block(x, k, seqs[i]),
                      needs[i] <= r, m = k + Len(seqs[i])
               PROVE  Reads(x, "field", k, m, r, r - needs[i], e, vals[i])
    BY <1>2 DEF EntryReads
  <2>1. PICK f \in Field : f = fs[i]
    BY <1>1
  <2>2. seqs[i] = FieldItems(f)
    BY <1>1, <2>1 DEF Fieldwise
  <2>3. needs[i] = FieldSize /\ vals[i] = FieldAsRead(f)
    BY <1>1, <1>3, <2>1
  <2>4. Reads(x, "field", k, m, r, r - FieldSize, e, FieldAsRead(f))
    BY <2>2, <2>3, FieldAt
  <2> QED
    BY <2>3, <2>4
<1>6. Entered(x, "field", seqs, needs, need, vals, e)
  BY <1>2, <1>4, <1>5 DEF Entered
<1>7. FirstOf(vals, N) = [i \in 1 .. N |-> FieldAsRead(fs[i])]
  BY <1>3 DEF FirstOf
<1> QED
  BY <1>1, <1>2, <1>4, <1>6, <1>7

LEMMA InitializerAt ==
  ASSUME NEW x, IsText(x), NEW init \in Initializer, NEW k,
         Block(x, k, InitItems(init)), NEW r \in Nat, NEW e \in BOOLEAN, NeedInit(init) <= r,
         NEW m, m = k + Len(InitItems(init))
  PROVE  Reads(x, "initializer", k, m, r, r - NeedInit(init), e, InitAsRead(init))
<1>1. PICK var \in Nat, fs \in Seq(Field) : var = init.variable /\ fs = init.fields
  BY DEF Initializer
<1>2. PICK N \in Nat, L \in Nat : N = Len(fs) /\ L = Len(x.items)
  BY TextIs
<1>3. PICK seqs : seqs = Fieldwise(fs)
  OBVIOUS
<1>4. /\ Block(x, k, <<Word(var), Word(N)>>) /\ Block(x, k + 2, FlattenSeq(seqs))
      /\ m = (k + 2) + Len(FlattenSeq(seqs)) /\ Len(seqs) = N
  BY <1>1, <1>2, <1>3, InitItemsAre
<1>5. /\ k \in Nat /\ k + 2 <= Len(x.items)
      /\ x.items[k + 1] = Word(var) /\ x.items[k + 2] = Word(N)
  BY <1>4, BlockTwo
<1>6. PICK j \in Nat, k1 \in Nat, k2 \in Nat : j = k /\ k1 = j + 1 /\ k2 = k1 + 1
  BY <1>5
<1>7. /\ j + 1 <= Len(x.items) /\ x.items[j + 1] = Word(var)
      /\ k1 + 1 <= Len(x.items) /\ x.items[k1 + 1] = Word(N)
      /\ j <= Len(x.items) /\ k2 <= L /\ k2 = k + 2
  BY <1>2, <1>5, <1>6, SMTT(30)
<1>8. PICK needs, need, vals :
        /\ Entered(x, "field", seqs, needs, need, vals, e)
        /\ need[N] = N * FieldSize
        /\ FirstOf(vals, N) = [i \in 1 .. N |-> FieldAsRead(fs[i])]
  BY <1>2, <1>3, <1>4, FieldsEntered, SMTT(30)
<1>9. PICK q \in Nat, s \in Nat, t \in Nat :
        q = need[N] /\ s = r - InitializerSize /\ t = s - q /\ t = r - NeedInit(init)
        /\ q <= s
  <2>1. need[N] = N * 5 /\ InitializerSize = 3 /\ NeedInit(init) = 3 + N * 5
    BY <1>1, <1>2, <1>8 DEF FieldSize, InitializerSize, NeedInit
  <2> QED
    BY <2>1
<1> SUFFICES ASSUME NEW b, At(x, b, j, r, e)
             PROVE  /\ At(x, ReadInitializer(b).b, m, t, e)
                    /\ Held(x, m) => ReadInitializer(b).v = InitAsRead(init)
  <2>1. \A d : ReadBy("initializer", d) = ReadInitializer(d)
    BY DEF ReadBy
  <2> QED
    BY <1>6, <1>9, <2>1 DEF Reads
<1>10. PICK b0, b1, b2, variable, nfield, n, fields :
         /\ b0 = Reserve(b, InitializerSize) /\ variable = ReadWord(b0) /\ b1 = variable.b
         /\ nfield = ReadWord(b1) /\ b2 = nfield.b /\ n = nfield.v
         /\ fields = ReadMany(b2, n, ReadField)
  OBVIOUS
<1>11. At(x, b0, j, s, e)
  <2>1. InitializerSize \in Nat /\ InitializerSize <= r
    BY <1>9 DEF InitializerSize
  <2>2. At(x, Reserve(b, InitializerSize), j, r - InitializerSize, e)
    BY <1>7, <2>1, ReserveAt
  <2> QED
    BY <1>9, <1>10, <2>2
<1>12. At(x, b1, k1, s, e) /\ (Held(x, k1) => variable.v = var)
  <2>1. /\ At(x, ReadWord(b0).b, j + 1, s, e)
        /\ ReadWord(b0).v = IF Held(x, j + 1) THEN var ELSE 0
    <3>1. j + 1 <= Len(x.items) /\ x.items[j + 1] = Word(var)
      BY <1>7
    <3> QED
      BY <1>11, <3>1, WordAt
  <2> QED
    BY <1>6, <1>10, <2>1
<1>13. At(x, b2, k2, s, e) /\ Counted(x, k2, n, N)
  <2>1. /\ At(x, ReadWord(b1).b, k1 + 1, s, e)
        /\ ReadWord(b1).v = IF Held(x, k1 + 1) THEN N ELSE 0
    <3>1. k1 + 1 <= Len(x.items) /\ x.items[k1 + 1] = Word(N)
      BY <1>7
    <3> QED
      BY <1>12, <3>1, WordAt
  <2> QED
    BY <1>6, <1>10, <2>1 DEF Counted
<1>14. Done(x, fields, k2, m, t, e, [i \in 1 .. N |-> FieldAsRead(fs[i])])
  <2>1. n \in Nat
    BY <1>13 DEF Counted
  <2>2. PICK h : IsMany(h, "field", b2, n) /\ fields = h[n]
    BY <1>10, <2>1, ManyFields
  <2>3. Ready(x, FlattenSeq(seqs), k2, b2, s, e, need[Len(seqs)], m)
    BY <1>4, <1>7, <1>9, <1>13 DEF Ready
  <2>4. Done(x, h[n], k2, m, s - need[Len(seqs)], e, FirstOf(vals, Len(seqs)))
    <3>1. Counted(x, k2, n, Len(seqs)) /\ IsMany(h, "field", b2, n)
      BY <1>4, <1>13, <2>2
    <3>2. Entered(x, "field", seqs, needs, need, vals, e)
      BY <1>8
    <3> QED
      BY <2>3, <3>1, <3>2, ManyAt
  <2> QED
    BY <1>4, <1>8, <1>9, <2>2, <2>4
<1>15. /\ ReadInitializer(b).b = fields.b
       /\ ReadInitializer(b).v = [variable |-> variable.v, fields |-> fields.v]
  BY <1>10 DEF ReadInitializer, Pair
<1>16. ASSUME Held(x, m) PROVE ReadInitializer(b).v = InitAsRead(init)
  <2>1. k1 <= m /\ m \in Nat /\ m <= Len(x.items)
    BY <1>6, <1>14 DEF Done
  <2>2. Held(x, k1)
    BY <1>16, <2>1, HeldDown
  <2>3. fields.v = [i \in 1 .. N |-> FieldAsRead(fs[i])]
    BY <1>14, <1>16 DEF Done
  <2> QED
    BY <1>1, <1>2, <1>12, <1>15, <2>2, <2>3 DEF InitAsRead
<1>17. At(x, fields.b, m, t, e)
  BY <1>14 DEF Done
<1> QED
  BY <1>15, <1>16, <1>17

LEMMA RulesAre ==
  ASSUME NEW r \in Rules
  PROVE  /\ r.targets \in Seq(Target) /\ r.factvars \in Seq(Factvar)
         /\ r.dresvars \in Seq(STRING) /\ r.initializers \in Seq(Initializer)
         /\ r.methods \in Seq(STRING)
         /\ DOMAIN r = {"targets", "factvars", "dresvars", "initializers", "methods"}
<1>1. Initializer = [variable : Nat, fields : FieldsOf]
  BY DEF Initializer, Field, FieldsOf
<1>2. /\ Target = [name : STRING, prereqs : Seq(Int), code : Seq(Int), dependencies : Seq(Int)]
      /\ Factvar = [name : STRING, flags : Int]
  BY DEF Target, Factvar
<1>3. PICK A, B, C : A = Seq(Target) /\ B = Seq(Factvar) /\ C = Seq(Initializer)
  OBVIOUS
<1>4. Rules = [targets : A, factvars : B, dresvars : Seq(STRING), initializers : C,
               methods : Seq(STRING)]
  BY <1>1, <1>2, <1>3 DEF Rules
<1> QED
  BY <1>3, <1>4

LEMMA VariableItemsAre ==
  /\ \A id \in Int, v \in Factvar : VariableItems(id, v) \in Seq(Item)
  /\ \A id \in Int, s \in STRING : NameItems(id, s) \in Seq(Item)
<1>1. ASSUME NEW id \in Int, NEW v \in Factvar PROVE VariableItems(id, v) \in Seq(Item)
  <2>1. PICK name0 \in STRING, flags0 \in Int : name0 = v.name /\ flags0 = v.flags
    BY DEF Factvar
  <2>2. Word(id) \in Item /\ String(name0) \in Item /\ Word(flags0) \in Item
    BY ItemsAre
  <2>3. VariableItems(id, v) = <<Word(id), String(name0), Word(flags0)>>
    BY <2>1 DEF VariableItems
  <2> QED
    BY <2>2, <2>3, FewItems
<1>2. ASSUME NEW id \in Int, NEW s \in STRING PROVE NameItems(id, s) \in Seq(Item)
  <2>1. Word(id) \in Item /\ String(s) \in Item
    BY ItemsAre
  <2> QED
    BY <2>1, FewItems DEF NameItems
<1> QED
  BY <1>1, <1>2

(* The memory that a section takes. *)
NeedsOf(sec, r) ==
  CASE sec = "targets"      -> [i \in 1 .. Len(r.targets) |-> NeedTarget(r.targets[i])]
    [] sec = "factvars"     -> [i \in 1 .. Len(r.factvars) |-> 0]
    [] sec = "dresvars"     -> [i \in 1 .. Len(r.dresvars) |-> 0]
    [] sec = "initializers" -> [i \in 1 .. Len(r.initializers) |-> NeedInit(r.initializers[i])]
    [] sec = "methods"      -> [i \in 1 .. Len(r.methods) |-> 0]

LEMMA NeedsAre ==
  /\ \A t \in Target : NeedTarget(t) \in Nat
  /\ \A init \in Initializer : NeedInit(init) \in Nat
<1>1. ASSUME NEW t \in Target PROVE NeedTarget(t) \in Nat
  <2>1. PICK W \in Seq(Int), C \in Seq(Int), D \in Seq(Int) :
          W = t.prereqs /\ C = t.code /\ D = t.dependencies
    BY DEF Target
  <2>2. NeedPrereqs(W) \in Nat /\ NeedCode(C) \in Nat /\ Len(D) + 1 \in Nat
    BY DEF NeedPrereqs, NeedCode, PrereqSize, ChunkSize
  <2>3. PICK a \in Nat, b \in Nat, c \in Nat :
          a = NeedPrereqs(W) /\ b = NeedCode(C) /\ c = Len(D) + 1
    BY <2>2
  <2>4. NeedTarget(t) = a + b + c
    BY <2>1, <2>3 DEF NeedTarget
  <2> QED
    BY <2>4
<1>2. ASSUME NEW init \in Initializer PROVE NeedInit(init) \in Nat
  <2>1. PICK n \in Nat : n = Len(init.fields)
    BY DEF Initializer
  <2> QED
    BY <2>1 DEF NeedInit, InitializerSize, FieldSize
<1> QED
  BY <1>1, <1>2

SecNames == {"targets", "factvars", "dresvars", "initializers", "methods"}

(* One shape for the five sections: entries made from elements, of which   *)
(* each takes its memory.                                                  *)
LEMMA MadeOf ==
  ASSUME NEW E, NEW s \in Seq(E), NEW seqs, seqs = [i \in DOMAIN s |-> seqs[i]],
         \A i \in DOMAIN s : seqs[i] \in Seq(Item),
         NEW needs, needs = [i \in 1 .. Len(s) |-> needs[i]],
         \A i \in DOMAIN s : needs[i] \in Nat
  PROVE  /\ seqs \in Seq(Seq(Item)) /\ Len(seqs) = Len(s)
         /\ needs \in Seq(Nat) /\ Len(needs) = Len(s) /\ Len(s) \in Nat
<1>1. PICK N \in Nat : N = Len(s) /\ DOMAIN s = 1 .. N
  OBVIOUS
<1>2. seqs \in [1 .. N -> Seq(Item)]
  BY <1>1
<1>3. needs \in [1 .. N -> Nat]
  BY <1>1
<1> QED
  BY <1>1, <1>2, <1>3

LEMMA EntriesAre ==
  ASSUME NEW r \in Rules, NEW sec \in SecNames
  PROVE  /\ Entries(sec, r) \in Seq(Seq(Item)) /\ Len(Entries(sec, r)) = Len(r[sec])
         /\ NeedsOf(sec, r) \in Seq(Nat) /\ Len(NeedsOf(sec, r)) = Len(r[sec])
         /\ Len(r[sec]) \in Nat
<1>1. CASE sec = "targets"
  <2>1. PICK s \in Seq(Target) : s = r.targets
    BY RulesAre
  <2>2. PICK seqs, needs : seqs = Entries(sec, r) /\ needs = NeedsOf(sec, r)
    OBVIOUS
  <2>3. /\ seqs = [i \in DOMAIN s |-> TargetItems(i, s[i])]
        /\ needs = [i \in 1 .. Len(s) |-> NeedTarget(s[i])]
    BY <1>1, <2>1, <2>2 DEF Entries, NeedsOf
  <2>4. ASSUME NEW i \in DOMAIN s PROVE seqs[i] \in Seq(Item) /\ needs[i] \in Nat
    <3>1. i \in Int /\ s[i] \in Target /\ i \in 1 .. Len(s)
      OBVIOUS
    <3>2. seqs[i] = TargetItems(i, s[i]) /\ needs[i] = NeedTarget(s[i])
      BY <2>3, <3>1
    <3>3. PICK t \in Target, id \in Int : t = s[i] /\ id = i
      BY <3>1
    <3>4. TargetItems(id, t) \in Seq(Item)
      BY TargetItemsAre
    <3>5. NeedTarget(t) \in Nat
      BY NeedsAre
    <3>6. seqs[i] = TargetItems(id, t) /\ needs[i] = NeedTarget(t)
      BY <3>2, <3>3
    <3> QED
      BY <3>4, <3>5, <3>6
  <2>5. seqs = [i \in DOMAIN s |-> seqs[i]] /\ needs = [i \in 1 .. Len(s) |-> needs[i]]
    BY <2>3
  <2>6. r[sec] = s
    BY <1>1, <2>1
  <2> QED
    BY <2>2, <2>4, <2>5, <2>6, MadeOf
<1>2. CASE sec = "factvars"
  <2>1. PICK s \in Seq(Factvar) : s = r.factvars
    BY RulesAre
  <2>2. PICK seqs, needs : seqs = Entries(sec, r) /\ needs = NeedsOf(sec, r)
    OBVIOUS
  <2>3. /\ seqs = [i \in DOMAIN s |-> VariableItems(i, s[i])]
        /\ needs = [i \in 1 .. Len(s) |-> 0]
    BY <1>2, <2>1, <2>2 DEF Entries, NeedsOf
  <2>4. ASSUME NEW i \in DOMAIN s PROVE seqs[i] \in Seq(Item) /\ needs[i] \in Nat
    <3>1. i \in Int /\ s[i] \in Factvar /\ i \in 1 .. Len(s)
      OBVIOUS
    <3>2. seqs[i] = VariableItems(i, s[i]) /\ needs[i] = 0
      BY <2>3, <3>1
    <3> QED
      BY <3>1, <3>2, VariableItemsAre
  <2>5. seqs = [i \in DOMAIN s |-> seqs[i]] /\ needs = [i \in 1 .. Len(s) |-> needs[i]]
    BY <2>3
  <2>6. r[sec] = s
    BY <1>2, <2>1
  <2> QED
    BY <2>2, <2>4, <2>5, <2>6, MadeOf
<1>3. ASSUME NEW s \in Seq(STRING), r[sec] = s,
             Entries(sec, r) = [i \in DOMAIN s |-> NameItems(i, s[i])],
             NeedsOf(sec, r) = [i \in 1 .. Len(s) |-> 0]
      PROVE  /\ Entries(sec, r) \in Seq(Seq(Item)) /\ Len(Entries(sec, r)) = Len(r[sec])
             /\ NeedsOf(sec, r) \in Seq(Nat) /\ Len(NeedsOf(sec, r)) = Len(r[sec])
             /\ Len(r[sec]) \in Nat
  <2>2. PICK seqs, needs : seqs = Entries(sec, r) /\ needs = NeedsOf(sec, r)
    OBVIOUS
  <2>3. /\ seqs = [i \in DOMAIN s |-> NameItems(i, s[i])]
        /\ needs = [i \in 1 .. Len(s) |-> 0]
    BY <1>3, <2>2
  <2>4. ASSUME NEW i \in DOMAIN s PROVE seqs[i] \in Seq(Item) /\ needs[i] \in Nat
    <3>1. i \in Int /\ s[i] \in STRING /\ i \in 1 .. Len(s)
      OBVIOUS
    <3>2. seqs[i] = NameItems(i, s[i]) /\ needs[i] = 0
      BY <2>3, <3>1
    <3>3. PICK v \in STRING, id \in Int : v = s[i] /\ id = i
      BY <3>1
    <3>4. NameItems(id, v) \in Seq(Item)
      BY VariableItemsAre
    <3>5. seqs[i] = NameItems(id, v) /\ needs[i] = 0
      BY <3>2, <3>3
    <3>6. seqs[i] \in Seq(Item)
      BY <3>4, <3>5
    <3>7. needs[i] \in Nat
      BY <3>5
    <3> QED
      BY <3>6, <3>7
  <2>5. seqs = [i \in DOMAIN s |-> seqs[i]] /\ needs = [i \in 1 .. Len(s) |-> needs[i]]
    BY <2>3
  <2> QED
    BY <1>3, <2>2, <2>4, <2>5, MadeOf
<1>4. CASE sec = "dresvars"
  <2>1. PICK s \in Seq(STRING) : s = r.dresvars
    BY RulesAre
  <2>2. /\ r[sec] = s /\ Entries(sec, r) = [i \in DOMAIN s |-> NameItems(i, s[i])]
        /\ NeedsOf(sec, r) = [i \in 1 .. Len(s) |-> 0]
    BY <1>4, <2>1 DEF Entries, NeedsOf
  <2> QED
    BY <1>3, <2>2
<1>5. CASE sec = "methods"
  <2>1. PICK s \in Seq(STRING) : s = r.methods
    BY RulesAre
  <2>2. /\ r[sec] = s /\ Entries(sec, r) = [i \in DOMAIN s |-> NameItems(i, s[i])]
        /\ NeedsOf(sec, r) = [i \in 1 .. Len(s) |-> 0]
    BY <1>5, <2>1 DEF Entries, NeedsOf
  <2> QED
    BY <1>3, <2>2
<1>6. CASE sec = "initializers"
  <2>1. PICK s \in Seq(Initializer) : s = r.initializers
    BY RulesAre
  <2>2. PICK seqs, needs : seqs = Entries(sec, r) /\ needs = NeedsOf(sec, r)
    OBVIOUS
  <2>3. /\ seqs = [i \in DOMAIN s |-> InitItems(s[i])]
        /\ needs = [i \in 1 .. Len(s) |-> NeedInit(s[i])]
    BY <1>6, <2>1, <2>2 DEF Entries, NeedsOf
  <2>4. ASSUME NEW i \in DOMAIN s PROVE seqs[i] \in Seq(Item) /\ needs[i] \in Nat
    <3>1. s[i] \in Initializer /\ i \in 1 .. Len(s)
      OBVIOUS
    <3>2. seqs[i] = InitItems(s[i]) /\ needs[i] = NeedInit(s[i])
      BY <2>3, <3>1
    <3> QED
      BY <3>1, <3>2, InitItemsAre, NeedsAre
  <2>5. seqs = [i \in DOMAIN s |-> seqs[i]] /\ needs = [i \in 1 .. Len(s) |-> needs[i]]
    BY <2>3
  <2>6. r[sec] = s
    BY <1>6, <2>1
  <2> QED
    BY <2>2, <2>4, <2>5, <2>6, MadeOf
<1> QED
  BY <1>1, <1>2, <1>4, <1>5, <1>6 DEF SecNames

(* What the loader makes of a section. *)
SectionRead(sec, r) ==
  IF sec = "initializers"
    THEN [i \in 1 .. Len(r.initializers) |-> InitAsRead(r.initializers[i])]
    ELSE r[sec]
KindOf(sec) ==
  CASE sec = "targets"      -> "target"
    [] sec = "factvars"     -> "factvar"
    [] sec = "dresvars"     -> "name"
    [] sec = "initializers" -> "initializer"
    [] sec = "methods"      -> "name"

LEMMA EntriesRead ==
  ASSUME NEW x, IsText(x), NEW r \in Rules, NEW sec \in SecNames, NEW e \in BOOLEAN
  PROVE  EntryReads(x, KindOf(sec), Entries(sec, r), NeedsOf(sec, r), SectionRead(sec, r), e)
<1>1. PICK seqs, needs, vals, kind :
        /\ seqs = Entries(sec, r) /\ needs = NeedsOf(sec, r) /\ vals = SectionRead(sec, r)
        /\ kind = KindOf(sec)
  OBVIOUS
<1>2. Len(seqs) = Len(r[sec]) /\ Len(r[sec]) \in Nat
  BY <1>1, EntriesAre
<1> SUFFICES ASSUME NEW i \in 1 .. Len(seqs), NEW k, NEW s \in Nat, NEW m, Block(x, k, seqs[i]),
                    needs[i] <= s, m = k + Len(seqs[i])
             PROVE  Reads(x, kind, k, m, s, s - needs[i], e, vals[i])
  BY <1>1 DEF EntryReads
<1>3. PICK id \in Int : id = i /\ id \in 1 .. Len(r[sec])
  BY <1>2
<1>4. CASE sec = "targets"
  <2>1. PICK all \in Seq(Target) : all = r.targets
    BY RulesAre
  <2>2. PICK t \in Target : t = all[id]
    BY <1>3, <1>4, <2>1
  <2>3. /\ seqs = [j \in DOMAIN all |-> TargetItems(j, all[j])]
        /\ needs = [j \in 1 .. Len(all) |-> NeedTarget(all[j])]
        /\ vals = all /\ kind = "target" /\ r[sec] = all
    BY <1>1, <1>4, <2>1 DEF Entries, NeedsOf, SectionRead, KindOf
  <2>4. id \in DOMAIN all /\ id \in 1 .. Len(all)
    BY <1>3, <2>3
  <2>5. seqs[i] = TargetItems(id, t) /\ needs[i] = NeedTarget(t) /\ vals[i] = t
    BY <1>3, <2>2, <2>3, <2>4
  <2>6. /\ Block(x, k, TargetItems(id, t)) /\ NeedTarget(t) <= s
        /\ m = k + Len(TargetItems(id, t))
    BY <2>5
  <2>7. Reads(x, "target", k, m, s, s - NeedTarget(t), e, t)
    BY <2>6, TargetAt
  <2> QED
    BY <2>3, <2>5, <2>7
<1>5. CASE sec = "factvars"
  <2>1. PICK all \in Seq(Factvar) : all = r.factvars
    BY RulesAre
  <2>2. PICK v \in Factvar : v = all[id]
    BY <1>3, <1>5, <2>1
  <2>3. /\ seqs = [j \in DOMAIN all |-> VariableItems(j, all[j])]
        /\ needs = [j \in 1 .. Len(all) |-> 0]
        /\ vals = all /\ kind = "factvar" /\ r[sec] = all
    BY <1>1, <1>5, <2>1 DEF Entries, NeedsOf, SectionRead, KindOf
  <2>4. id \in DOMAIN all /\ id \in 1 .. Len(all)
    BY <1>3, <2>3
  <2>5. seqs[i] = VariableItems(id, v) /\ needs[i] = 0 /\ vals[i] = v
    BY <1>3, <2>2, <2>3, <2>4
  <2>6. Block(x, k, VariableItems(id, v)) /\ m = k + Len(VariableItems(id, v))
    BY <2>5
  <2>7. Reads(x, "factvar", k, m, s, s, e, v)
    BY <2>6, FactvarAt
  <2>8. s - 0 = s
    OBVIOUS
  <2> QED
    BY <2>3, <2>5, <2>7, <2>8
<1>6. ASSUME NEW all \in Seq(STRING), r[sec] = all, vals = all, kind = "name",
             seqs = [j \in DOMAIN all |-> NameItems(j, all[j])],
             needs = [j \in 1 .. Len(all) |-> 0]
      PROVE  Reads(x, kind, k, m, s, s - needs[i], e, vals[i])
  <2>4. id \in DOMAIN all /\ id \in 1 .. Len(all)
    BY <1>3, <1>6
  <2>a. \A j \in 1 .. Len(all) : all[j] \in STRING
    OBVIOUS
  <2>b. all[id] \in STRING
    BY <2>4, <2>a
  <2>2. PICK v \in STRING : v = all[id]
    BY <2>b
  <2>5. seqs[i] = NameItems(id, v) /\ needs[i] = 0 /\ vals[i] = v
    BY <1>3, <1>6, <2>2, <2>4
  <2>6. Block(x, k, NameItems(id, v)) /\ m = k + Len(NameItems(id, v))
    BY <2>5
  <2>7. Reads(x, "name", k, m, s, s, e, v)
    BY <2>6, NameAt
  <2>8. s - 0 = s
    OBVIOUS
  <2> QED
    BY <1>6, <2>5, <2>7, <2>8
<1>7. CASE sec = "dresvars"
  <2>1. PICK all \in Seq(STRING) : all = r.dresvars
    BY RulesAre
  <2>3. /\ seqs = [j \in DOMAIN all |-> NameItems(j, all[j])]
        /\ needs = [j \in 1 .. Len(all) |-> 0]
        /\ vals = all /\ kind = "name" /\ r[sec] = all
    BY <1>1, <1>7, <2>1 DEF Entries, NeedsOf, SectionRead, KindOf
  <2> QED
    BY <1>6, <2>3
<1>8. CASE sec = "methods"
  <2>1. PICK all \in Seq(STRING) : all = r.methods
    BY RulesAre
  <2>3. /\ seqs = [j \in DOMAIN all |-> NameItems(j, all[j])]
        /\ needs = [j \in 1 .. Len(all) |-> 0]
        /\ vals = all /\ kind = "name" /\ r[sec] = all
    BY <1>1, <1>8, <2>1 DEF Entries, NeedsOf, SectionRead, KindOf
  <2> QED
    BY <1>6, <2>3
<1>9. CASE sec = "initializers"
  <2>1. PICK all \in Seq(Initializer) : all = r.initializers
    BY RulesAre
  <2>2. PICK init \in Initializer : init = all[id]
    BY <1>3, <1>9, <2>1
  <2>3. /\ seqs = [j \in DOMAIN all |-> InitItems(all[j])]
        /\ needs = [j \in 1 .. Len(all) |-> NeedInit(all[j])]
        /\ vals = [j \in 1 .. Len(all) |-> InitAsRead(all[j])]
        /\ kind = "initializer" /\ r[sec] = all
    BY <1>1, <1>9, <2>1 DEF Entries, NeedsOf, SectionRead, KindOf
  <2>4. id \in DOMAIN all /\ id \in 1 .. Len(all)
    BY <1>3, <2>3
  <2>5. seqs[i] = InitItems(init) /\ needs[i] = NeedInit(init) /\ vals[i] = InitAsRead(init)
    BY <1>3, <2>2, <2>3, <2>4
  <2>6. /\ Block(x, k, InitItems(init)) /\ NeedInit(init) <= s
        /\ m = k + Len(InitItems(init))
    BY <2>5
  <2>7. Reads(x, "initializer", k, m, s, s - NeedInit(init), e, InitAsRead(init))
    BY <2>6, InitializerAt
  <2> QED
    BY <2>3, <2>5, <2>7
<1> QED
  BY <1>4, <1>5, <1>7, <1>8, <1>9 DEF SecNames

SlotSize(sec) ==
  CASE sec = "targets"      -> TargetSize
    [] sec = "factvars"     -> VariableSize
    [] sec = "dresvars"     -> VariableSize
    [] sec = "initializers" -> 0
    [] sec = "methods"      -> MethodSize
Slots(sec, b, n) == IF sec = "initializers" THEN b ELSE Reserve(b, n * SlotSize(sec))
SectionNeed(sec, r) ==
  Len(r[sec]) * SlotSize(sec) + SumsOf(NeedsOf(sec, r))[Len(r[sec])]

LEMMA SectionReads ==
  ASSUME NEW sec \in SecNames, NEW b, NEW first, first = ReadWord(b), NEW n \in Nat, n = first.v
  PROVE  \E h : /\ IsMany(h, KindOf(sec), Slots(sec, first.b, n), n)
                /\ ReadSection(sec, b) = h[n]
<1>1. PICK y : y = Slots(sec, first.b, n)
  OBVIOUS
<1>2. CASE sec = "targets"
  <2>1. KindOf(sec) = "target" /\ y = Reserve(first.b, n * TargetSize)
    BY <1>1, <1>2 DEF KindOf, Slots, SlotSize
  <2>2. ReadSection(sec, b) = ReadMany(y, n, ReadTarget)
    BY <1>2, <2>1 DEF ReadSection, ReadArray
  <2>3. \E h : IsMany(h, "target", y, n) /\ ReadMany(y, n, ReadTarget) = h[n]
    BY ManyTargets
  <2> QED
    BY <1>1, <2>1, <2>2, <2>3
<1>3. CASE sec = "factvars"
  <2>1. KindOf(sec) = "factvar" /\ y = Reserve(first.b, n * VariableSize)
    BY <1>1, <1>3 DEF KindOf, Slots, SlotSize
  <2>2. ReadSection(sec, b) = ReadMany(y, n, ReadFactvar)
    BY <1>3, <2>1 DEF ReadSection, ReadArray
  <2>3. \E h : IsMany(h, "factvar", y, n) /\ ReadMany(y, n, ReadFactvar) = h[n]
    BY ManyFactvars
  <2> QED
    BY <1>1, <2>1, <2>2, <2>3
<1>4. CASE sec = "dresvars"
  <2>1. KindOf(sec) = "name" /\ y = Reserve(first.b, n * VariableSize)
    BY <1>1, <1>4 DEF KindOf, Slots, SlotSize
  <2>2. ReadSection(sec, b) = ReadMany(y, n, ReadName)
    BY <1>4, <2>1 DEF ReadSection, ReadArray
  <2>3. \E h : IsMany(h, "name", y, n) /\ ReadMany(y, n, ReadName) = h[n]
    BY ManyNames
  <2> QED
    BY <1>1, <2>1, <2>2, <2>3
<1>5. CASE sec = "methods"
  <2>1. KindOf(sec) = "name" /\ y = Reserve(first.b, n * MethodSize)
    BY <1>1, <1>5 DEF KindOf, Slots, SlotSize
  <2>2. ReadSection(sec, b) = ReadMany(y, n, ReadName)
    BY <1>5, <2>1 DEF ReadSection, ReadArray
  <2>3. \E h : IsMany(h, "name", y, n) /\ ReadMany(y, n, ReadName) = h[n]
    BY ManyNames
  <2> QED
    BY <1>1, <2>1, <2>2, <2>3
<1>6. CASE sec = "initializers"
  <2>1. KindOf(sec) = "initializer" /\ y = first.b
    BY <1>1, <1>6 DEF KindOf, Slots, SlotSize
  <2>2. ReadSection(sec, b) = ReadMany(y, n, ReadInitializer)
    BY <1>6, <2>1 DEF ReadSection
  <2>3. \E h : IsMany(h, "initializer", y, n) /\ ReadMany(y, n, ReadInitializer) = h[n]
    BY ManyInitializers
  <2> QED
    BY <1>1, <2>1, <2>2, <2>3
<1> QED
  BY <1>2, <1>3, <1>4, <1>5, <1>6 DEF SecNames

LEMMA SectionReadIs ==
  ASSUME NEW r \in Rules, NEW sec \in SecNames
  PROVE  FirstOf(SectionRead(sec, r), Len(r[sec])) = SectionRead(sec, r)
<1>1. CASE sec = "initializers"
  BY <1>1 DEF FirstOf, SectionRead
<1>2. ASSUME NEW S, NEW all \in Seq(S), SectionRead(sec, r) = all, Len(r[sec]) = Len(all)
      PROVE  FirstOf(SectionRead(sec, r), Len(r[sec])) = SectionRead(sec, r)
  <2>1. [i \in 1 .. Len(all) |-> all[i]] = all
    OBVIOUS
  <2> QED
    BY <1>2, <2>1 DEF FirstOf
<1>3. CASE sec # "initializers"
  <2>1. SectionRead(sec, r) = r[sec]
    BY <1>3 DEF SectionRead
  <2>2. \/ r[sec] \in Seq(Target) \/ r[sec] \in Seq(Factvar) \/ r[sec] \in Seq(STRING)
    BY <1>3, RulesAre DEF SecNames
  <2> QED
    BY <1>2, <2>1, <2>2
<1> QED
  BY <1>1, <1>3

LEMMA ItemsSplit ==
  ASSUME NEW r \in Rules, NEW sec \in SecNames
  PROVE  /\ Items(sec, r) \in Seq(Item)
         /\ \A x, k : Len(x.items) \in Nat /\ Block(x, k, Items(sec, r)) =>
              /\ Block(x, k, <<Word(Len(r[sec]))>>)
              /\ Block(x, k + 1, FlattenSeq(Entries(sec, r)))
              /\ k + Len(Items(sec, r)) = (k + 1) + Len(FlattenSeq(Entries(sec, r)))
<1>1. PICK seqs \in Seq(Seq(Item)), N \in Nat :
        seqs = Entries(sec, r) /\ N = Len(r[sec]) /\ Len(seqs) = N
  BY EntriesAre
<1>2. PICK all \in Seq(Item) : all = FlattenSeq(seqs)
  BY FlattenIs DEF IsJoined
<1>3. Word(N) \in Item
  BY ItemsAre
<1>4. PICK head \in Seq(Item) : head = <<Word(N)>> /\ Len(head) = 1
  BY <1>3, FewItems
<1>5. PICK joined \in Seq(Item) : joined = head \o all /\ Len(joined) = Len(head) + Len(all)
  BY JoinOf
<1>6. Items(sec, r) = joined
  BY <1>1, <1>2, <1>4, <1>5 DEF Items
<1>7. ASSUME NEW x, NEW k, Len(x.items) \in Nat, Block(x, k, joined)
      PROVE  /\ Block(x, k, head) /\ Block(x, k + 1, all)
             /\ k + Len(joined) = (k + 1) + Len(all)
  <2>1. Block(x, k, head) /\ Block(x, k + Len(head), all)
    BY <1>5, <1>7, BlockParts
  <2>2. k \in Nat /\ Len(all) \in Nat
    BY <1>7 DEF Block
  <2>3. PICK j \in Nat, l \in Nat : j = k /\ l = Len(all)
    BY <2>2
  <2>4. Len(joined) = 1 + l /\ j + (1 + l) = (j + 1) + l
    BY <1>4, <1>5, <2>3
  <2> QED
    BY <1>4, <2>1, <2>3, <2>4
<1> QED
  BY <1>1, <1>2, <1>4, <1>6, <1>7

LEMMA SlotsAt ==
  ASSUME NEW x, IsText(x), NEW sec \in SecNames, NEW k \in Nat, k <= Len(x.items), NEW b,
         NEW s \in Nat, NEW e \in BOOLEAN, At(x, b, k, s, e), NEW N \in Nat,
         NEW n, Counted(x, k, n, N), N * SlotSize(sec) <= s
  PROVE  /\ At(x, Slots(sec, b, n), k, s - N * SlotSize(sec), e)
         /\ N * SlotSize(sec) \in Nat
<1>1. SlotSize(sec) \in Nat /\ (sec = "initializers" => SlotSize(sec) = 0)
  BY DEF SlotSize, SecNames, TargetSize, VariableSize, MethodSize
<1>2. PICK c \in Nat : c = SlotSize(sec)
  BY <1>1
<1>3. N * c \in Nat /\ n \in Nat /\ (n = N \/ n = 0)
  BY DEF Counted
<1>4. CASE sec = "initializers"
  <2>1. N * c = 0 /\ s - 0 = s
    BY <1>1, <1>2, <1>4
  <2>2. Slots(sec, b, n) = b
    BY <1>4 DEF Slots
  <2> QED
    BY <1>2, <2>1, <2>2
<1>5. CASE sec # "initializers"
  <2>1. Slots(sec, b, n) = Reserve(b, n * c)
    BY <1>2, <1>5 DEF Slots
  <2>2. CASE Held(x, k)
    <3>1. n = N
      BY <2>2 DEF Counted
    <3>2. PICK q \in Nat : q = N * c /\ q <= s
      BY <1>2, <1>3
    <3>3. At(x, Reserve(b, q), k, s - q, e)
      BY <3>2, ReserveAt
    <3> QED
      BY <1>2, <2>1, <3>1, <3>2, <3>3
  <2>3. CASE ~Held(x, k)
    <3>1. Past(b, e)
      BY <2>3 DEF At
    <3>2. PICK q \in Int : q = n * c
      BY <1>3
    <3>3. Past(Reserve(b, q), e)
      BY <3>1, PastReserve
    <3> QED
      BY <1>2, <1>3, <2>1, <2>3, <3>2, <3>3 DEF At
  <2> QED
    BY <2>2, <2>3
<1> QED
  BY <1>4, <1>5

LEMMA NeedIs ==
  ASSUME NEW r \in Rules, NEW sec \in SecNames
  PROVE  /\ IsSums(SumsOf(NeedsOf(sec, r)), NeedsOf(sec, r))
         /\ SumsOf(NeedsOf(sec, r))[Len(r[sec])] \in Nat
         /\ SlotSize(sec) \in Nat /\ Len(r[sec]) \in Nat /\ SectionNeed(sec, r) \in Nat
<1>1. PICK needs \in Seq(Nat), N \in Nat : needs = NeedsOf(sec, r) /\ N = Len(r[sec]) /\ Len(needs) = N
  BY EntriesAre
<1>2. IsSums(SumsOf(needs), needs)
  BY SumsAre
<1>3. SumsOf(needs)[N] \in Nat
  BY <1>1, <1>2 DEF IsSums
<1>4. SlotSize(sec) \in Nat
  BY DEF SlotSize, SecNames, TargetSize, VariableSize, MethodSize
<1>5. PICK a \in Nat, c \in Nat : a = SumsOf(needs)[N] /\ c = SlotSize(sec)
  BY <1>3, <1>4
<1>6. SectionNeed(sec, r) = N * c + a
  BY <1>1, <1>5 DEF SectionNeed
<1>7. N * c + a \in Nat
  OBVIOUS
<1> QED
  BY <1>1, <1>2, <1>3, <1>4, <1>6, <1>7

(* A section of a text is read as what it was written from, or the text    *)
(* has ended.                                                              *)
LEMMA SectionAt ==
  ASSUME NEW x, IsText(x), NEW r \in Rules, NEW sec \in SecNames, NEW k, NEW b, NEW s \in Nat,
         NEW e \in BOOLEAN, NEW m, Ready(x, Items(sec, r), k, b, s, e, SectionNeed(sec, r), m)
  PROVE  Done(x, ReadSection(sec, b), k, m, s - SectionNeed(sec, r), e, SectionRead(sec, r))
<1>1. /\ Block(x, k, Items(sec, r)) /\ At(x, b, k, s, e) /\ SectionNeed(sec, r) <= s
      /\ m = k + Len(Items(sec, r))
  BY DEF Ready
<1>2. PICK seqs \in Seq(Seq(Item)), needs \in Seq(Nat), N \in Nat :
        /\ seqs = Entries(sec, r) /\ needs = NeedsOf(sec, r) /\ N = Len(r[sec])
        /\ Len(seqs) = N /\ Len(needs) = N
  BY EntriesAre
<1>3. PICK need, vals, kind : need = SumsOf(needs) /\ vals = SectionRead(sec, r)
                              /\ kind = KindOf(sec)
  OBVIOUS
<1>4. PICK L \in Nat : L = Len(x.items)
  BY TextIs
<1>5. /\ Block(x, k, <<Word(N)>>) /\ Block(x, k + 1, FlattenSeq(seqs))
      /\ m = (k + 1) + Len(FlattenSeq(seqs))
  BY <1>1, <1>2, <1>4, ItemsSplit
<1>6. k \in Nat /\ k + 1 <= Len(x.items) /\ x.items[k + 1] = Word(N)
  BY <1>5, BlockOne
<1>7. PICK j \in Nat, k1 \in Nat : j = k /\ k1 = j + 1 /\ k1 <= L
  BY <1>4, <1>6
<1>8. PICK first, b1, n : first = ReadWord(b) /\ b1 = first.b /\ n = first.v
  OBVIOUS
<1>9. At(x, b1, k1, s, e) /\ Counted(x, k1, n, N)
  <2>1. j + 1 <= Len(x.items) /\ x.items[j + 1] = Word(N) /\ At(x, b, j, s, e)
    BY <1>1, <1>6, <1>7
  <2>2. /\ At(x, ReadWord(b).b, j + 1, s, e)
        /\ ReadWord(b).v = IF Held(x, j + 1) THEN N ELSE 0
    BY <2>1, WordAt
  <2> QED
    BY <1>7, <1>8, <2>2 DEF Counted
<1>10. PICK q \in Nat, a \in Nat, t \in Nat, u \in Nat :
         /\ q = N * SlotSize(sec) /\ a = need[N] /\ t = s - q /\ u = t - a /\ q <= s /\ a <= t
         /\ u = s - SectionNeed(sec, r)
  <2>1. SlotSize(sec) \in Nat /\ need[N] \in Nat
    BY <1>2, <1>3, NeedIs
  <2>2. PICK c \in Nat, a \in Nat : c = SlotSize(sec) /\ a = need[N]
    BY <2>1
  <2>3. SectionNeed(sec, r) = N * c + a
    BY <1>2, <1>3, <2>2 DEF SectionNeed
  <2>4. PICK q \in Nat : q = N * c
    OBVIOUS
  <2>5. SectionNeed(sec, r) = q + a /\ q + a <= s
    BY <1>1, <2>3, <2>4
  <2>6. PICK t \in Nat, u \in Nat : t = s - q /\ u = t - a /\ u = s - (q + a) /\ q <= s /\ a <= t
    BY <2>5
  <2>7. q = N * SlotSize(sec) /\ a = need[N] /\ u = s - SectionNeed(sec, r)
    BY <2>2, <2>4, <2>5, <2>6
  <2> QED
    BY <2>6, <2>7
<1>11. PICK y : y = Slots(sec, b1, n)
  OBVIOUS
<1>12. At(x, y, k1, t, e)
  <2>1. k1 <= Len(x.items) /\ N * SlotSize(sec) <= s
    BY <1>4, <1>7, <1>10
  <2>2. At(x, Slots(sec, b1, n), k1, s - N * SlotSize(sec), e)
    BY <1>9, <2>1, SlotsAt
  <2> QED
    BY <1>10, <1>11, <2>2
<1>13. PICK h : IsMany(h, kind, y, n) /\ ReadSection(sec, b) = h[n]
  <2>1. n \in Nat
    BY <1>9 DEF Counted
  <2>2. PICK p \in Nat : p = n
    BY <2>1
  <2>3. \E h : /\ IsMany(h, KindOf(sec), Slots(sec, first.b, p), p)
               /\ ReadSection(sec, b) = h[p]
    <3>1. first = ReadWord(b) /\ p = first.v
      BY <1>8, <2>2
    <3> QED
      BY <3>1, SectionReads
  <2> QED
    BY <1>3, <1>8, <1>11, <2>2, <2>3
<1>14. Entered(x, kind, seqs, needs, need, vals, e)
  <2>1. IsSums(need, needs)
    BY <1>3, SumsAre
  <2>2. EntryReads(x, kind, seqs, needs, vals, e)
    BY <1>2, <1>3, EntriesRead
  <2> QED
    BY <1>2, <2>1, <2>2 DEF Entered
<1>15. Done(x, h[n], k1, m, t - need[Len(seqs)], e, FirstOf(vals, Len(seqs)))
  <2>1. need[Len(seqs)] <= t
    BY <1>2, <1>10
  <2>2. Block(x, k1, FlattenSeq(seqs)) /\ m = k1 + Len(FlattenSeq(seqs))
    BY <1>5, <1>7
  <2>3. Ready(x, FlattenSeq(seqs), k1, y, t, e, need[Len(seqs)], m)
    BY <1>12, <2>1, <2>2 DEF Ready
  <2>4. Counted(x, k1, n, Len(seqs))
    BY <1>2, <1>9
  <2> QED
    BY <1>13, <1>14, <2>3, <2>4, ManyAt
<1>16. FirstOf(vals, N) = SectionRead(sec, r)
  BY <1>2, <1>3, SectionReadIs
<1>17. Done(x, ReadSection(sec, b), k1, m, u, e, SectionRead(sec, r))
  BY <1>2, <1>10, <1>13, <1>15, <1>16
<1>18. m \in Nat /\ k1 <= m
  BY <1>17 DEF Done
<1>19. k <= m
  BY <1>7, <1>18
<1> QED
  BY <1>10, <1>17, <1>19 DEF Done

(* The header: what it counts, as sums over the targets and initializers.  *)
PrereqCounts(r) == [i \in 1 .. Len(r.targets) |-> Len(r.targets[i].prereqs)]
CodeCounts(r) == [i \in 1 .. Len(r.targets) |-> IF r.targets[i].code = <<>> THEN 0 ELSE 1]
InstrCounts(r) == [i \in 1 .. Len(r.targets) |-> Len(r.targets[i].code)]
DependencyCounts(r) == [i \in 1 .. Len(r.targets) |-> Len(r.targets[i].dependencies) + 1]
FieldCounts(r) == [i \in 1 .. Len(r.initializers) |-> Len(r.initializers[i].fields)]

LEMMA HeaderIs ==
  ASSUME NEW r \in Rules
  PROVE  /\ Header(r).ntarget = Len(r.targets) + Total(PrereqCounts(r))
         /\ Header(r).ncode = Total(CodeCounts(r))
         /\ Header(r).sinstr = Total(InstrCounts(r))
         /\ Header(r).ndependency = Total(DependencyCounts(r))
         /\ Header(r).nvariable = Len(r.factvars) + Len(r.dresvars)
         /\ Header(r).ninit = Len(r.initializers)
         /\ Header(r).nfield = Total(FieldCounts(r))
         /\ Header(r).nmethod = Len(r.methods)
<1>1. DOMAIN r.targets = 1 .. Len(r.targets) /\ DOMAIN r.initializers = 1 .. Len(r.initializers)
  <2>1. r.targets \in Seq(Target) /\ r.initializers \in Seq(Initializer)
    BY RulesAre
  <2> QED
    BY <2>1
<1>2. PICK a, c, i, d, f :
        /\ a = PrereqCounts(r) /\ c = CodeCounts(r) /\ i = InstrCounts(r)
        /\ d = DependencyCounts(r) /\ f = FieldCounts(r)
  OBVIOUS
<1>3. CountTargets(r) = Len(r.targets) + Total(a)
  BY <1>1, <1>2 DEF CountTargets, PrereqCounts
<1>4. Header(r) =
        [ntarget     |-> CountTargets(r),
         ncode       |-> Total(c),
         sinstr      |-> Total(i),
         ndependency |-> Total(d),
         nvariable   |-> Len(r.factvars) + Len(r.dresvars),
         ninit       |-> Len(r.initializers),
         nfield      |-> Total(f),
         nmethod     |-> Len(r.methods)]
  BY <1>1, <1>2 DEF Header, CodeCounts, InstrCounts, DependencyCounts, FieldCounts
<1> QED
  BY <1>2, <1>3, <1>4

LEMMA CountsAre ==
  ASSUME NEW r \in Rules
  PROVE  /\ PrereqCounts(r) \in Seq(Nat) /\ Len(PrereqCounts(r)) = Len(r.targets)
         /\ CodeCounts(r) \in Seq(Nat) /\ Len(CodeCounts(r)) = Len(r.targets)
         /\ InstrCounts(r) \in Seq(Nat) /\ Len(InstrCounts(r)) = Len(r.targets)
         /\ DependencyCounts(r) \in Seq(Nat) /\ Len(DependencyCounts(r)) = Len(r.targets)
         /\ FieldCounts(r) \in Seq(Nat) /\ Len(FieldCounts(r)) = Len(r.initializers)
<1>1. PICK ts \in Seq(Target), is \in Seq(Initializer) : ts = r.targets /\ is = r.initializers
  BY RulesAre
<1>2. PICK N \in Nat, M \in Nat : N = Len(ts) /\ M = Len(is)
  OBVIOUS
<1>3. ASSUME NEW j \in 1 .. N
      PROVE  /\ Len(ts[j].prereqs) \in Nat /\ (IF ts[j].code = <<>> THEN 0 ELSE 1) \in Nat
             /\ Len(ts[j].code) \in Nat /\ Len(ts[j].dependencies) + 1 \in Nat
  <2>1. PICK t \in Target : t = ts[j]
    BY <1>2
  <2>2. t.prereqs \in Seq(Int) /\ t.code \in Seq(Int) /\ t.dependencies \in Seq(Int)
    BY DEF Target
  <2> QED
    BY <2>1, <2>2
<1>4. ASSUME NEW j \in 1 .. M PROVE Len(is[j].fields) \in Nat
  <2>1. PICK t \in Initializer : t = is[j]
    BY <1>2
  <2>2. t.fields \in Seq(Field)
    BY DEF Initializer
  <2> QED
    BY <2>1, <2>2
<1>5. ASSUME NEW K \in Nat, NEW f \in [1 .. K -> Nat] PROVE f \in Seq(Nat) /\ Len(f) = K
  OBVIOUS
<1>6. /\ PrereqCounts(r) \in [1 .. N -> Nat] /\ CodeCounts(r) \in [1 .. N -> Nat]
      /\ InstrCounts(r) \in [1 .. N -> Nat] /\ DependencyCounts(r) \in [1 .. N -> Nat]
  BY <1>1, <1>2, <1>3 DEF PrereqCounts, CodeCounts, InstrCounts, DependencyCounts
<1>7. FieldCounts(r) \in [1 .. M -> Nat]
  BY <1>1, <1>2, <1>4 DEF FieldCounts
<1> QED
  BY <1>1, <1>2, <1>5, <1>6, <1>7

LEMMA NeedTargetIs ==
  ASSUME NEW t \in Target
  PROVE  \E p \in Nat, c \in Nat, i \in Nat, d \in Nat :
           /\ p = Len(t.prereqs) /\ c = (IF t.code = <<>> THEN 0 ELSE 1) /\ i = Len(t.code)
           /\ d = Len(t.dependencies) + 1
           /\ NeedTarget(t) \in Nat /\ NeedTarget(t) <= 9 * p + 4 * c + i + d
<1>1. PICK W \in Seq(Int), C \in Seq(Int), D \in Seq(Int) :
        W = t.prereqs /\ C = t.code /\ D = t.dependencies
  BY DEF Target
<1>2. PICK p \in Nat, i \in Nat, d \in Nat : p = Len(W) /\ i = Len(C) /\ d = Len(D) + 1
  OBVIOUS
<1>3. PICK c \in Nat : c = IF C = <<>> THEN 0 ELSE 1
  OBVIOUS
<1>4. (W = <<>> <=> p = 0) /\ (C = <<>> <=> i = 0)
  BY <1>2, EmptyIs
<1>5. NeedPrereqs(W) = (IF p = 0 THEN 0 ELSE 2 + p)
  BY <1>2, <1>4 DEF NeedPrereqs, PrereqSize
<1>6. NeedCode(C) = (IF i = 0 THEN 0 ELSE 4 + i) /\ c = IF i = 0 THEN 0 ELSE 1
  BY <1>2, <1>3, <1>4 DEF NeedCode, ChunkSize
<1>7. NeedTarget(t) = (IF p = 0 THEN 0 ELSE 2 + p) + (IF i = 0 THEN 0 ELSE 4 + i) + d
  BY <1>1, <1>2, <1>5, <1>6 DEF NeedTarget
<1>8. NeedTarget(t) \in Nat /\ NeedTarget(t) <= 9 * p + 4 * c + i + d
  BY <1>6, <1>7
<1> QED
  BY <1>1, <1>2, <1>3, <1>8

LEMMA TargetsRoom ==
  ASSUME NEW r \in Rules
  PROVE  \E p \in Nat, c \in Nat, i \in Nat, d \in Nat, a \in Nat :
           /\ p = Total(PrereqCounts(r)) /\ c = Total(CodeCounts(r)) /\ i = Total(InstrCounts(r))
           /\ d = Total(DependencyCounts(r))
           /\ a = SumsOf(NeedsOf("targets", r))[Len(r.targets)]
           /\ a <= 9 * p + 4 * c + i + d
<1>1. PICK ts \in Seq(Target) : ts = r.targets
  BY RulesAre
<1>2. PICK N \in Nat : N = Len(ts)
  OBVIOUS
<1>3. PICK ps \in Seq(Nat), cs \in Seq(Nat), is \in Seq(Nat), ds \in Seq(Nat), ns \in Seq(Nat) :
        /\ ps = PrereqCounts(r) /\ cs = CodeCounts(r) /\ is = InstrCounts(r)
        /\ ds = DependencyCounts(r) /\ ns = NeedsOf("targets", r)
        /\ Len(ps) = N /\ Len(cs) = N /\ Len(is) = N /\ Len(ds) = N /\ Len(ns) = N
  <2>1. "targets" \in SecNames
    BY DEF SecNames
  <2>2. NeedsOf("targets", r) \in Seq(Nat) /\ Len(NeedsOf("targets", r)) = N
    BY <1>1, <1>2, <2>1, EntriesAre
  <2> QED
    BY <1>1, <1>2, <2>2, CountsAre
<1>4. PICK p, c, i, d, a :
        /\ p = SumsOf(ps) /\ c = SumsOf(cs) /\ i = SumsOf(is) /\ d = SumsOf(ds) /\ a = SumsOf(ns)
  OBVIOUS
<1>5. IsSums(p, ps) /\ IsSums(c, cs) /\ IsSums(i, is) /\ IsSums(d, ds) /\ IsSums(a, ns)
  BY <1>4, SumsAre
<1>6. /\ p \in [0 .. N -> Nat] /\ c \in [0 .. N -> Nat] /\ i \in [0 .. N -> Nat]
      /\ d \in [0 .. N -> Nat] /\ a \in [0 .. N -> Nat]
      /\ p[0] = 0 /\ c[0] = 0 /\ i[0] = 0 /\ d[0] = 0 /\ a[0] = 0
  BY <1>3, <1>5 DEF IsSums
<1>7. \A n \in 1 .. N : /\ p[n] = p[n - 1] + ps[n] /\ c[n] = c[n - 1] + cs[n]
                        /\ i[n] = i[n - 1] + is[n] /\ d[n] = d[n - 1] + ds[n]
                        /\ a[n] = a[n - 1] + ns[n]
  BY <1>3, <1>5 DEF IsSums
<1> DEFINE S == {n \in 0 .. N : a[n] <= 9 * p[n] + 4 * c[n] + i[n] + d[n]}
<1>8. 0 \in S
  BY <1>6
<1>9. ASSUME NEW n \in 1 .. N, n - 1 \in S PROVE n \in S
  <2>1. n - 1 \in 0 .. N /\ n \in 0 .. N
    OBVIOUS
  <2>2. PICK t \in Target : t = ts[n]
    BY <1>2
  <2>3. PICK p1 \in Nat, c1 \in Nat, i1 \in Nat, d1 \in Nat :
           /\ p1 = Len(t.prereqs) /\ c1 = (IF t.code = <<>> THEN 0 ELSE 1) /\ i1 = Len(t.code)
           /\ d1 = Len(t.dependencies) + 1
           /\ NeedTarget(t) \in Nat /\ NeedTarget(t) <= 9 * p1 + 4 * c1 + i1 + d1
    BY NeedTargetIs
  <2>4. ps[n] = p1 /\ cs[n] = c1 /\ is[n] = i1 /\ ds[n] = d1 /\ ns[n] = NeedTarget(t)
    BY <1>1, <1>2, <1>3, <2>2, <2>3
       DEF PrereqCounts, CodeCounts, InstrCounts, DependencyCounts, NeedsOf
  <2>5. PICK q \in Nat : q = NeedTarget(t)
    BY <2>3
  <2>6. PICK p0 \in Nat, c0 \in Nat, i0 \in Nat, d0 \in Nat, a0 \in Nat :
          p0 = p[n - 1] /\ c0 = c[n - 1] /\ i0 = i[n - 1] /\ d0 = d[n - 1] /\ a0 = a[n - 1]
    BY <1>6, <2>1
  <2>7. a0 <= 9 * p0 + 4 * c0 + i0 + d0
    BY <1>9, <2>6
  <2>8. /\ p[n] = p0 + p1 /\ c[n] = c0 + c1 /\ i[n] = i0 + i1 /\ d[n] = d0 + d1 /\ a[n] = a0 + q
    BY <1>7, <2>4, <2>5, <2>6
  <2>9. a0 + q <= 9 * (p0 + p1) + 4 * (c0 + c1) + (i0 + i1) + (d0 + d1)
    <3>1. q <= 9 * p1 + 4 * c1 + i1 + d1
      BY <2>3, <2>5
    <3> QED
      BY <2>7, <3>1
  <2> QED
    BY <2>1, <2>8, <2>9
<1>10. \A n \in 0 .. N : n \in S
  <2> HIDE DEF S
  <2> QED
    BY <1>8, <1>9, UpTo
<1>11. a[N] <= 9 * p[N] + 4 * c[N] + i[N] + d[N]
  BY <1>10
<1>12. p[N] \in Nat /\ c[N] \in Nat /\ i[N] \in Nat /\ d[N] \in Nat /\ a[N] \in Nat
  BY <1>6
<1>13. Total(ps) = p[N] /\ Total(cs) = c[N] /\ Total(is) = i[N] /\ Total(ds) = d[N]
  BY <1>3, <1>4, TotalIs
<1> QED
  BY <1>1, <1>2, <1>3, <1>4, <1>11, <1>12, <1>13

LEMMA InitializersRoom ==
  ASSUME NEW r \in Rules
  PROVE  \E n \in Nat, f \in Nat, a \in Nat :
           /\ n = Len(r.initializers) /\ f = Total(FieldCounts(r))
           /\ a = SumsOf(NeedsOf("initializers", r))[Len(r.initializers)]
           /\ a = 3 * n + 5 * f
<1>1. PICK ts \in Seq(Initializer) : ts = r.initializers
  BY RulesAre
<1>2. PICK N \in Nat : N = Len(ts)
  OBVIOUS
<1>3. PICK fs \in Seq(Nat), ns \in Seq(Nat) :
        /\ fs = FieldCounts(r) /\ ns = NeedsOf("initializers", r) /\ Len(fs) = N /\ Len(ns) = N
  <2>1. "initializers" \in SecNames
    BY DEF SecNames
  <2>2. NeedsOf("initializers", r) \in Seq(Nat) /\ Len(NeedsOf("initializers", r)) = N
    BY <1>1, <1>2, <2>1, EntriesAre
  <2> QED
    BY <1>1, <1>2, <2>2, CountsAre
<1>4. PICK f, a : f = SumsOf(fs) /\ a = SumsOf(ns)
  OBVIOUS
<1>5. IsSums(f, fs) /\ IsSums(a, ns)
  BY <1>4, SumsAre
<1>6. f \in [0 .. N -> Nat] /\ a \in [0 .. N -> Nat] /\ f[0] = 0 /\ a[0] = 0
  BY <1>3, <1>5 DEF IsSums
<1>7. \A n \in 1 .. N : f[n] = f[n - 1] + fs[n] /\ a[n] = a[n - 1] + ns[n]
  BY <1>3, <1>5 DEF IsSums
<1> DEFINE S == {n \in 0 .. N : a[n] = 3 * n + 5 * f[n]}
<1>8. 0 \in S
  BY <1>6
<1>9. ASSUME NEW n \in 1 .. N, n - 1 \in S PROVE n \in S
  <2>1. n - 1 \in 0 .. N /\ n \in 0 .. N
    OBVIOUS
  <2>2. PICK t \in Initializer : t = ts[n]
    BY <1>2
  <2>3. PICK g \in Nat : g = Len(t.fields)
    BY DEF Initializer
  <2>4. fs[n] = g /\ ns[n] = NeedInit(t)
    BY <1>1, <1>2, <1>3, <2>2, <2>3 DEF FieldCounts, NeedsOf
  <2>5. NeedInit(t) = 3 + g * 5
    BY <2>3 DEF NeedInit, InitializerSize, FieldSize
  <2>a. f[n - 1] \in Nat /\ a[n - 1] \in Nat /\ n - 1 \in Nat
    BY <1>6, <2>1
  <2>6. PICK f0 \in Nat, a0 \in Nat, m \in Nat : f0 = f[n - 1] /\ a0 = a[n - 1] /\ m = n - 1
    BY <2>a
  <2>7. a0 = 3 * m + 5 * f0
    BY <1>9, <2>6
  <2>8. f[n] = f0 + g /\ a[n] = a0 + (3 + g * 5) /\ n = m + 1
    BY <1>7, <2>4, <2>5, <2>6, SMTT(30)
  <2>9. a0 + (3 + g * 5) = 3 * (m + 1) + 5 * (f0 + g)
    BY <2>7
  <2> QED
    BY <2>1, <2>8, <2>9
<1>10. \A n \in 0 .. N : n \in S
  <2> HIDE DEF S
  <2> QED
    BY <1>8, <1>9, UpTo
<1>11. a[N] = 3 * N + 5 * f[N] /\ f[N] \in Nat /\ a[N] \in Nat
  BY <1>6, <1>10
<1>12. Total(fs) = f[N]
  BY <1>3, <1>4, TotalIs
<1> QED
  BY <1>1, <1>2, <1>3, <1>4, <1>11, <1>12

LEMMA NoNeeds ==
  ASSUME NEW r \in Rules, NEW sec \in SecNames, sec \in {"factvars", "dresvars", "methods"}
  PROVE  SumsOf(NeedsOf(sec, r))[Len(r[sec])] = 0
<1>1. PICK ns \in Seq(Nat), N \in Nat : ns = NeedsOf(sec, r) /\ N = Len(r[sec]) /\ Len(ns) = N
  BY EntriesAre
<1>2. \A n \in 1 .. N : ns[n] = 0
  BY <1>1 DEF NeedsOf
<1>3. PICK a : a = SumsOf(ns)
  OBVIOUS
<1>4. a \in [0 .. N -> Nat] /\ a[0] = 0 /\ \A n \in 1 .. N : a[n] = a[n - 1] + ns[n]
  <2>1. IsSums(a, ns)
    BY <1>3, SumsAre
  <2> QED
    BY <1>1, <2>1 DEF IsSums
<1> DEFINE S == {n \in 0 .. N : a[n] = 0}
<1>5. 0 \in S
  BY <1>4
<1>6. ASSUME NEW n \in 1 .. N, n - 1 \in S PROVE n \in S
  BY <1>2, <1>4, <1>6, SMTT(30)
<1>7. \A n \in 0 .. N : n \in S
  <2> HIDE DEF S
  <2> QED
    BY <1>5, <1>6, UpTo
<1> QED
  BY <1>1, <1>3, <1>7

(* What the sections take of the loader's memory, and what is left of it   *)
(* behind each.                                                            *)
Needed(r) == [s \in 1 .. 5 |-> SectionNeed(Sections[s], r)]
RoomAt(r, s) == ArenaSize(Header(r)) - SumsOf(Needed(r))[s]

LEMMA SectionsAre ==
  /\ DOMAIN Sections = 1 .. 5 /\ Len(Sections) = 5 /\ \A s \in 1 .. 5 : Sections[s] \in SecNames
  /\ Sections[1] = "targets" /\ Sections[2] = "factvars" /\ Sections[3] = "dresvars"
  /\ Sections[4] = "initializers" /\ Sections[5] = "methods"
BY DEF Sections, SecNames

LEMMA NeededAre ==
  ASSUME NEW r \in Rules
  PROVE  Needed(r) \in Seq(Nat) /\ Len(Needed(r)) = 5 /\ IsSums(SumsOf(Needed(r)), Needed(r))
<1>1. \A s \in 1 .. 5 : SectionNeed(Sections[s], r) \in Nat
  BY SectionsAre, NeedIs
<1>2. Needed(r) \in [1 .. 5 -> Nat]
  BY <1>1 DEF Needed
<1>3. Needed(r) \in Seq(Nat) /\ Len(Needed(r)) = 5
  <2>1. ASSUME NEW K \in Nat, NEW f \in [1 .. K -> Nat] PROVE f \in Seq(Nat) /\ Len(f) = K
    OBVIOUS
  <2> QED
    BY <1>2, <2>1
<1> QED
  BY <1>3, SumsAre

LEMMA ArenaIsEnough ==
  ASSUME NEW r \in Rules
  PROVE  /\ ArenaSize(Header(r)) \in Nat
         /\ SumsOf(Needed(r))[5] <= ArenaSize(Header(r))
<1>1. PICK p \in Nat, c \in Nat, i \in Nat, d \in Nat, a \in Nat :
           /\ p = Total(PrereqCounts(r)) /\ c = Total(CodeCounts(r)) /\ i = Total(InstrCounts(r))
           /\ d = Total(DependencyCounts(r))
           /\ a = SumsOf(NeedsOf("targets", r))[Len(r.targets)]
           /\ a <= 9 * p + 4 * c + i + d
  BY TargetsRoom
<1>2. PICK ninit \in Nat, f \in Nat, b \in Nat :
           /\ ninit = Len(r.initializers) /\ f = Total(FieldCounts(r))
           /\ b = SumsOf(NeedsOf("initializers", r))[Len(r.initializers)]
           /\ b = 3 * ninit + 5 * f
  BY InitializersRoom
<1>3. PICK nt \in Nat, nf \in Nat, nd \in Nat, nm \in Nat :
        /\ nt = Len(r.targets) /\ nf = Len(r.factvars) /\ nd = Len(r.dresvars)
        /\ nm = Len(r.methods)
  <2>1. /\ r.targets \in Seq(Target) /\ r.factvars \in Seq(Factvar)
        /\ r.dresvars \in Seq(STRING) /\ r.methods \in Seq(STRING)
    BY RulesAre
  <2>2. /\ Len(r.targets) \in Nat /\ Len(r.factvars) \in Nat /\ Len(r.dresvars) \in Nat
        /\ Len(r.methods) \in Nat
    BY <2>1
  <2> QED
    BY <2>2
<1>4. PICK arena \in Nat : /\ arena = ArenaSize(Header(r))
                           /\ arena = 9 * (nt + p) + 4 * c + i + d + 6 * (nf + nd) + 3 * ninit
                                      + 5 * f + 4 * nm
  <2>1. ArenaSize(Header(r)) = 9 * (nt + p) + 4 * c + i + d + 6 * (nf + nd) + 3 * ninit
                                      + 5 * f + 4 * nm
    BY <1>1, <1>2, <1>3, HeaderIs
       DEF ArenaSize, TargetSize, ChunkSize, VariableSize, InitializerSize, FieldSize, MethodSize
  <2> QED
    BY <2>1
<1>5. PICK needed : needed = Needed(r)
  OBVIOUS
<1>6. /\ needed[1] = nt * 9 + a /\ needed[2] = nf * 6 /\ needed[3] = nd * 6
      /\ needed[4] = b /\ needed[5] = nm * 4
  <2>1. /\ "targets" \in SecNames /\ "factvars" \in SecNames /\ "dresvars" \in SecNames
        /\ "initializers" \in SecNames /\ "methods" \in SecNames
    BY DEF SecNames
  <2>2. /\ needed[1] = SectionNeed("targets", r) /\ needed[2] = SectionNeed("factvars", r)
        /\ needed[3] = SectionNeed("dresvars", r) /\ needed[4] = SectionNeed("initializers", r)
        /\ needed[5] = SectionNeed("methods", r)
    BY <1>5, SectionsAre DEF Needed
  <2>3. SectionNeed("targets", r) = nt * 9 + a
    BY <1>1, <1>3 DEF SectionNeed, SlotSize, TargetSize
  <2>4. SectionNeed("factvars", r) = nf * 6
    <3>1. SumsOf(NeedsOf("factvars", r))[Len(r.factvars)] = 0
      BY <2>1, NoNeeds
    <3>2. SectionNeed("factvars", r) = nf * 6 + 0
      BY <1>3, <3>1 DEF SectionNeed, SlotSize, VariableSize
    <3> QED
      BY <3>2
  <2>5. SectionNeed("dresvars", r) = nd * 6
    <3>1. SumsOf(NeedsOf("dresvars", r))[Len(r.dresvars)] = 0
      BY <2>1, NoNeeds
    <3>2. SectionNeed("dresvars", r) = nd * 6 + 0
      BY <1>3, <3>1 DEF SectionNeed, SlotSize, VariableSize
    <3> QED
      BY <3>2
  <2>6. SectionNeed("initializers", r) = b
    <3>1. SectionNeed("initializers", r) = ninit * 0 + b
      BY <1>2 DEF SectionNeed, SlotSize
    <3> QED
      BY <3>1
  <2>7. SectionNeed("methods", r) = nm * 4
    <3>1. SumsOf(NeedsOf("methods", r))[Len(r.methods)] = 0
      BY <2>1, NoNeeds
    <3>2. SectionNeed("methods", r) = nm * 4 + 0
      BY <1>3, <3>1 DEF SectionNeed, SlotSize, MethodSize
    <3> QED
      BY <3>2
  <2> QED
    BY <2>2, <2>3, <2>4, <2>5, <2>6, <2>7
<1>7. PICK u : u = SumsOf(needed)
  OBVIOUS
<1>8. /\ u \in [0 .. 5 -> Nat] /\ u[0] = 0 /\ \A n \in 1 .. 5 : u[n] = u[n - 1] + needed[n]
  <2>1. Len(needed) = 5 /\ IsSums(u, needed)
    BY <1>5, <1>7, NeededAre
  <2> QED
    BY <2>1 DEF IsSums
<1>9. /\ u[1] = u[0] + needed[1] /\ u[2] = u[1] + needed[2] /\ u[3] = u[2] + needed[3]
      /\ u[4] = u[3] + needed[4] /\ u[5] = u[4] + needed[5]
  BY <1>8
<1>10. u[5] = (nt * 9 + a) + nf * 6 + nd * 6 + b + nm * 4
  <2>1. u[1] = nt * 9 + a
    BY <1>6, <1>8, <1>9
  <2>2. u[2] = (nt * 9 + a) + nf * 6
    BY <1>6, <1>9, <2>1
  <2>3. u[3] = (nt * 9 + a) + nf * 6 + nd * 6
    BY <1>6, <1>9, <2>2
  <2>4. u[4] = (nt * 9 + a) + nf * 6 + nd * 6 + b
    BY <1>6, <1>9, <2>3
  <2> QED
    BY <1>6, <1>9, <2>4
<1>11. (nt * 9 + a) + nf * 6 + nd * 6 + b + nm * 4 <= arena
  <2>1. a <= 9 * p + 4 * c + i + d
    BY <1>1
  <2>2. b = 3 * ninit + 5 * f
    BY <1>2
  <2>3. arena = 9 * (nt + p) + 4 * c + i + d + 6 * (nf + nd) + 3 * ninit + 5 * f + 4 * nm
    BY <1>4
  <2> QED
    BY <2>1, <2>2, <2>3
<1> QED
  BY <1>4, <1>5, <1>7, <1>10, <1>11

-----------------------------------------------------------------------------
(* The text of a ruleset: the items of its sections, one after the other.  *)
Parts(r) == [s \in 1 .. 5 |-> Items(Sections[s], r)]
AllItems(r) == FlattenSeq(Parts(r))
Starts(r) == Offsets(Parts(r))

TextOf(r, f) ==
  [items |-> AllItems(r), place |-> Places(AllItems(r)), data |-> f.data,
   strings |-> f.strings]

LEMMA LayoutIs ==
  ASSUME NEW r \in Rules
  PROVE  /\ AllItems(r) \in Seq(Item) /\ Len(AllItems(r)) \in Nat
         /\ Starts(r) \in [0 .. 5 -> Nat] /\ Starts(r)[0] = 0
         /\ Starts(r)[5] = Len(AllItems(r))
         /\ \A s \in 1 .. 5 : /\ Starts(r)[s] = Starts(r)[s - 1] + Len(Items(Sections[s], r))
                              /\ Items(Sections[s], r) \in Seq(Item)
         /\ \A s \in 0 .. 5 : Starts(r)[s] <= Len(AllItems(r))
         /\ \A x : x.items = AllItems(r) =>
              \A s \in 1 .. 5 : Block(x, Starts(r)[s - 1], Items(Sections[s], r))
<1>1. PICK parts : parts = Parts(r)
  OBVIOUS
<1>2. \A s \in 1 .. 5 : Items(Sections[s], r) \in Seq(Item)
  BY SectionsAre, ItemsSplit
<1>3. parts \in Seq(Seq(Item)) /\ Len(parts) = 5
  <2>1. ASSUME NEW K \in Nat, NEW f \in [1 .. K -> Seq(Item)] PROVE f \in Seq(Seq(Item)) /\ Len(f) = K
    OBVIOUS
  <2>2. parts \in [1 .. 5 -> Seq(Item)]
    BY <1>1, <1>2 DEF Parts
  <2> QED
    BY <2>1, <2>2
<1>4. \A s \in 1 .. 5 : parts[s] = Items(Sections[s], r)
  BY <1>1 DEF Parts
<1>5. PICK all \in Seq(Item) : all = AllItems(r) /\ all = FlattenSeq(parts)
  <2>1. FlattenSeq(parts) \in Seq(Item)
    BY <1>3, FlattenIs DEF IsJoined
  <2> QED
    BY <1>1, <2>1 DEF AllItems
<1>6. PICK o : o = Starts(r) /\ o = Offsets(parts)
  BY <1>1 DEF Starts
<1>7. ASSUME NEW x, x.items = all
      PROVE  /\ o \in [0 .. 5 -> Nat] /\ o[0] = 0 /\ Len(all) = o[5]
             /\ \A s \in 1 .. 5 : /\ o[s] = o[s - 1] + Len(parts[s])
                                  /\ Block(x, o[s - 1], parts[s])
             /\ \A s \in 0 .. 5 : o[s] <= Len(all)
  <2>1. Block(x, 0, all) /\ Len(x.items) \in Nat
    <3>1. PICK l \in Nat : l = Len(all)
      OBVIOUS
    <3>2. 0 + l <= l /\ \A i \in 1 .. l : all[0 + i] = all[i]
      OBVIOUS
    <3> QED
      BY <1>7, <3>1, <3>2 DEF Block
  <2>2. Block(x, 0, FlattenSeq(parts))
    BY <1>5, <2>1
  <2>3. PICK five \in Nat : five = 5 /\ five = Len(parts)
    BY <1>3
  <2>4. /\ o \in [0 .. five -> Nat] /\ o[0] = 0 /\ Len(all) = o[five]
        /\ \A s \in 1 .. five : /\ o[s] = o[s - 1] + Len(parts[s])
                             /\ Block(x, 0 + o[s - 1], parts[s])
        /\ \A s \in 0 .. five : 0 + o[s] <= Len(x.items)
    BY <1>3, <1>5, <1>6, <2>1, <2>2, <2>3, BlockFlat
  <2>5. \A s \in 0 .. five : 0 + o[s] = o[s]
    BY <2>4
  <2>6. \A s \in 1 .. five : 0 + o[s - 1] = o[s - 1]
    <3> TAKE s \in 1 .. five
    <3>1. s - 1 \in 0 .. five
      BY <2>3
    <3> QED
      BY <2>5, <3>1
  <2> QED
    BY <1>7, <2>3, <2>4, <2>5, <2>6
<1>8. PICK x : x.items = all
  <2>1. [items |-> all].items = all
    OBVIOUS
  <2> QED
    BY <2>1
<1>9. /\ o \in [0 .. 5 -> Nat] /\ o[0] = 0 /\ Len(all) = o[5]
      /\ \A s \in 1 .. 5 : o[s] = o[s - 1] + Len(parts[s])
      /\ \A s \in 0 .. 5 : o[s] <= Len(all)
  BY <1>7, <1>8
<1>10. \A y : y.items = all => \A s \in 1 .. 5 : Block(y, o[s - 1], parts[s])
  BY <1>7
<1>11. /\ all \in Seq(Item) /\ Len(all) \in Nat /\ o[5] = Len(all)
       /\ \A s \in 1 .. 5 : /\ o[s] = o[s - 1] + Len(Items(Sections[s], r))
                            /\ Items(Sections[s], r) \in Seq(Item)
  <2>1. /\ all \in Seq(Item) /\ Len(all) \in Nat /\ o[5] = Len(all)
    BY <1>9
  <2>2. ASSUME NEW s \in 1 .. 5 PROVE o[s] = o[s - 1] + Len(Items(Sections[s], r))
    BY <1>4, <1>9, Zenon
  <2> QED
    BY <1>2, <2>1, <2>2, Zenon
<1>12. \A y : y.items = all => \A s \in 1 .. 5 : Block(y, o[s - 1], Items(Sections[s], r))
  BY <1>4, <1>10
<1>13. AllItems(r) = all /\ Starts(r) = o
  BY <1>5, <1>6
<1> HIDE DEF AllItems, Starts
<1> QED
  BY <1>9, <1>11, <1>12, <1>13, Zenon

LEMMA TextIsPlaced ==
  ASSUME NEW r \in Rules, NEW f
  PROVE  /\ IsPlaced(TextOf(r, f)) /\ TextOf(r, f).items = AllItems(r)
         /\ TextOf(r, f).place = Places(AllItems(r)) /\ TextOf(r, f).data = f.data
         /\ TextOf(r, f).strings = f.strings
<1>1. /\ TextOf(r, f).items = AllItems(r) /\ TextOf(r, f).data = f.data
      /\ TextOf(r, f).place = Places(AllItems(r)) /\ TextOf(r, f).strings = f.strings
  BY DEF TextOf
<1>2. AllItems(r) \in Seq(Item)
  BY LayoutIs
<1> QED
  BY <1>1, <1>2, PlacesAre

(* Saving a section: its items follow those of the sections before it. *)
Layout(r) == TextOf(r, NoFile)

LEMMA LayoutIsPlaced ==
  ASSUME NEW r \in Rules
  PROVE  IsPlaced(Layout(r)) /\ Layout(r).items = AllItems(r)
BY TextIsPlaced DEF Layout

LEMMA NewBufferHolds ==
  ASSUME NEW x, IsPlaced(x), NEW n \in Nat \ {0}
  PROVE  Holds(x, NewBuffer(n), 0)
<1>1. NewBuffer(n) \in Buffer /\ Fits(NewBuffer(n))
  BY DEF NewBuffer, Buffer, Fits
<1>2. NewBuffer(n).data = <<>> /\ NewBuffer(n).error = FALSE
  BY DEF NewBuffer
<1>3. x.place[0] = 0 /\ 0 \in 0 .. Len(x.items)
  BY DEF IsPlaced
<1>4. Len(NewBuffer(n).data) = 0
  BY <1>2
<1> QED
  BY <1>1, <1>2, <1>3, <1>4 DEF Holds

LEMMA SectionSaved ==
  ASSUME NEW r \in Rules, NEW s \in 1 .. 5, NEW b, Holds(Layout(r), b, Starts(r)[s - 1])
  PROVE  Holds(Layout(r), PutAll(b, Items(Sections[s], r)), Starts(r)[s])
<1>1. PICK x : x = Layout(r)
  OBVIOUS
<1>2. PICK items \in Seq(Item) : items = Items(Sections[s], r)
  BY LayoutIs
<1>3. IsPlaced(x) /\ Block(x, Starts(r)[s - 1], items)
  BY <1>1, <1>2, LayoutIsPlaced, LayoutIs
<1>4. PICK m \in Nat : m = Starts(r)[s - 1]
  BY <1>3 DEF Block
<1>5. Starts(r)[s] = m + Len(items)
  BY <1>2, <1>4, LayoutIs
<1>6. Holds(x, PutAll(b, items), m + Len(items))
  <2>1. m + Len(items) <= Len(x.items) /\ \A i \in 1 .. Len(items) : x.items[m + i] = items[i]
    BY <1>3, <1>4 DEF Block
  <2>2. Holds(x, b, m)
    BY <1>1, <1>4
  <2> QED
    BY <1>3, <2>1, <2>2, PutAllHolds
<1> QED
  BY <1>1, <1>2, <1>5, <1>6

(* What is spelled in front of a cut is still there. *)
LEMMA SpelledCut ==
  ASSUME NEW item \in Item, NEW data \in Seq(Int), NEW strings, NEW n \in 0 .. Len(data),
         NEW at \in Nat, at + SizeOf(item) <= n, SpelledAt(item, data, strings, at)
  PROVE  SpelledAt(item, SubSeq(data, 1, n), strings, at)
<1>1. PICK cut : cut = SubSeq(data, 1, n)
  OBVIOUS
<1>2. \A i \in 1 .. n : cut[i] = data[i]
  BY <1>1
<1>3. PICK size \in Nat \ {0} : size = SizeOf(item)
  BY ItemIs
<1>4. \A i \in 1 .. size : cut[at + i] = data[at + i]
  <2> TAKE i \in 1 .. size
  <2>1. at + i \in 1 .. n
    BY <1>3
  <2> QED
    BY <1>2, <2>1
<1>5. item.kind = "word" => cut[at + 1] = item.v
  <2>1. 1 \in 1 .. size
    BY <1>3
  <2> QED
    BY <1>4, <2>1 DEF SpelledAt
<1>6. item.kind = "double" =>
        cut[at + 1] = IntegerPart(item.v) /\ cut[at + 2] = DecimalPart(item.v)
  <2> SUFFICES ASSUME item.kind = "double"
               PROVE  cut[at + 1] = IntegerPart(item.v) /\ cut[at + 2] = DecimalPart(item.v)
    OBVIOUS
  <2>1. 1 \in 1 .. size /\ 2 \in 1 .. size
    BY <1>3, ItemIs
  <2> QED
    BY <1>4, <2>1 DEF SpelledAt
<1>7. item.kind = "code" => \A i \in 1 .. Len(item.v) : cut[at + i] = item.v[i]
  <2> SUFFICES ASSUME item.kind = "code" PROVE \A i \in 1 .. Len(item.v) : cut[at + i] = item.v[i]
    OBVIOUS
  <2>1. size = Len(item.v)
    BY <1>3, ItemIs
  <2>2. \A i \in 1 .. Len(item.v) : data[at + i] = item.v[i]
    BY DEF SpelledAt
  <2> QED
    BY <1>4, <2>1, <2>2
<1>8. item.kind = "string" =>
        \/ item.v = "" /\ cut[at + 1] = 0
        \/ /\ cut[at + 1] \in 1 .. Len(strings)
           /\ strings[cut[at + 1]] = item.v
  <2> SUFFICES ASSUME item.kind = "string"
               PROVE  \/ item.v = "" /\ cut[at + 1] = 0
                      \/ /\ cut[at + 1] \in 1 .. Len(strings)
                         /\ strings[cut[at + 1]] = item.v
    OBVIOUS
  <2>1. 1 \in 1 .. size
    BY <1>3
  <2>2. cut[at + 1] = data[at + 1]
    BY <1>4, <2>1
  <2>3. \/ item.v = "" /\ data[at + 1] = 0
        \/ /\ data[at + 1] \in 1 .. Len(strings)
           /\ strings[data[at + 1]] = item.v
    BY DEF SpelledAt
  <2> QED
    BY <2>2, <2>3
<1> QED
  BY <1>1, <1>5, <1>6, <1>7, <1>8 DEF SpelledAt

(* A file made from the buffer is a text of the ruleset, with all items if *)
(* it has all of the buffer and the buffer has no error.                   *)
LEMMA FileIsText ==
  ASSUME NEW r \in Rules, NEW b, Holds(Layout(r), b, Starts(r)[5]), NEW n \in 0 .. Len(b.data),
         NEW f, f.data = SubSeq(b.data, 1, n), f.strings = b.strings
  PROVE  /\ IsText(TextOf(r, f))
         /\ f.data = b.data /\ ~b.error => Held(TextOf(r, f), Starts(r)[5])
<1>1. PICK x : x = TextOf(r, f)
  OBVIOUS
<1>2. PICK l : l = Layout(r)
  OBVIOUS
<1>3. /\ IsPlaced(x) /\ x.items = l.items /\ x.place = l.place /\ x.items = AllItems(r)
      /\ x.data = SubSeq(b.data, 1, n) /\ x.strings = b.strings
  BY <1>1, <1>2, TextIsPlaced DEF Layout
<1>4. PICK data \in Seq(Int) : data = b.data
  BY BufferIs DEF Holds
<1>5. b.strings \in Seq(STRING)
  BY BufferIs DEF Holds
<1>6. PICK cut \in Seq(Int) : cut = SubSeq(data, 1, n) /\ Len(cut) = n /\ cut = x.data
  <2>1. n \in 0 .. Len(data) /\ x.data = SubSeq(data, 1, n)
    BY <1>3, <1>4
  <2>2. SubSeq(data, 1, n) \in Seq(Int) /\ Len(SubSeq(data, 1, n)) = n
    BY <2>1
  <2> QED
    BY <2>1, <2>2
<1>7. PICK last \in Nat : last = Starts(r)[5] /\ last = Len(x.items)
  BY <1>3, LayoutIs
<1>8. Holds(l, b, last)
  BY <1>2, <1>7
<1>9. ASSUME NEW j \in 1 .. Len(x.items), Held(x, j) PROVE Spelled(x, j)
  <2>1. j \in 1 .. last
    BY <1>7
  <2>2. PICK item \in Item : item = x.items[j]
    BY <1>3 DEF IsPlaced
  <2>3. j - 1 \in 0 .. Len(x.items) /\ j \in 0 .. Len(x.items)
    BY <1>7
  <2>4. PICK at \in Nat : at = x.place[j - 1]
    BY <1>3, <2>3 DEF IsPlaced
  <2>5. x.place[j] = at + SizeOf(item)
    BY <1>3, <2>2, <2>4 DEF IsPlaced
  <2>6. PICK size \in Nat : size = SizeOf(item)
    BY <2>2, ItemIs
  <2>7. at + SizeOf(item) <= n
    BY <1>6, <1>9, <2>5 DEF Held
  <2>8. at + SizeOf(item) <= Len(data)
    BY <1>4, <2>6, <2>7
  <2>9. l.place[j] <= Len(b.data) =>
          SpelledAt(l.items[j], b.data, b.strings, l.place[j - 1])
    BY <1>8, <2>1 DEF Holds
  <2>10. SpelledAt(item, data, b.strings, at)
    BY <1>3, <1>4, <2>2, <2>4, <2>5, <2>8, <2>9
  <2>11. SpelledAt(item, SubSeq(data, 1, n), b.strings, at)
    BY <1>4, <2>7, <2>10, SpelledCut
  <2> QED
    BY <1>3, <1>6, <2>2, <2>4, <2>11 DEF Spelled
<1>10. IsText(x)
  <2>1. x.data \in Seq(Int) /\ x.strings \in Seq(STRING)
    BY <1>3, <1>5, <1>6
  <2> QED
    BY <1>3, <1>9, <2>1 DEF IsText
<1>11. f.data = b.data /\ ~b.error => Held(x, last)
  <2> SUFFICES ASSUME f.data = b.data, ~b.error PROVE Held(x, last)
    OBVIOUS
  <2>1. x.data = b.data
    BY <1>3
  <2>2. Len(b.data) = l.place[last]
    BY <1>8 DEF Holds
  <2>3. Len(b.data) \in Nat
    BY <1>4
  <2> QED
    BY <1>3, <2>1, <2>2, <2>3 DEF Held
<1> QED
  BY <1>1, <1>7, <1>10, <1>11

(* A whole file holds every section. *)
LEMMA SectionsHeld ==
  ASSUME NEW r \in Rules, NEW f, IsText(TextOf(r, f)), NEW s \in 0 .. 5, NEW t \in 0 .. 5, s <= t,
         Held(TextOf(r, f), Starts(r)[t])
  PROVE  Held(TextOf(r, f), Starts(r)[s])
<1>1. PICK x : x = TextOf(r, f)
  OBVIOUS
<1>2. x.items = AllItems(r)
  BY <1>1, TextIsPlaced
<1>3. PICK o : o = Starts(r)
  OBVIOUS
<1>4. o \in [0 .. 5 -> Nat] /\ \A n \in 0 .. 5 : o[n] <= Len(x.items)
  BY <1>2, <1>3, LayoutIs
<1>5. o[s] <= o[t]
  <2>1. \A n \in 1 .. 5 : \E l \in Nat : o[n] = o[n - 1] + l
    <3> TAKE n \in 1 .. 5
    <3>1. o[n] = o[n - 1] + Len(Items(Sections[n], r)) /\ Items(Sections[n], r) \in Seq(Item)
      BY <1>3, LayoutIs
    <3>2. Len(Items(Sections[n], r)) \in Nat
      BY <3>1
    <3> QED
      BY <3>1, <3>2
  <2>2. ASSUME NEW n \in 1 .. 5 PROVE o[n - 1] <= o[n]
    <3>1. n - 1 \in 0 .. 5
      OBVIOUS
    <3>2. PICK a \in Nat : a = o[n - 1]
      BY <1>4, <3>1
    <3>3. PICK l \in Nat : o[n] = a + l
      BY <2>1, <3>2
    <3> QED
      BY <3>2, <3>3
  <2>3. o[0] <= o[1] /\ o[1] <= o[2] /\ o[2] <= o[3] /\ o[3] <= o[4] /\ o[4] <= o[5]
    BY <2>2
  <2>4. \A n \in 0 .. 5 : o[n] \in Nat
    BY <1>4
  <2> QED
    BY <2>3, <2>4
<1>6. o[s] \in Nat /\ o[t] \in Nat
  BY <1>4
<1> QED
  BY <1>1, <1>3, <1>4, <1>5, <1>6, HeldDown

(* What is left of the memory is enough for what comes. *)
LEMMA RoomIs ==
  ASSUME NEW r \in Rules
  PROVE  /\ RoomAt(r, 0) = ArenaSize(Header(r))
         /\ \A s \in 0 .. 5 : RoomAt(r, s) \in Nat
         /\ \A s \in 1 .. 5 : /\ RoomAt(r, s) = RoomAt(r, s - 1) - SectionNeed(Sections[s], r)
                              /\ SectionNeed(Sections[s], r) \in Nat
                              /\ SectionNeed(Sections[s], r) <= RoomAt(r, s - 1)
<1>1. PICK arena \in Nat : arena = ArenaSize(Header(r))
  BY ArenaIsEnough
<1>2. PICK needed \in Seq(Nat) : needed = Needed(r) /\ Len(needed) = 5
  BY NeededAre
<1>3. PICK u : u = SumsOf(needed)
  OBVIOUS
<1>4. IsSums(u, needed)
  BY <1>2, <1>3, NeededAre
<1>5. u \in [0 .. 5 -> Nat] /\ u[0] = 0 /\ \A n \in 1 .. 5 : u[n] = u[n - 1] + needed[n]
  BY <1>2, <1>4 DEF IsSums
<1>6. \A n \in 0 .. 5 : u[n] <= arena
  <2>1. \A a, b \in 0 .. 5 : a <= b => u[a] <= u[b]
    BY <1>2, <1>4, SumsGrow
  <2>2. \A n \in 0 .. 5 : u[n] <= u[5]
    BY <2>1
  <2>3. u[5] <= arena
    BY <1>1, <1>2, <1>3, ArenaIsEnough
  <2>4. \A n \in 0 .. 5 : u[n] \in Nat
    BY <1>5
  <2> QED
    BY <2>2, <2>3, <2>4, SMTT(30)
<1>7. \A n \in 0 .. 5 : RoomAt(r, n) = arena - u[n]
  BY <1>1, <1>2, <1>3 DEF RoomAt
<1>8. ASSUME NEW n \in 0 .. 5 PROVE RoomAt(r, n) \in Nat
  <2>1. PICK a \in Nat : a = u[n] /\ a <= arena
    BY <1>5, <1>6
  <2>2. RoomAt(r, n) = arena - a
    BY <1>7, <2>1
  <2> QED
    BY <2>1, <2>2
<1>9. RoomAt(r, 0) = ArenaSize(Header(r))
  BY <1>1, <1>5, <1>7
<1>10. ASSUME NEW n \in 1 .. 5
       PROVE  /\ RoomAt(r, n) = RoomAt(r, n - 1) - SectionNeed(Sections[n], r)
              /\ SectionNeed(Sections[n], r) \in Nat
              /\ SectionNeed(Sections[n], r) <= RoomAt(r, n - 1)
  <2>1. n - 1 \in 0 .. 5 /\ n \in 0 .. 5
    OBVIOUS
  <2>2. PICK a \in Nat : a = u[n - 1] /\ a <= arena
    BY <1>5, <1>6, <2>1
  <2>3. PICK b \in Nat : b = u[n] /\ b <= arena
    BY <1>5, <1>6, <2>1
  <2>4. PICK need : need = SectionNeed(Sections[n], r) /\ need = needed[n]
    BY <1>2 DEF Needed
  <2>5. need \in Nat
    <3>1. \A i \in 1 .. Len(needed) : needed[i] \in Nat
      OBVIOUS
    <3> QED
      BY <1>2, <2>4, <3>1
  <2>6. b = a + need
    BY <1>5, <2>2, <2>3, <2>4
  <2>7. RoomAt(r, n - 1) = arena - a /\ RoomAt(r, n) = arena - b
    BY <1>7, <2>1, <2>2, <2>3
  <2>8. PICK now : now = RoomAt(r, n - 1)
    OBVIOUS
  <2>9. PICK then : then = RoomAt(r, n)
    OBVIOUS
  <2>10. then = now - need /\ need <= now
    BY <2>2, <2>3, <2>5, <2>6, <2>7, <2>8, <2>9, SMTT(30)
  <2> QED
    BY <2>4, <2>5, <2>8, <2>9, <2>10
<1> QED
  BY <1>8, <1>9, <1>10

(* The loader before the s-th section has been read to its end. *)
Loading(r, f, b, s, e) == At(TextOf(r, f), b, Starts(r)[s], RoomAt(r, s), e)

LEMMA OpenAt ==
  ASSUME NEW r \in Rules, NEW f, IsText(TextOf(r, f)), f.header = Header(r), NEW e \in BOOLEAN
  PROVE  Loading(r, f, OpenBuffer(f, e), 0, e)
<1>1. PICK x : x = TextOf(r, f)
  OBVIOUS
<1>2. x.data = f.data /\ x.strings = f.strings /\ x.data \in Seq(Int) /\ x.place[0] = 0
  <2>1. IsText(x)
    BY <1>1
  <2> QED
    BY <1>1, <2>1, TextIsPlaced, TextIs
<1>3. Held(x, 0)
  <2>1. Len(x.data) \in Nat
    BY <1>2
  <2> QED
    BY <1>2, <2>1 DEF Held
<1>4. Rest(x.data, 0) = x.data
  <2>1. ASSUME NEW data \in Seq(Int) PROVE SubSeq(data, 1, Len(data)) = data
    OBVIOUS
  <2>2. 0 + 1 = 1
    OBVIOUS
  <2> QED
    BY <1>2, <2>1, <2>2 DEF Rest
<1>5. RoomAt(r, 0) = ArenaSize(f.header)
  BY RoomIs
<1>6. OpenBuffer(f, e) = Here(x, 0, RoomAt(r, 0), e)
  BY <1>2, <1>4, <1>5 DEF OpenBuffer, Here
<1>7. Starts(r)[0] = 0
  BY LayoutIs
<1>8. At(x, OpenBuffer(f, e), 0, RoomAt(r, 0), e)
  BY <1>3, <1>6 DEF At
<1> QED
  BY <1>1, <1>7, <1>8 DEF Loading

LEMMA SectionLoaded ==
  ASSUME NEW r \in Rules, NEW f, IsText(TextOf(r, f)), NEW e \in BOOLEAN, NEW s \in 1 .. 5,
         NEW b, Loading(r, f, b, s - 1, e)
  PROVE  /\ Loading(r, f, ReadSection(Sections[s], b).b, s, e)
         /\ Held(TextOf(r, f), Starts(r)[s]) =>
              ReadSection(Sections[s], b).v = SectionRead(Sections[s], r)
<1>1. PICK x : x = TextOf(r, f)
  OBVIOUS
<1>2. IsText(x) /\ x.items = AllItems(r)
  BY <1>1, TextIsPlaced
<1>3. PICK sec \in SecNames : sec = Sections[s]
  BY SectionsAre
<1>4. PICK room \in Nat : room = RoomAt(r, s - 1)
  <2>1. s - 1 \in 0 .. 5
    OBVIOUS
  <2> QED
    BY <2>1, RoomIs
<1>5. RoomAt(r, s) = room - SectionNeed(sec, r) /\ SectionNeed(sec, r) <= room
  BY <1>3, <1>4, RoomIs
<1>6. PICK k : k = Starts(r)[s - 1]
  OBVIOUS
<1>7. PICK m : m = Starts(r)[s]
  OBVIOUS
<1>8. Block(x, k, Items(sec, r)) /\ m = k + Len(Items(sec, r))
  BY <1>2, <1>3, <1>6, <1>7, LayoutIs
<1>9. At(x, b, k, room, e)
  BY <1>1, <1>4, <1>6 DEF Loading
<1>10. Ready(x, Items(sec, r), k, b, room, e, SectionNeed(sec, r), m)
  BY <1>5, <1>8, <1>9 DEF Ready
<1>11. Done(x, ReadSection(sec, b), k, m, room - SectionNeed(sec, r), e, SectionRead(sec, r))
  BY <1>2, <1>10, SectionAt
<1>12. /\ At(x, ReadSection(sec, b).b, m, RoomAt(r, s), e)
       /\ Held(x, m) => ReadSection(sec, b).v = SectionRead(sec, r)
  BY <1>5, <1>11 DEF Done
<1> QED
  BY <1>1, <1>3, <1>7, <1>12 DEF Loading

(* A loader that is not past the end has no error. *)
LEMMA LoadingIs ==
  ASSUME NEW r, NEW f, NEW s, NEW b, NEW e, Loading(r, f, b, s, e)
  PROVE  /\ b.errno = e
         /\ Held(TextOf(r, f), Starts(r)[s]) => ~b.error /\ ~b.failed
         /\ ~Held(TextOf(r, f), Starts(r)[s]) => Past(b, e)
<1>1. CASE Held(TextOf(r, f), Starts(r)[s])
  <2>1. b = Here(TextOf(r, f), Starts(r)[s], RoomAt(r, s), e)
    BY <1>1 DEF Loading, At
  <2> QED
    BY <1>1, <2>1 DEF Here
<1>2. CASE ~Held(TextOf(r, f), Starts(r)[s])
  <2>1. Past(b, e)
    BY <1>2 DEF Loading, At
  <2> QED
    BY <1>2, <2>1 DEF Past
<1> QED
  BY <1>1, <1>2

(* Without its length the section of the methods is empty, and it fails if *)
(* errno was set.                                                          *)
LEMMA NoMethods ==
  ASSUME NEW b, NEW e \in BOOLEAN, Past(b, e)
  PROVE  /\ ReadSection("methods", b).v = <<>>
         /\ e => ReadSection("methods", b).b.failed
<1>1. PICK first : first = ReadWord(b)
  OBVIOUS
<1>2. Past(first.b, e) /\ first.v = 0
  BY <1>1, PastWord DEF Past
<1>3. "methods" \in SecNames
  BY DEF SecNames
<1>4. PICK h : IsMany(h, KindOf("methods"), Slots("methods", first.b, 0), 0)
               /\ ReadSection("methods", b) = h[0]
  BY <1>1, <1>2, <1>3, SectionReads
<1>5. h[0] = Pair(Reserve(first.b, 0), <<>>)
  <2>1. Slots("methods", first.b, 0) = Reserve(first.b, 0)
    BY DEF Slots, SlotSize, MethodSize
  <2>2. h[0] = Pair(Slots("methods", first.b, 0), <<>>)
    BY <1>4 DEF IsMany
  <2> QED
    BY <2>1, <2>2
<1>6. e => Reserve(first.b, 0).failed
  <2> SUFFICES ASSUME e PROVE Reserve(first.b, 0).failed
    OBVIOUS
  <2>1. first.b \in Reading /\ first.b.error
    BY <1>2 DEF Past
  <2>2. Reserve(first.b, 0) = [first.b EXCEPT !.error = TRUE, !.failed = TRUE]
    BY <2>1 DEF Reserve
  <2>3. "failed" \in DOMAIN first.b
    BY <2>1 DEF Reading
  <2> QED
    BY <2>2, <2>3
<1> QED
  BY <1>4, <1>5, <1>6 DEF Pair

-------------------------------------------------------------------------------
(* What is loaded is the same as what was saved. *)

LEMMA SameAsRead ==
  ASSUME NEW v \in Values
  PROVE  SameValue(v, AsRead(v)) /\ SameValue(v, v) /\ AsRead(v).type # "unknown"
<1>1. v.type \in {"integer", "double", "string"} /\ (v.type = "double" => v.v \in Int)
  BY ValuesAre
<1>2. CASE v.type = "double"
  <2>1. PICK d \in Int : d = v.v
    BY <1>1, <1>2
  <2>2. PICK w : w = AsDouble(d)
    OBVIOUS
  <2>3. d >= 0 => w \in d - 10 .. d
    <3> SUFFICES ASSUME d >= 0 PROVE w \in d - 10 .. d
      OBVIOUS
    <3>1. Magnitude(d) = d
      BY DEF Magnitude
    <3>2. PICK int \in Nat : int = d \div 10000
      OBVIOUS
    <3>3. IntegerPart(d) = int
      BY <3>1, <3>2 DEF IntegerPart
    <3>4. 10000 * int <= d /\ d < 10000 * int + 10000
      BY <3>2
    <3>5. PICK rest \in Nat : rest = d - 10000 * int
      BY <3>4
    <3>6. PICK dec \in Nat : dec = rest \div 10
      OBVIOUS
    <3>7. DecimalPart(d) = dec
      BY <3>1, <3>3, <3>5, <3>6 DEF DecimalPart
    <3>8. 10 * dec <= rest /\ rest < 10 * dec + 10
      BY <3>6
    <3>9. w = 10000 * int + 10 * dec
      BY <2>2, <3>3, <3>7 DEF AsDouble
    <3> QED
      BY <3>5, <3>8, <3>9
  <2>4. d \in d - 10 .. d
    OBVIOUS
  <2>5. AsRead(v).type = "double" /\ AsRead(v).v = w
    BY <1>2, <2>1, <2>2 DEF AsRead
  <2> QED
    BY <1>2, <2>1, <2>3, <2>4, <2>5 DEF SameValue
<1>3. CASE v.type # "double"
  <2>1. AsRead(v) = v
    BY <1>3 DEF AsRead
  <2> QED
    BY <1>1, <1>3, <2>1 DEF SameValue
<1> QED
  BY <1>2, <1>3

LEMMA SameInits ==
  ASSUME NEW r \in Rules
  PROVE  /\ SameInitializers(r.initializers, SectionRead("initializers", r))
         /\ SameInitializers(r.initializers, r.initializers)
<1>1. PICK is \in Seq(Initializer) : is = r.initializers
  BY RulesAre
<1>2. PICK js : js = SectionRead("initializers", r)
  OBVIOUS
<1>3. js = [i \in 1 .. Len(is) |-> InitAsRead(is[i])]
  BY <1>1, <1>2 DEF SectionRead
<1>4. Len(js) = Len(is)
  BY <1>3
<1>5. ASSUME NEW k \in DOMAIN is
      PROVE  SameInitializer(is[k], js[k]) /\ SameInitializer(is[k], is[k])
  <2>1. PICK i \in Initializer : i = is[k]
    OBVIOUS
  <2>2. PICK j : j = js[k] /\ j = InitAsRead(i)
    BY <1>3, <2>1
  <2>3. PICK fs \in Seq(Field) : fs = i.fields
    BY DEF Initializer
  <2>4. PICK gs : gs = j.fields /\ gs = [n \in 1 .. Len(fs) |-> FieldAsRead(fs[n])]
    BY <2>2, <2>3 DEF InitAsRead
  <2>5. i.variable = j.variable
    BY <2>2 DEF InitAsRead
  <2>6. Len(gs) = Len(fs)
    BY <2>4
  <2>7. ASSUME NEW n \in DOMAIN fs PROVE SameField(fs[n], gs[n]) /\ SameField(fs[n], fs[n])
    <3>1. PICK f \in Field : f = fs[n]
      OBVIOUS
    <3>2. gs[n] = FieldAsRead(f)
      BY <2>4, <3>1
    <3>3. f.value \in Values
      BY DEF Field
    <3>4. SameValue(f.value, AsRead(f.value)) /\ SameValue(f.value, f.value)
      BY <3>3, SameAsRead
    <3>5. FieldAsRead(f).name = f.name /\ FieldAsRead(f).value = AsRead(f.value)
      BY DEF FieldAsRead
    <3> QED
      BY <3>1, <3>2, <3>4, <3>5 DEF SameField
  <2>8. SameInitializer(i, j)
    BY <2>3, <2>4, <2>5, <2>6, <2>7 DEF SameInitializer
  <2>9. SameInitializer(i, i)
    BY <2>3, <2>7 DEF SameInitializer
  <2> QED
    BY <2>1, <2>2, <2>8, <2>9
<1> QED
  BY <1>1, <1>2, <1>4, <1>5 DEF SameInitializers

(* The sections before a given one are what they were, or may be not. *)
LEMMA SameWhatIsRead ==
  ASSUME NEW r \in Rules, NEW g, NEW except,
         \A sec \in SecNames \ except : g[sec] = SectionRead(sec, r)
  PROVE  SameBut(r, g, except)
<1>1. DOMAIN EmptyRuleset = SecNames
  BY DEF EmptyRuleset, SecNames
<1>2. ASSUME NEW sec \in SecNames \ except
      PROVE  IF sec = "initializers" THEN SameInitializers(r[sec], g[sec]) ELSE r[sec] = g[sec]
  <2>1. CASE sec = "initializers"
    <3>1. r[sec] = r.initializers /\ g[sec] = SectionRead("initializers", r)
      BY <1>2, <2>1
    <3>2. SameInitializers(r[sec], g[sec])
      BY <3>1, SameInits
    <3> QED
      BY <2>1, <3>2
  <2>2. CASE sec # "initializers"
    BY <1>2, <2>2 DEF SectionRead
  <2> QED
    BY <2>1, <2>2
<1> QED
  BY <1>1, <1>2 DEF SameBut

LEMMA SameItself ==
  ASSUME NEW r \in Rules, NEW except
  PROVE  SameBut(r, r, except)
BY SameInits DEF SameBut

(* The initializers that are read have all their values, and create the    *)
(* facts that those of the ruleset do.                                     *)
LEMMA CreatedAsSaved ==
  ASSUME NEW r \in Rules, NEW g, g.factvars = r.factvars,
         g.initializers = SectionRead("initializers", r)
  PROVE  /\ \A i \in DOMAIN g.initializers : Complete(g.initializers[i])
         /\ CreatedBy(g) = FactNames(r, r.initializers)
<1>1. PICK is \in Seq(Initializer) : is = r.initializers
  BY RulesAre
<1>2. PICK js : js = g.initializers
  OBVIOUS
<1>3. js = [i \in 1 .. Len(is) |-> InitAsRead(is[i])]
  BY <1>1, <1>2 DEF SectionRead
<1>4. ASSUME NEW i \in 1 .. Len(is)
      PROVE  Complete(js[i]) /\ FactName(g, js[i]) = FactName(r, is[i])
  <2>1. PICK init \in Initializer : init = is[i]
    OBVIOUS
  <2>2. js[i] = InitAsRead(init)
    BY <1>3, <2>1
  <2>3. PICK fs \in Seq(Field) : fs = init.fields
    BY DEF Initializer
  <2>4. /\ js[i].fields = [n \in 1 .. Len(fs) |-> FieldAsRead(fs[n])]
        /\ js[i].variable = init.variable
    BY <2>2, <2>3 DEF InitAsRead
  <2>5. ASSUME NEW n \in 1 .. Len(fs) PROVE FieldAsRead(fs[n]).value.type # "unknown"
    <3>1. PICK f \in Field : f = fs[n]
      OBVIOUS
    <3>2. f.value \in Values /\ FieldAsRead(f).value = AsRead(f.value)
      BY DEF Field, FieldAsRead
    <3> QED
      BY <3>1, <3>2, SameAsRead
  <2>6. Complete(js[i])
    BY <2>4, <2>5 DEF Complete
  <2>7. FactName(g, js[i]) = FactName(r, is[i])
    BY <2>1, <2>4 DEF FactName
  <2> QED
    BY <2>6, <2>7
<1>5. DOMAIN js = 1 .. Len(is) /\ DOMAIN is = 1 .. Len(is) /\ Len(is) \in Nat
  BY <1>3
<1>6. {i \in DOMAIN js : ~Complete(js[i])} = {}
  BY <1>4, <1>5
<1>7. CreatedBy(g) = FactNames(g, SubSeq(js, 1, Len(js)))
  BY <1>2, <1>6 DEF CreatedBy
<1>8. SubSeq(js, 1, Len(js)) = js
  <2>1. ASSUME NEW N \in Nat, NEW f, f = [i \in 1 .. N |-> f[i]] PROVE SubSeq(f, 1, Len(f)) = f
    <3>1. Len(f) = N
      BY <2>1
    <3>2. SubSeq(f, 1, N) = [i \in 1 .. N |-> f[i]]
      OBVIOUS
    <3> QED
      BY <2>1, <3>1, <3>2
  <2>2. js = [i \in 1 .. Len(is) |-> js[i]]
    BY <1>3
  <2> QED
    BY <1>5, <2>1, <2>2
<1>9. FactNames(g, js) = FactNames(r, is)
  BY <1>4, <1>5 DEF FactNames
<1> QED
  BY <1>1, <1>2, <1>4, <1>5, <1>7, <1>8, <1>9

-------------------------------------------------------------------------------
(* The inductive invariant. *)

Text == TextOf(ruleset, file)
HeldTo(s) == Held(TextOf(ruleset, file), Starts(ruleset)[s])

Right(s) == got[Sections[s]] = SectionRead(Sections[s], ruleset)

(* What the process has come to. *)
BufferInv == buf \in Buffer /\ Fits(buf)

(* The sections before the next one are in the buffer, or there was an error. *)
SavingInv ==
  /\ phase = "saving" => Holds(Layout(ruleset), buf, Starts(ruleset)[section - 1])
  /\ phase = "writing" => Holds(Layout(ruleset), buf, Starts(ruleset)[5])
  /\ phase \in {"saving", "writing"} => file = NoFile

(* A file is a text of the ruleset. *)
FileInv ==
  file # NoFile =>
    /\ IsText(Text) /\ file.header = Header(ruleset)
    /\ Whole => HeldTo(5)

(* The loader is behind the sections that it has read, or past the end of  *)
(* the file.                                                               *)
LoadingInv ==
  phase = "loading" =>
    /\ file # NoFile /\ load.errno \in BOOLEAN
    /\ Loading(ruleset, file, load, section - 1, load.errno)
    /\ \A s \in 1 .. 5 : s < section /\ HeldTo(s) => Right(s)

(* What has been loaded is right as far as the file goes; that it goes as  *)
(* far as the methods is certain if errno was set or if there are any.     *)
LoadedInv ==
  phase \in {"registering", "initializing", "crashed"} \/ source = "file" =>
    /\ file # NoFile
    /\ \A s \in 1 .. 5 : HeldTo(s) => Right(s)
    /\ load.errno \/ got.methods # <<>> => HeldTo(4)

(* Where the phases lead. *)
PhaseInv ==
  /\ source # "none" => phase \in {"ended", "running"}
  /\ phase = "initializing" => Builtins \subseteq ToSet(got.methods)
  /\ phase # "running" /\ who = "daemon" => created = <<>>
  /\ phase = "running" => who = "daemon"
  /\ phase \in {"saving", "writing"} => who = "dresc"

Inv ==
  /\ TypeOK /\ BufferInv /\ SavingInv /\ FileInv /\ LoadingInv /\ LoadedInv /\ PhaseInv
  /\ WholeFileLoads /\ FactsCreatedOnce

LEMMA RulesetIs ==
  ASSUME NEW r \in Rulesets
  PROVE  r \in Rules /\ Builtins \subseteq ToSet(r.methods) /\ Builtins # {}
BY RulesetsAssumption

LEMMA BufferTypes ==
  ASSUME BufferInv
  PROVE  /\ buf.size \in Nat /\ buf.error \in BOOLEAN
         /\ Len(buf.data) <= buf.size /\ Len(buf.strings) < buf.size
BY BufferIs DEF BufferInv, Fits

(* What a step leaves alone that only loads. *)
LEMMA SavedStays ==
  ASSUME Inv, UNCHANGED <<ruleset, saveVars>>, phase' \notin {"saving", "writing"}
  PROVE  BufferInv' /\ SavingInv' /\ FileInv' /\ (Whole <=> Whole')
<1>1. BufferInv /\ FileInv
  BY DEF Inv
<1>2. buf' = buf /\ file' = file /\ ruleset' = ruleset
  BY DEF saveVars
<1>3. BufferInv'
  BY <1>1, <1>2 DEF BufferInv
<1>4. SavingInv'
  BY DEF SavingInv
<1>5. Whole <=> Whole'
  BY <1>2 DEF Whole, Cut
<1>6. FileInv'
  <2>1. Text' = Text /\ (HeldTo(5) <=> HeldTo(5)')
    BY <1>2 DEF Text, HeldTo
  <2> QED
    BY <1>1, <1>2, <1>5, <2>1 DEF FileInv
<1> QED
  BY <1>3, <1>4, <1>5, <1>6

(* Nothing is known of the loader before there is one. *)
LEMMA NothingLoaded ==
  ASSUME phase' \notin {"loading", "registering", "initializing", "crashed"}, source' # "file"
  PROVE  LoadingInv' /\ LoadedInv'
BY DEF LoadingInv, LoadedInv

LEMMA InitInv ==
  ASSUME Init
  PROVE  Inv
<1>1. ruleset \in Rules
  BY RulesetIs DEF Init
<1>2. Holds(Layout(ruleset), buf, 0)
  <2>1. InitialSize \in Nat \ {0}
    BY SizesAssumption
  <2> QED
    BY <1>1, <2>1, LayoutIsPlaced, NewBufferHolds DEF Init
<1>3. BufferInv
  BY <1>2 DEF Holds, BufferInv
<1>4. section = 1 /\ section \in DOMAIN Sections
  BY SectionsAre DEF Init
<1>5. TypeOK
  BY <1>3, <1>4, BufferTypes DEF Init, TypeOK
<1>6. SavingInv
  <2>1. Starts(ruleset)[section - 1] = 0
    <3>1. section - 1 = 0
      BY <1>4
    <3> QED
      BY <1>1, <3>1, LayoutIs
  <2> QED
    BY <1>2, <2>1 DEF Init, SavingInv
<1>7. FileInv /\ LoadingInv /\ LoadedInv /\ PhaseInv
  BY DEF Init, FileInv, LoadingInv, LoadedInv, PhaseInv
<1>8. WholeFileLoads /\ FactsCreatedOnce
  BY DEF Init, WholeFileLoads, FactsCreatedOnce
<1> QED
  BY <1>3, <1>5, <1>6, <1>7, <1>8 DEF Inv

(* While nothing is in the file. *)
LEMMA SavingStep ==
  ASSUME Inv, phase = "saving", phase' \in {"saving", "writing", "ended"}, BufferInv',
         section' \in DOMAIN Sections, status' \in {"none", "ok", "ENOMEM"},
         UNCHANGED <<ruleset, who, file, loadVars>>, SavingInv'
  PROVE  Inv'
<1>1. TypeOK /\ SavingInv /\ PhaseInv
  BY DEF Inv
<1>2. file = NoFile /\ who = "dresc" /\ source = "none" /\ file' = NoFile /\ source' = "none"
  BY <1>1 DEF SavingInv, PhaseInv, loadVars
<1>3. TypeOK'
  <2>1. /\ buf'.size \in Nat /\ buf'.error \in BOOLEAN
        /\ Len(buf'.data) <= buf'.size /\ Len(buf'.strings) < buf'.size
    BY BufferIs DEF BufferInv, Fits
  <2>2. phase' \in {"saving", "writing", "saved", "ended", "opening", "loading", "failed",
                    "registering", "initializing", "running", "crashed"}
    OBVIOUS
  <2> QED
    BY <1>1, <2>1, <2>2 DEF TypeOK, loadVars
<1>4. FileInv'
  BY <1>2 DEF FileInv
<1>5. LoadingInv' /\ LoadedInv'
  BY <1>2, NothingLoaded
<1>6. PhaseInv'
  BY <1>1, <1>2 DEF PhaseInv, loadVars
<1>7. WholeFileLoads' /\ FactsCreatedOnce'
  BY <1>2 DEF WholeFileLoads, Whole, FactsCreatedOnce
<1> QED
  BY <1>3, <1>4, <1>5, <1>6, <1>7 DEF Inv

LEMMA SaveSectionInv ==
  ASSUME Inv, SaveSection
  PROVE  Inv'
<1>1. TypeOK /\ SavingInv
  BY DEF Inv
<1>2. PICK s \in 1 .. 5 : s = section
  BY <1>1, SectionsAre DEF TypeOK
<1>3. ruleset \in Rules
  BY <1>1, RulesetIs DEF TypeOK
<1>4. Holds(Layout(ruleset), buf', Starts(ruleset)[s])
  <2>1. Holds(Layout(ruleset), buf, Starts(ruleset)[s - 1])
    BY <1>1, <1>2 DEF SavingInv, SaveSection
  <2>2. buf' = PutAll(buf, Items(Sections[s], ruleset))
    BY <1>2 DEF SaveSection
  <2> QED
    BY <1>3, <2>1, <2>2, SectionSaved
<1>5. BufferInv'
  BY <1>4 DEF Holds, BufferInv
<1>6. /\ phase = "saving"
      /\ section' = IF s = 5 THEN 1 ELSE s + 1
      /\ phase' = IF s = 5 THEN "writing" ELSE "saving"
      /\ UNCHANGED <<ruleset, who, file, status, loadVars>>
  BY <1>2, SectionsAre DEF SaveSection
<1>7. SavingInv'
  <2>1. file' = NoFile
    BY <1>1, <1>6 DEF SavingInv
  <2>2. CASE s = 5
    BY <1>4, <1>6, <2>1, <2>2 DEF SavingInv
  <2>3. CASE s # 5
    <3>1. section' - 1 = s /\ phase' = "saving"
      BY <1>6, <2>3
    <3> QED
      BY <1>4, <1>6, <2>1, <3>1 DEF SavingInv
  <2> QED
    BY <2>2, <2>3
<1>8. section' \in DOMAIN Sections /\ phase' \in {"saving", "writing", "ended"}
  BY <1>6, SectionsAre
<1>9. status' \in {"none", "ok", "ENOMEM"} /\ UNCHANGED <<ruleset, who, file, loadVars>>
  BY <1>1, <1>6 DEF TypeOK
<1> QED
  BY <1>5, <1>6, <1>7, <1>8, <1>9, SavingStep

LEMMA SaveAgainInv ==
  ASSUME Inv, SaveAgain
  PROVE  Inv'
<1>1. TypeOK /\ SavingInv /\ BufferInv
  BY DEF Inv
<1>2. ruleset \in Rules
  BY <1>1, RulesetIs DEF TypeOK
<1>3. /\ phase = "saving" /\ phase' = "saving" /\ Sections[section] = "targets"
      /\ buf' = NewBuffer(2 * buf.size) /\ section' = section
      /\ UNCHANGED <<ruleset, who, file, status, loadVars>>
  BY DEF SaveAgain, TargetsDoNotFit
<1>4. section = 1
  <2>1. section \in 1 .. 5
    BY <1>1, SectionsAre DEF TypeOK
  <2> QED
    BY <1>3, <2>1, SectionsAre
<1>5. 2 * buf.size \in Nat \ {0}
  <2>1. PICK n \in Nat \ {0} : n = buf.size
    BY <1>1, BufferIs DEF BufferInv
  <2> QED
    BY <2>1
<1>6. Holds(Layout(ruleset), buf', 0)
  BY <1>2, <1>3, <1>5, LayoutIsPlaced, NewBufferHolds
<1>7. BufferInv'
  BY <1>6 DEF Holds, BufferInv
<1>8. SavingInv'
  <2>1. section' - 1 = 0
    BY <1>3, <1>4
  <2>2. Starts(ruleset)[section' - 1] = 0
    BY <1>2, <2>1, LayoutIs
  <2> QED
    BY <1>1, <1>3, <1>6, <2>2 DEF SavingInv
<1>9. /\ status' \in {"none", "ok", "ENOMEM"} /\ section' \in DOMAIN Sections
      /\ phase' \in {"saving", "writing", "ended"} /\ UNCHANGED <<ruleset, who, file, loadVars>>
  BY <1>1, <1>3 DEF TypeOK
<1> QED
  BY <1>3, <1>7, <1>8, <1>9, SavingStep

LEMMA GiveUpInv ==
  ASSUME Inv, GiveUp
  PROVE  Inv'
<1>1. TypeOK /\ SavingInv /\ BufferInv
  BY DEF Inv
<1>2. /\ phase = "saving" /\ phase' = "ended" /\ status' = "ENOMEM"
      /\ UNCHANGED <<ruleset, section, who, buf, file, loadVars>>
  BY DEF GiveUp, TargetsDoNotFit
<1>3. BufferInv'
  BY <1>1, <1>2 DEF BufferInv
<1>4. SavingInv'
  BY <1>2 DEF SavingInv
<1>5. /\ status' \in {"none", "ok", "ENOMEM"} /\ section' \in DOMAIN Sections
      /\ phase' \in {"saving", "writing", "ended"} /\ UNCHANGED <<ruleset, who, file, loadVars>>
  BY <1>1, <1>2 DEF TypeOK
<1> QED
  BY <1>2, <1>3, <1>4, <1>5, SavingStep

LEMMA WriteFileInv ==
  ASSUME Inv, WriteFile
  PROVE  Inv'
<1>1. TypeOK /\ SavingInv /\ BufferInv /\ PhaseInv
  BY DEF Inv
<1>2. /\ phase = "writing" /\ phase' = "saved" /\ status' = "ok"
      /\ UNCHANGED <<ruleset, section, who, buf, loadVars>>
  BY DEF WriteFile
<1>3. ruleset \in Rules /\ Holds(Layout(ruleset), buf, Starts(ruleset)[5])
  BY <1>1, <1>2, RulesetIs DEF TypeOK, SavingInv
<1>4. source = "none" /\ source' = "none" /\ who = "dresc"
  BY <1>1, <1>2 DEF PhaseInv, TypeOK, loadVars
<1>5. TypeOK'
  BY <1>1, <1>2 DEF TypeOK, loadVars
<1>6. FileInv'
  <2> SUFFICES ASSUME file' # NoFile
               PROVE  IsText(Text') /\ file'.header = Header(ruleset') /\ (Whole' => HeldTo(5)')
    BY DEF FileInv
  <2>1. PICK n \in 0 .. Len(buf.data) :
          file' = [data |-> SubSeq(buf.data, 1, n), strings |-> buf.strings,
                   header |-> Header(ruleset)]
    BY DEF WriteFile
  <2>2. PICK f : f = file'
    OBVIOUS
  <2>3. f.data = SubSeq(buf.data, 1, n) /\ f.strings = buf.strings /\ f.header = Header(ruleset)
    BY <2>1, <2>2
  <2>4. /\ IsText(TextOf(ruleset, f))
        /\ f.data = buf.data /\ ~buf.error => Held(TextOf(ruleset, f), Starts(ruleset)[5])
    BY <1>3, <2>1, <2>3, FileIsText
  <2>5. Text' = TextOf(ruleset, f)
        /\ (HeldTo(5)' <=> Held(TextOf(ruleset, f), Starts(ruleset)[5]))
    BY <1>2, <2>2 DEF Text, HeldTo
  <2>6. Whole' => f.data = buf.data /\ ~buf.error
    BY <1>2, <2>2 DEF Whole, Cut
  <2> QED
    BY <1>2, <2>2, <2>3, <2>4, <2>5, <2>6
<1>7. LoadingInv' /\ LoadedInv'
  BY <1>2, <1>4, NothingLoaded
<1>8. PhaseInv' /\ SavingInv' /\ BufferInv'
  BY <1>1, <1>2, <1>4 DEF PhaseInv, SavingInv, BufferInv
<1>9. WholeFileLoads' /\ FactsCreatedOnce'
  BY <1>2, <1>4 DEF WholeFileLoads, FactsCreatedOnce
<1> QED
  BY <1>5, <1>6, <1>7, <1>8, <1>9 DEF Inv

(* A step between the phases in which nothing is loaded. *)
LEMMA PhaseStep ==
  ASSUME Inv, UNCHANGED <<ruleset, section, saveVars>>, UNCHANGED <<load, got>>,
         phase' \in {"ended", "opening", "failed"}, who' \in {"dresc", "daemon"},
         source' \in {"none", "file", "text"}, source' # "none" => phase' = "ended",
         LoadedInv', who' = "daemon" => created' = <<>>,
         Whole => phase' # "failed" /\ source' # "text"
  PROVE  Inv'
<1>1. TypeOK
  BY DEF Inv
<1>2. BufferInv' /\ SavingInv' /\ FileInv' /\ (Whole <=> Whole')
  BY SavedStays
<1>3. TypeOK'
  <2>1. phase' \in {"saving", "writing", "saved", "ended", "opening", "loading", "failed",
                    "registering", "initializing", "running", "crashed"}
    OBVIOUS
  <2> QED
    BY <1>1, <2>1 DEF TypeOK, saveVars
<1>4. LoadingInv' /\ PhaseInv'
  BY DEF LoadingInv, PhaseInv
<1>5. WholeFileLoads' /\ FactsCreatedOnce'
  BY <1>2 DEF WholeFileLoads, FactsCreatedOnce
<1> QED
  BY <1>2, <1>3, <1>4, <1>5 DEF Inv

LEMMA DoNotTestInv ==
  ASSUME Inv, DoNotTest
  PROVE  Inv'
<1>1. TypeOK /\ PhaseInv
  BY DEF Inv
<1>2. /\ phase = "saved" /\ phase' = "ended"
      /\ UNCHANGED <<ruleset, section, who, saveVars, loadVars>>
  BY DEF DoNotTest
<1>3. source = "none" /\ source' = "none"
  BY <1>1, <1>2 DEF PhaseInv, loadVars
<1>4. LoadedInv'
  BY <1>2, <1>3 DEF LoadedInv
<1>5. who' \in {"dresc", "daemon"} /\ (who' = "daemon" => created' = <<>>)
  BY <1>1, <1>2 DEF TypeOK, PhaseInv, loadVars
<1>6. UNCHANGED <<load, got>>
  BY <1>2 DEF loadVars
<1> QED
  BY <1>2, <1>3, <1>4, <1>5, <1>6, PhaseStep

LEMMA StartDaemonInv ==
  ASSUME Inv, StartDaemon
  PROVE  Inv'
<1>1. /\ who' = "daemon" /\ phase' = "opening" /\ created' = <<>> /\ source' = "none"
      /\ UNCHANGED <<ruleset, section, saveVars, load, got>>
  BY DEF StartDaemon
<1>2. LoadedInv'
  BY <1>1 DEF LoadedInv
<1> QED
  BY <1>1, <1>2, PhaseStep

LEMMA TestInv ==
  ASSUME Inv, Test
  PROVE  Inv'
<1>1. TypeOK /\ PhaseInv
  BY DEF Inv
<1>2. /\ phase = "saved" /\ phase' = "opening"
      /\ UNCHANGED <<ruleset, section, who, saveVars, loadVars>>
  BY DEF Test
<1>3. source = "none" /\ source' = "none"
  BY <1>1, <1>2 DEF PhaseInv, loadVars
<1>4. LoadedInv'
  BY <1>2, <1>3 DEF LoadedInv
<1>5. who' \in {"dresc", "daemon"} /\ (who' = "daemon" => created' = <<>>)
  BY <1>1, <1>2 DEF TypeOK, PhaseInv, loadVars
<1>6. UNCHANGED <<load, got>>
  BY <1>2 DEF loadVars
<1> QED
  BY <1>2, <1>3, <1>4, <1>5, <1>6, PhaseStep

LEMMA OpenFailsInv ==
  ASSUME Inv, OpenFails
  PROVE  Inv'
<1>1. TypeOK /\ PhaseInv
  BY DEF Inv
<1>2. /\ phase = "opening" /\ file = NoFile /\ phase' = "failed"
      /\ UNCHANGED <<ruleset, section, who, saveVars, loadVars>>
  BY DEF OpenFails
<1>3. source = "none" /\ source' = "none"
  BY <1>1, <1>2 DEF PhaseInv, loadVars
<1>4. LoadedInv'
  BY <1>2, <1>3 DEF LoadedInv
<1>5. who' \in {"dresc", "daemon"} /\ (who' = "daemon" => created' = <<>>)
  BY <1>1, <1>2 DEF TypeOK, PhaseInv, loadVars
<1>6. UNCHANGED <<load, got>> /\ ~Whole
  BY <1>2 DEF loadVars, Whole
<1> QED
  BY <1>2, <1>3, <1>4, <1>5, <1>6, PhaseStep

LEMMA OpenInv ==
  ASSUME Inv, Open
  PROVE  Inv'
<1>1. TypeOK /\ PhaseInv /\ FileInv
  BY DEF Inv
<1>2. /\ phase = "opening" /\ file # NoFile /\ got' = EmptyRuleset /\ section' = 1
      /\ phase' = "loading" /\ UNCHANGED <<ruleset, who, saveVars, source, created>>
  BY DEF Open
<1>3. PICK e \in BOOLEAN : load' = OpenBuffer(file, e)
  BY DEF Open
<1>4. source = "none" /\ source' = "none"
  BY <1>1, <1>2 DEF PhaseInv
<1>5. BufferInv' /\ SavingInv' /\ FileInv'
  BY <1>2, SavedStays
<1>6. ruleset \in Rules /\ file' = file /\ ruleset' = ruleset
  BY <1>1, <1>2, RulesetIs DEF TypeOK, saveVars
<1>7. TypeOK'
  <2>1. section' \in DOMAIN Sections
    BY <1>2, SectionsAre
  <2>2. DOMAIN got' = DOMAIN EmptyRuleset
    BY <1>2
  <2> QED
    BY <1>1, <1>2, <2>1, <2>2 DEF TypeOK, saveVars
<1>8. LoadingInv'
  <2>1. Loading(ruleset, file, load', 0, e)
    BY <1>1, <1>2, <1>3, <1>6, OpenAt DEF FileInv, Text
  <2>2. load'.errno = e
    BY <2>1, LoadingIs
  <2>3. section' - 1 = 0 /\ \A s \in 1 .. 5 : ~(s < section')
    BY <1>2
  <2>4. Loading(ruleset', file', load', section' - 1, load'.errno)
    BY <1>6, <2>1, <2>2, <2>3
  <2> QED
    BY <1>2, <1>3, <1>6, <2>2, <2>3, <2>4 DEF LoadingInv
<1>9. LoadedInv'
  BY <1>2, <1>4 DEF LoadedInv
<1>10. PhaseInv'
  BY <1>1, <1>2, <1>4 DEF PhaseInv
<1>11. WholeFileLoads' /\ FactsCreatedOnce'
  BY <1>2, <1>4 DEF WholeFileLoads, FactsCreatedOnce
<1> QED
  BY <1>5, <1>7, <1>8, <1>9, <1>10, <1>11 DEF Inv

(* If errno was set, or if there are methods, the file goes as far as the  *)
(* methods; nothing fails in a whole file.                                 *)
LEMMA LoadSectionInv ==
  ASSUME Inv, LoadSection
  PROVE  Inv'
<1>1. TypeOK /\ PhaseInv /\ FileInv /\ LoadingInv
  BY DEF Inv
<1>2. PICK s \in 1 .. 5 : s = section
  BY <1>1, SectionsAre DEF TypeOK
<1>3. PICK sec \in SecNames : sec = Sections[s]
  BY SectionsAre
<1>4. PICK x : x = ReadSection(sec, load)
  OBVIOUS
<1>5. PICK failed \in BOOLEAN :
        failed <=> x.b.failed \/ (sec \in ReportsErrors /\ x.b.error)
  OBVIOUS
<1>6. /\ phase = "loading" /\ load' = x.b /\ got' = [got EXCEPT ![sec] = x.v]
      /\ section' = IF s = 5 THEN 1 ELSE s + 1
      /\ phase' = CASE failed              -> "failed"
                    [] ~failed /\ s = 5    -> "registering"
                    [] OTHER               -> "loading"
      /\ UNCHANGED <<ruleset, who, saveVars, source, created>>
  BY <1>2, <1>3, <1>4, <1>5, SectionsAre DEF LoadSection
<1>7. /\ failed => phase' = "failed"
      /\ ~failed /\ s = 5 => phase' = "registering"
      /\ ~failed /\ s # 5 => phase' = "loading"
  BY <1>6
<1>8. source = "none" /\ source' = "none"
  BY <1>1, <1>6 DEF PhaseInv
<1>9. /\ ruleset \in Rules /\ Builtins # {} /\ file' = file /\ ruleset' = ruleset
  BY <1>1, <1>6, RulesetIs DEF TypeOK, saveVars
<1>10. PICK e \in BOOLEAN : e = load.errno
  BY <1>1, <1>6 DEF LoadingInv
<1>11. IsText(Text) /\ file # NoFile
  BY <1>1, <1>6 DEF FileInv, LoadingInv
<1>12. /\ Loading(ruleset, file, x.b, s, e)
       /\ HeldTo(s) => x.v = SectionRead(sec, ruleset)
  <2>1. Loading(ruleset, file, load, s - 1, e)
    BY <1>1, <1>2, <1>6, <1>10 DEF LoadingInv
  <2> QED
    BY <1>3, <1>4, <1>9, <1>11, <2>1, SectionLoaded DEF Text, HeldTo
<1>13. \A n \in 0 .. 5 : HeldTo(n) <=> HeldTo(n)'
  BY <1>9 DEF HeldTo
<1>14. \A n \in 1 .. 5 : n < s /\ HeldTo(n) => Right(n)
  BY <1>1, <1>2, <1>6 DEF LoadingInv
<1>15. ASSUME NEW n \in 1 .. 5, n <= s, HeldTo(n)'
       PROVE  Right(n)'
  <2>1. HeldTo(n)
    BY <1>13, <1>15
  <2>2. sec \in DOMAIN got /\ Sections[n] \in DOMAIN got
    <3>1. DOMAIN EmptyRuleset = SecNames
      BY DEF EmptyRuleset, SecNames
    <3> QED
      BY <1>1, <3>1, SectionsAre DEF TypeOK
  <2>3. CASE n = s
    <3>1. got'[sec] = SectionRead(sec, ruleset)
      BY <1>6, <1>12, <2>1, <2>2, <2>3
    <3> QED
      BY <1>3, <1>9, <2>3, <3>1 DEF Right
  <2>4. CASE n # s
    <3>1. n < s
      BY <1>15, <2>4
    <3>2. got[Sections[n]] = SectionRead(Sections[n], ruleset)
      BY <1>14, <2>1, <3>1 DEF Right
    <3>3. Sections[n] # sec
      BY <1>3, <2>4, SectionsAre
    <3>4. got'[Sections[n]] = got[Sections[n]]
      BY <1>6, <2>2, <3>3
    <3> QED
      BY <1>9, <3>2, <3>4 DEF Right
  <2> QED
    BY <2>3, <2>4
<1>16. BufferInv' /\ SavingInv' /\ FileInv' /\ (Whole <=> Whole')
  <2>1. phase' \notin {"saving", "writing"}
    BY <1>7
  <2> QED
    BY <1>6, <2>1, SavedStays
<1>17. TypeOK'
  <2>1. phase' \in {"saving", "writing", "saved", "ended", "opening", "loading", "failed",
                    "registering", "initializing", "running", "crashed"}
    BY <1>7
  <2>2. section' \in DOMAIN Sections
    BY <1>6, SectionsAre
  <2>3. DOMAIN got' = DOMAIN EmptyRuleset
    BY <1>1, <1>6 DEF TypeOK
  <2> QED
    BY <1>1, <1>6, <2>1, <2>2, <2>3 DEF TypeOK, saveVars
<1>18. LoadingInv'
  <2> SUFFICES ASSUME phase' = "loading" PROVE LoadingInv'
    BY DEF LoadingInv
  <2>1. s # 5 /\ section' = s + 1
    BY <1>6, <1>7
  <2>2. load'.errno = e /\ Loading(ruleset', file', load', section' - 1, load'.errno)
    <3>1. load'.errno = e
      BY <1>6, <1>12, LoadingIs
    <3>2. section' - 1 = s
      BY <2>1
    <3> QED
      BY <1>6, <1>9, <1>12, <3>1, <3>2
  <2>3. \A n \in 1 .. 5 : n < section' /\ HeldTo(n)' => Right(n)'
    <3> TAKE n \in 1 .. 5
    <3>1. n < section' => n <= s
      BY <2>1
    <3> QED
      BY <1>15, <3>1
  <2> QED
    BY <1>9, <1>10, <1>11, <2>2, <2>3 DEF LoadingInv
<1>19. LoadedInv'
  <2> SUFFICES ASSUME phase' = "registering" PROVE LoadedInv'
    BY <1>7, <1>8 DEF LoadedInv
  <2>1. s = 5 /\ ~failed /\ sec = "methods"
    BY <1>3, <1>7, SectionsAre
  <2>2. \A n \in 1 .. 5 : HeldTo(n)' => Right(n)'
    <3> TAKE n \in 1 .. 5
    <3>1. n <= s
      BY <2>1
    <3> QED
      BY <1>15, <3>1
  <2>3. load'.errno \/ got'.methods # <<>> => HeldTo(4)'
    <3> SUFFICES ASSUME ~HeldTo(4) PROVE ~load'.errno /\ got'.methods = <<>>
      BY <1>13
    <3>1. Loading(ruleset, file, load, 4, e)
      <4>1. section - 1 = 4
        BY <1>2, <2>1
      <4> QED
        BY <1>1, <1>6, <1>10, <4>1 DEF LoadingInv
    <3>2. Past(load, e)
      BY <3>1, LoadingIs DEF HeldTo
    <3>3. x.v = <<>> /\ (e => x.b.failed)
      BY <1>4, <2>1, <3>2, NoMethods
    <3>4. ~e
      BY <1>5, <2>1, <3>3
    <3>5. load'.errno = e
      BY <1>6, <1>12, LoadingIs
    <3>6. "methods" \in DOMAIN got
      BY <1>1 DEF TypeOK, EmptyRuleset
    <3>7. got'.methods = <<>>
      BY <1>6, <2>1, <3>3, <3>6
    <3> QED
      BY <3>4, <3>5, <3>7
  <2> QED
    BY <1>9, <1>11, <2>2, <2>3 DEF LoadedInv
<1>20. PhaseInv'
  BY <1>1, <1>6, <1>7, <1>8 DEF PhaseInv
<1>21. Whole => ~failed
  <2> SUFFICES ASSUME Whole PROVE ~failed
    OBVIOUS
  <2>1. HeldTo(5)
    BY <1>1, <1>11 DEF FileInv
  <2>2. HeldTo(s)
    BY <1>9, <1>11, <2>1, SectionsHeld DEF HeldTo, Text
  <2>3. ~x.b.error /\ ~x.b.failed
    BY <1>12, <2>2, LoadingIs DEF HeldTo
  <2> QED
    BY <1>5, <2>3
<1>22. WholeFileLoads' /\ FactsCreatedOnce'
  <2>1. phase' \notin {"crashed", "running"} /\ (Whole' => phase' # "failed")
    BY <1>7, <1>16, <1>21
  <2> QED
    BY <1>8, <2>1 DEF WholeFileLoads, FactsCreatedOnce
<1> QED
  BY <1>16, <1>17, <1>18, <1>19, <1>20, <1>22 DEF Inv

LEMMA RegisterBuiltinsInv ==
  ASSUME Inv, RegisterBuiltins
  PROVE  Inv'
<1>1. TypeOK /\ PhaseInv /\ FileInv /\ LoadedInv
  BY DEF Inv
<1>2. PICK there \in BOOLEAN : there <=> Builtins \subseteq ToSet(got.methods)
  OBVIOUS
<1>3. /\ phase = "registering" /\ phase' = IF there THEN "initializing" ELSE "crashed"
      /\ UNCHANGED <<ruleset, section, who, saveVars, loadVars>>
  BY <1>2 DEF RegisterBuiltins
<1>4. /\ UNCHANGED <<load, got, source, created>>
      /\ phase' \in {"initializing", "crashed"} /\ file' = file /\ ruleset' = ruleset
  BY <1>3 DEF loadVars, saveVars
<1>5. source = "none" /\ source' = "none"
  BY <1>1, <1>3, <1>4 DEF PhaseInv
<1>6. BufferInv' /\ SavingInv' /\ FileInv' /\ (Whole <=> Whole')
  BY <1>3, <1>4, SavedStays
<1>7. TypeOK'
  BY <1>1, <1>3, <1>4 DEF TypeOK, saveVars
<1>8. LoadingInv'
  BY <1>4 DEF LoadingInv
<1>9. LoadedInv'
  <2>1. \A n \in 0 .. 5 : HeldTo(n) <=> HeldTo(n)'
    BY <1>4 DEF HeldTo
  <2>2. \A n \in 1 .. 5 : Right(n) <=> Right(n)'
    BY <1>4 DEF Right
  <2>3. \A n \in 1 .. 5 : HeldTo(n)' => Right(n)'
    BY <1>1, <1>3, <2>1, <2>2 DEF LoadedInv
  <2>4. load'.errno \/ got'.methods # <<>> => HeldTo(4)'
    BY <1>1, <1>3, <1>4, <2>1 DEF LoadedInv
  <2>5. file' # NoFile
    BY <1>1, <1>3, <1>4 DEF LoadedInv
  <2> QED
    BY <2>3, <2>4, <2>5 DEF LoadedInv
<1>10. PhaseInv'
  <2>1. phase' = "initializing" => Builtins \subseteq ToSet(got'.methods)
    BY <1>2, <1>3, <1>4
  <2> QED
    BY <1>1, <1>3, <1>4, <1>5, <2>1 DEF PhaseInv
<1>11. Whole => there
  <2> SUFFICES ASSUME Whole PROVE there
    OBVIOUS
  <2>1. HeldTo(5)
    BY <1>1, <1>3 DEF FileInv, LoadedInv
  <2>2. got.methods = ruleset.methods
    BY <1>1, <1>3, <2>1, SectionsAre DEF LoadedInv, Right, SectionRead
  <2>3. Builtins \subseteq ToSet(ruleset.methods)
    BY <1>1, RulesetIs DEF TypeOK
  <2> QED
    BY <1>2, <2>2, <2>3
<1>12. WholeFileLoads' /\ FactsCreatedOnce'
  <2>1. phase' # "failed" /\ phase' # "running" /\ (Whole' => phase' # "crashed")
    BY <1>3, <1>4, <1>6, <1>11
  <2> QED
    BY <1>5, <2>1 DEF WholeFileLoads, FactsCreatedOnce
<1> QED
  BY <1>6, <1>7, <1>8, <1>9, <1>10, <1>12 DEF Inv

LEMMA NothingBefore ==
  ASSUME NEW N \in Nat, NEW f, f = [i \in 1 .. N |-> f[i]]
  PROVE  <<>> \o f = f
<1> DEFINE S == {f[i] : i \in 1 .. N}
<1>1. f \in Seq(S)
  BY DEF S
<1> QED
  BY <1>1

(* There are the builtins, so the file goes as far as the methods and the  *)
(* initializers are complete.                                              *)
LEMMA InitializeVariablesInv ==
  ASSUME Inv, InitializeVariables
  PROVE  Inv'
<1>1. TypeOK /\ PhaseInv /\ FileInv /\ LoadedInv
  BY DEF Inv
<1>2. /\ phase = "initializing"
      /\ UNCHANGED <<ruleset, section, who, saveVars, load, got>>
  BY DEF InitializeVariables
<1>3. ruleset \in Rules /\ Builtins # {} /\ IsText(Text) /\ file # NoFile
  BY <1>1, <1>2, RulesetIs DEF TypeOK, FileInv, LoadedInv
<1>4. HeldTo(4)
  <2>1. Builtins \subseteq ToSet(got.methods)
    BY <1>1, <1>2 DEF PhaseInv
  <2>2. got.methods # <<>>
    <3>1. ToSet(<<>>) = {}
      BY DEF ToSet
    <3> QED
      BY <1>3, <2>1, <3>1
  <2> QED
    BY <1>1, <1>2, <2>2 DEF LoadedInv
<1>5. HeldTo(2)
  <2>1. 2 \in 0 .. 5 /\ 4 \in 0 .. 5 /\ 2 <= 4
    OBVIOUS
  <2> QED
    BY <1>3, <1>4, <2>1, SectionsHeld DEF HeldTo, Text
<1>6. /\ got.factvars = ruleset.factvars
      /\ got.initializers = SectionRead("initializers", ruleset)
  <2>1. Right(2) /\ Right(4)
    BY <1>1, <1>2, <1>4, <1>5 DEF LoadedInv
  <2>2. got["factvars"] = SectionRead("factvars", ruleset)
        /\ got["initializers"] = SectionRead("initializers", ruleset)
    BY <2>1, SectionsAre DEF Right
  <2> QED
    BY <2>2 DEF SectionRead
<1>7. /\ \A i \in DOMAIN got.initializers : Complete(got.initializers[i])
      /\ CreatedBy(got) = FactNames(ruleset, ruleset.initializers)
  BY <1>3, <1>6, CreatedAsSaved
<1>8. /\ created' = created \o FactNames(ruleset, ruleset.initializers)
      /\ source' = "file"
      /\ who = "dresc" => phase' = "ended"
      /\ who # "dresc" => phase' = "running"
  BY <1>7 DEF InitializeVariables
<1>9. phase' \in {"ended", "running"} /\ (phase' = "running" <=> who = "daemon")
  BY <1>1, <1>8 DEF TypeOK
<1>10. file' = file /\ ruleset' = ruleset /\ who' = who /\ load' = load /\ got' = got
  BY <1>2 DEF saveVars
<1>11. BufferInv' /\ SavingInv' /\ FileInv' /\ (Whole <=> Whole')
  BY <1>2, <1>9, SavedStays
<1>12. TypeOK'
  BY <1>1, <1>2, <1>8, <1>9 DEF TypeOK, saveVars
<1>13. LoadingInv'
  BY <1>9 DEF LoadingInv
<1>14. LoadedInv'
  <2>1. \A n \in 0 .. 5 : HeldTo(n) <=> HeldTo(n)'
    BY <1>10 DEF HeldTo
  <2>2. \A n \in 1 .. 5 : Right(n) <=> Right(n)'
    BY <1>10 DEF Right
  <2>3. \A n \in 1 .. 5 : HeldTo(n)' => Right(n)'
    BY <1>1, <1>2, <2>1, <2>2 DEF LoadedInv
  <2>4. HeldTo(4)' /\ file' # NoFile
    BY <1>3, <1>4, <1>10, <2>1
  <2> QED
    BY <2>3, <2>4 DEF LoadedInv
<1>15. PhaseInv'
  BY <1>1, <1>8, <1>9, <1>10 DEF PhaseInv
<1>16. FactsCreatedOnce'
  <2> SUFFICES ASSUME phase' = "running"
               PROVE  created' = FactNames(ruleset, ruleset.initializers)
    BY <1>10 DEF FactsCreatedOnce
  <2>1. created = <<>>
    BY <1>1, <1>2, <1>9 DEF PhaseInv
  <2>2. PICK names : names = FactNames(ruleset, ruleset.initializers)
    OBVIOUS
  <2>3. <<>> \o names = names
    <3>1. PICK n \in Nat : n = Len(ruleset.initializers) /\ DOMAIN ruleset.initializers = 1 .. n
      <4>1. ruleset.initializers \in Seq(Initializer)
        BY <1>3, RulesAre
      <4> QED
        BY <4>1
    <3>2. names = [i \in 1 .. n |-> names[i]]
      BY <2>2, <3>1 DEF FactNames
    <3> QED
      BY <3>2, NothingBefore
  <2> QED
    BY <1>8, <2>1, <2>2, <2>3
<1>17. WholeFileLoads'
  BY <1>8, <1>9 DEF WholeFileLoads
<1> QED
  BY <1>11, <1>12, <1>13, <1>14, <1>15, <1>16, <1>17 DEF Inv

LEMMA LoadFailsInv ==
  ASSUME Inv, LoadFails
  PROVE  Inv'
<1>1. TypeOK /\ PhaseInv /\ WholeFileLoads
  BY DEF Inv
<1>2. phase = "failed" /\ UNCHANGED <<ruleset, section, who, saveVars, load>>
  BY DEF LoadFails
<1>3. source = "none" /\ ~Whole
  BY <1>1, <1>2 DEF PhaseInv, WholeFileLoads
<1>4. CASE who = "dresc"
  <2>1. phase' = "ended" /\ UNCHANGED <<got, source, created>>
    BY <1>4 DEF LoadFails
  <2>2. LoadedInv'
    BY <1>3, <2>1 DEF LoadedInv
  <2>3. who' \in {"dresc", "daemon"} /\ who' # "daemon"
    BY <1>2, <1>4
  <2> QED
    BY <1>2, <1>3, <2>1, <2>2, <2>3, PhaseStep
<1>5. CASE who # "dresc"
  <2>1. /\ phase' = "running" /\ got' = ruleset /\ source' = "text"
        /\ created' = created \o FactNames(ruleset, ruleset.initializers)
    BY <1>5 DEF LoadFails
  <2>2. who = "daemon" /\ who' = "daemon" /\ created = <<>> /\ ruleset \in Rules
        /\ ruleset' = ruleset
    BY <1>1, <1>2, <1>5, RulesetIs DEF TypeOK, PhaseInv
  <2>3. BufferInv' /\ SavingInv' /\ FileInv' /\ (Whole <=> Whole')
    BY <1>2, <2>1, SavedStays
  <2>4. TypeOK'
    <3>1. DOMAIN got' = DOMAIN EmptyRuleset
      BY <2>1, <2>2, RulesAre DEF EmptyRuleset
    <3> QED
      BY <1>1, <1>2, <2>1, <2>2, <3>1 DEF TypeOK, saveVars
  <2>5. LoadingInv' /\ LoadedInv'
    BY <2>1, NothingLoaded
  <2>6. PhaseInv'
    BY <2>1, <2>2 DEF PhaseInv
  <2>7. FactsCreatedOnce'
    <3>1. PICK names : names = FactNames(ruleset, ruleset.initializers)
      OBVIOUS
    <3>2. <<>> \o names = names
      <4>1. PICK n \in Nat : n = Len(ruleset.initializers) /\ DOMAIN ruleset.initializers = 1 .. n
        <5>1. ruleset.initializers \in Seq(Initializer)
          BY <2>2, RulesAre
        <5> QED
          BY <5>1
      <4>2. names = [i \in 1 .. n |-> names[i]]
        BY <3>1, <4>1 DEF FactNames
      <4> QED
        BY <4>2, NothingBefore
    <3> QED
      BY <2>1, <2>2, <3>1, <3>2 DEF FactsCreatedOnce
  <2>8. WholeFileLoads'
    BY <1>3, <2>1, <2>3 DEF WholeFileLoads
  <2> QED
    BY <2>3, <2>4, <2>5, <2>6, <2>7, <2>8 DEF Inv
<1> QED
  BY <1>4, <1>5

LEMMA StayInv ==
  ASSUME Inv, UNCHANGED vars
  PROVE  Inv'
<1>1. /\ ruleset' = ruleset /\ phase' = phase /\ section' = section /\ who' = who
      /\ buf' = buf /\ file' = file /\ status' = status
      /\ load' = load /\ got' = got /\ source' = source /\ created' = created
  BY DEF vars, saveVars, loadVars
<1>2. TypeOK' /\ BufferInv' /\ PhaseInv'
  BY <1>1 DEF Inv, TypeOK, BufferInv, PhaseInv
<1>3. SavingInv'
  BY <1>1 DEF Inv, SavingInv
<1>4. /\ Text' = Text /\ (Whole <=> Whole') /\ (\A n \in 0 .. 5 : HeldTo(n) <=> HeldTo(n)')
      /\ \A n \in 1 .. 5 : Right(n) <=> Right(n)'
  BY <1>1 DEF Text, Whole, Cut, HeldTo, Right
<1>5. FileInv'
  BY <1>1, <1>4 DEF Inv, FileInv
<1>6. LoadingInv'
  BY <1>1, <1>4 DEF Inv, LoadingInv
<1>7. LoadedInv'
  BY <1>1, <1>4 DEF Inv, LoadedInv
<1>8. WholeFileLoads' /\ FactsCreatedOnce'
  BY <1>1, <1>4 DEF Inv, WholeFileLoads, FactsCreatedOnce
<1> QED
  BY <1>2, <1>3, <1>5, <1>6, <1>7, <1>8 DEF Inv

(* No step of dresc or of the daemon leaves the invariant. *)
LEMMA NextInv ==
  ASSUME Inv, [Next]_vars
  PROVE  Inv'
<1>1. CASE SaveSection
  BY <1>1, SaveSectionInv
<1>2. CASE SaveAgain
  BY <1>2, SaveAgainInv
<1>3. CASE GiveUp
  BY <1>3, GiveUpInv
<1>4. CASE WriteFile
  BY <1>4, WriteFileInv
<1>5. CASE DoNotTest
  BY <1>5, DoNotTestInv
<1>6. CASE StartDaemon
  BY <1>6, StartDaemonInv
<1>7. CASE Test
  BY <1>7, TestInv
<1>8. CASE Open
  BY <1>8, OpenInv
<1>9. CASE OpenFails
  BY <1>9, OpenFailsInv
<1>10. CASE LoadSection
  BY <1>10, LoadSectionInv
<1>11. CASE RegisterBuiltins
  BY <1>11, RegisterBuiltinsInv
<1>12. CASE InitializeVariables
  BY <1>12, InitializeVariablesInv
<1>13. CASE LoadFails
  BY <1>13, LoadFailsInv
<1>14. CASE Stay \/ UNCHANGED vars
  BY <1>14, StayInv DEF Stay
<1> QED
  BY <1>1, <1>2, <1>3, <1>4, <1>5, <1>6, <1>7, <1>8, <1>9, <1>10, <1>11, <1>12, <1>13, <1>14
     DEF Next

(* What the buffer, the file and the loader hold of the ruleset is right   *)
(* in every state: writer and reader agree word for word on the layout of  *)
(* the file, and the header pays for all that the reader allocates         *)
(* (dres_save, dres_load and the functions of dres_buf_t).                 *)
THEOREM SaveLoadInductive == Spec => []Inv
<1>1. Init => Inv
  BY InitInv
<1>2. Inv /\ [Next]_vars => Inv'
  BY NextInv
<1> QED
  BY <1>1, <1>2, PTL DEF Spec

(* The variables keep their kinds, and neither the words nor the strings   *)
(* go past the buffer that dres_save has allocated (dres_buf_alloc).       *)
THEOREM SaveLoadTypes == Spec => []TypeOK
<1>1. Inv => TypeOK
  BY DEF Inv
<1> QED
  BY <1>1, SaveLoadInductive, PTL

(* A ruleset that is loaded from a whole file is the one that was saved:   *)
(* every target, variable, initializer and method.                         *)
LEMMA LoadedIsSavedInv ==
  ASSUME Inv
  PROVE  LoadedIsSaved
<1>1. TypeOK /\ LoadedInv /\ FileInv /\ WholeFileLoads
  BY DEF Inv
<1> SUFFICES ASSUME Whole, source # "none" PROVE SameBut(ruleset, got, {})
  BY DEF LoadedIsSaved
<1>2. source = "file"
  BY <1>1 DEF WholeFileLoads, TypeOK
<1>3. ruleset \in Rules /\ IsText(Text) /\ HeldTo(5)
  BY <1>1, <1>2, RulesetIs DEF TypeOK, FileInv, LoadedInv
<1>4. \A s \in 1 .. 5 : Right(s)
  <2> TAKE s \in 1 .. 5
  <2>1. HeldTo(s)
    BY <1>3, SectionsHeld DEF HeldTo, Text
  <2> QED
    BY <1>1, <1>2, <2>1 DEF LoadedInv
<1>5. \A sec \in SecNames \ {} : got[sec] = SectionRead(sec, ruleset)
  BY <1>4, SectionsAre DEF Right, SecNames
<1> QED
  BY <1>3, <1>5, SameWhatIsRead

THEOREM LoadedIsTheSaved == Spec => []LoadedIsSaved
BY SaveLoadInductive, LoadedIsSavedInv, PTL

(* A whole file always loads: no section fails, no builtin is missing and  *)
(* the daemon does not fall back on the text (dres_load, dres_open).       *)
THEOREM WholeFilesLoad == Spec => []WholeFileLoads
<1>1. Inv => WholeFileLoads
  BY DEF Inv
<1> QED
  BY <1>1, SaveLoadInductive, PTL

LEMMA ShortFileIsRefusedInv ==
  ASSUME Inv
  PROVE  ShortFileIsRefused
<1>1. TypeOK /\ LoadedInv /\ FileInv
  BY DEF Inv
<1> SUFFICES ASSUME load.errno, source = "file" \/ phase = "crashed"
             PROVE  SameBut(ruleset, got, {"methods"})
  BY DEF ShortFileIsRefused
<1>2. ruleset \in Rules /\ IsText(Text) /\ HeldTo(4)
  BY <1>1, RulesetIs DEF TypeOK, FileInv, LoadedInv
<1>3. \A s \in 1 .. 4 : Right(s)
  <2> TAKE s \in 1 .. 4
  <2>1. HeldTo(s)
    <3>1. s \in 0 .. 5 /\ 4 \in 0 .. 5 /\ s <= 4
      OBVIOUS
    <3> QED
      BY <1>2, <3>1, SectionsHeld DEF HeldTo, Text
  <2>2. s \in 1 .. 5
    OBVIOUS
  <2> QED
    BY <1>1, <2>1, <2>2 DEF LoadedInv
<1>4. \A sec \in SecNames \ {"methods"} : got[sec] = SectionRead(sec, ruleset)
  BY <1>3, SectionsAre DEF Right, SecNames
<1> QED
  BY <1>2, <1>4, SameWhatIsRead

(* A file that ends early is refused if errno was set when it was opened,  *)
(* unless it only lacks methods: its missing words read as 0, but then the *)
(* section or the next allocation fails (dres_buf_alloc, its readers).     *)
THEOREM ShortFilesRefused == Spec => []ShortFileIsRefused
BY SaveLoadInductive, ShortFileIsRefusedInv, PTL

(* A running daemon has created the fact of each initializer exactly once, *)
(* whether it took the file or, after that was refused, the text           *)
(* (initialize_variables, dres_open).                                      *)
THEOREM CreatedOnce == Spec => []FactsCreatedOnce
<1>1. Inv => FactsCreatedOnce
  BY DEF Inv
<1> QED
  BY <1>1, SaveLoadInductive, PTL

================================================================================
