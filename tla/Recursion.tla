-------------------------------- MODULE Recursion --------------------------------
(***************************************************************************)
(* What is needed to prove something of data of any depth or length: the   *)
(* recursive definitions of module Compiler define what they say.  The     *)
(* operators are parameters of the module, for which its instances have    *)
(* those of the compiler.                                                  *)
(***************************************************************************)
EXTENDS Naturals, WellFoundedInduction, TLAPS

CONSTANTS
  Base,        \* the trees of depth 0
  Step(_),     \* the trees whose subtrees are in a set, those of depth 0 among them
  Body(_, _),  \* the value of a tree, given a function with the values of its subtrees
  Good(_)      \* what is to be proved of the values

(* Induction. *)
LEMMA Induction ==
  ASSUME NEW S, 0 \in S, \A n \in Nat : n \in S => n + 1 \in S
  PROVE  Nat \subseteq S
<1> SUFFICES ASSUME NEW m \in Nat, m \notin S PROVE FALSE
  OBVIOUS
<1> DEFINE R == {ss \in Nat \X Nat : ss[1] < ss[2]}
           T == Nat \ S
<1>1. IsWellFoundedOn(R, Nat)
  BY NatLessThanWellFounded DEF OpToRel
<1>2. PICK n \in T : \A j \in T : ~(<<j, n>> \in R)
  <2>1. T \subseteq Nat /\ m \in T
    OBVIOUS
  <2> HIDE DEF R, T
  <2> QED
    BY <1>1, <2>1, WFMin
<1>3. \A j \in Nat : j < n => j \in S
  BY <1>2
<1>4. n \in Nat /\ n # 0 /\ n \notin S
  OBVIOUS
<1> QED
  BY <1>3, <1>4

(* A function of the naturals can be defined by recursion. *)
IsLevels(l, D) == l = [n \in D |-> IF n = 0 THEN Base ELSE Step(l[n - 1])]

LEMMA LevelsExist == \E l : IsLevels(l, Nat)
<1> DEFINE Upto(n, l) == IsLevels(l, 0 .. n)
           S == {n \in Nat : \E l : Upto(n, l)}
<1>1. 0 \in S
  <2>1. Upto(0, [n \in 0 .. 0 |-> Base])
    BY DEF IsLevels
  <2> QED
    BY <2>1
<1>2. ASSUME NEW n \in Nat, n \in S PROVE n + 1 \in S
  <2>1. PICK l : Upto(n, l)
    BY <1>2
  <2> DEFINE k == [i \in 0 .. (n + 1) |-> IF i = 0 THEN Base ELSE Step(l[i - 1])]
  <2>2. ASSUME NEW i \in 0 .. n PROVE k[i] = l[i]
    BY <2>1 DEF IsLevels
  <2>3. ASSUME NEW i \in 0 .. (n + 1), i # 0 PROVE k[i - 1] = l[i - 1]
    <3>1. i - 1 \in 0 .. n
      BY <2>3
    <3> QED
      BY <2>2, <3>1
  <2>4. Upto(n + 1, k)
    BY <2>3 DEF IsLevels
  <2> QED
    BY <2>4
<1>3. Nat \subseteq S
  BY <1>1, <1>2, Induction
<1> DEFINE g(n) == CHOOSE l : Upto(n, l)
<1>4. ASSUME NEW n \in Nat PROVE Upto(n, g(n))
  BY <1>3
<1>5. ASSUME NEW n \in Nat PROVE g(n + 1)[n] = g(n)[n]
  <2> DEFINE E == {i \in Nat : i <= n => g(n + 1)[i] = g(n)[i]}
  <2>1. Upto(n, g(n)) /\ Upto(n + 1, g(n + 1))
    BY <1>4
  <2> HIDE DEF g
  <2>2. 0 \in E
    BY <2>1 DEF IsLevels
  <2>3. ASSUME NEW i \in Nat, i \in E PROVE i + 1 \in E
    BY <2>1, <2>3 DEF IsLevels
  <2>4. Nat \subseteq E
    BY <2>2, <2>3, Induction
  <2> QED
    BY <2>4
<1> DEFINE f == [n \in Nat |-> g(n)[n]]
<1>6. ASSUME NEW n \in Nat, n # 0 PROVE g(n)[n] = Step(f[n - 1])
  <2>1. n - 1 \in Nat /\ (n - 1) + 1 = n
    BY <1>6
  <2>2. g(n)[n - 1] = g(n - 1)[n - 1]
    BY <1>5, <2>1
  <2>3. g(n)[n] = Step(g(n)[n - 1])
    <3>1. Upto(n, g(n)) /\ n \in 0 .. n
      BY <1>4
    <3> HIDE DEF g
    <3> QED
      BY <1>6, <3>1 DEF IsLevels
  <2> QED
    BY <2>1, <2>2, <2>3
<1>7. g(0)[0] = Base
  <2>1. 0 \in Nat /\ 0 \in 0 .. 0
    OBVIOUS
  <2> HIDE DEF g
  <2>2. Upto(0, g(0))
    <3> HIDE DEF Upto
    <3> QED
      BY <1>4, <2>1
  <2> QED
    BY <2>1, <2>2 DEF IsLevels
<1>8. IsLevels(f, Nat)
  <2>1. ASSUME NEW n \in Nat PROVE f[n] = IF n = 0 THEN Base ELSE Step(f[n - 1])
    <3>1. f[n] = g(n)[n]
      OBVIOUS
    <3> HIDE DEF f, g
    <3> QED
      BY <1>6, <1>7, <3>1
  <2>2. f = [n \in Nat |-> f[n]]
    OBVIOUS
  <2> HIDE DEF f
  <2> QED
    BY <2>1, <2>2 DEF IsLevels
<1> QED
  BY <1>8

(* The trees of some depth are among those of every larger one. *)
LEMMA Increasing ==
  ASSUME NEW l, IsLevels(l, Nat),
         \A S, T : S \subseteq T => Step(S) \subseteq Step(T),
         \A S : Base \subseteq Step(S)
  PROVE  /\ \A n \in Nat : l[n] \subseteq l[n + 1]
         /\ \A n \in Nat : \A m \in 0 .. n : l[m] \subseteq l[n]
<1>1. l[0] = Base /\ \A n \in Nat : l[n + 1] = Step(l[n])
  BY DEF IsLevels
<1>2. \A n \in Nat : l[n] \subseteq l[n + 1]
  <2> DEFINE S == {n \in Nat : l[n] \subseteq l[n + 1]}
  <2>1. 0 \in S
    BY <1>1
  <2>2. ASSUME NEW n \in Nat, n \in S PROVE n + 1 \in S
    <3>1. n + 1 \in Nat /\ l[n] \subseteq l[n + 1]
      BY <2>2
    <3>2. Step(l[n]) \subseteq Step(l[n + 1])
      BY <3>1
    <3>3. l[n + 1] = Step(l[n]) /\ l[(n + 1) + 1] = Step(l[n + 1])
      BY <1>1, <3>1
    <3> QED
      BY <3>1, <3>2, <3>3
  <2>3. Nat \subseteq S
    <3> HIDE DEF S
    <3> QED
      BY <2>1, <2>2, Induction
  <2> QED
    BY <2>3
<1>3. \A n \in Nat : \A m \in 0 .. n : l[m] \subseteq l[n]
  <2> DEFINE S == {n \in Nat : \A m \in 0 .. n : l[m] \subseteq l[n]}
  <2>1. 0 \in S
    OBVIOUS
  <2>2. ASSUME NEW n \in Nat, n \in S PROVE n + 1 \in S
    <3>1. ASSUME NEW m \in 0 .. (n + 1) PROVE l[m] \subseteq l[n + 1]
      <4>1. m \in 0 .. n \/ m = n + 1
        OBVIOUS
      <4> QED
        BY <1>2, <2>2, <4>1
    <3> QED
      BY <3>1
  <2>3. Nat \subseteq S
    <3> HIDE DEF S
    <3> QED
      BY <2>1, <2>2, Induction
  <2> QED
    BY <2>3
<1> QED
  BY <1>2, <1>3

(* A function of trees can be defined by recursion, if the value of a tree *)
(* depends on those of its subtrees only.                                  *)
LEMMA BodyExists ==
  ASSUME NEW l, IsLevels(l, Nat),
         \A S, T : S \subseteq T => Step(S) \subseteq Step(T),
         \A S : Base \subseteq Step(S),
         \A e \in Base : \A f, g : Body(e, f) = Body(e, g),
         \A S, f, g : (\A x \in S : f[x] = g[x]) => \A e \in Step(S) : Body(e, f) = Body(e, g)
  PROVE  \A n \in Nat : \E f : f = [e \in l[n] |-> Body(e, f)]
<1>1. l[0] = Base /\ \A n \in Nat : l[n + 1] = Step(l[n])
  BY DEF IsLevels
<1>2. \A n \in Nat : l[n] \subseteq l[n + 1]
  BY Increasing
<1>3. \A n \in Nat : \E f : f = [e \in l[n] |-> Body(e, f)]
  <2> DEFINE Fits(n, f) == f = [e \in l[n] |-> Body(e, f)]
             S == {n \in Nat : \E f : Fits(n, f)}
  <2>1. 0 \in S
    <3> DEFINE f == [e \in Base |-> Body(e, <<>>)]
    <3>1. ASSUME NEW e \in Base PROVE Body(e, <<>>) = Body(e, f)
      OBVIOUS
    <3>2. f = [e \in Base |-> Body(e, f)]
      BY <3>1
    <3>3. Fits(0, f)
      BY <1>1, <3>2
    <3> QED
      BY <3>3
  <2>2. ASSUME NEW n \in Nat, n \in S PROVE n + 1 \in S
    <3>1. PICK f : Fits(n, f)
      BY <2>2
    <3> DEFINE g == [e \in l[n + 1] |-> Body(e, f)]
    <3>2. ASSUME NEW x \in l[n] PROVE f[x] = g[x]
      BY <1>2, <3>1
    <3>3. ASSUME NEW e \in l[n + 1] PROVE Body(e, f) = Body(e, g)
      <4>1. e \in Step(l[n])
        BY <1>1
      <4> HIDE DEF g
      <4> QED
        BY <3>2, <4>1
    <3>4. g = [e \in l[n + 1] |-> Body(e, g)]
      BY <3>3
    <3>5. n + 1 \in Nat /\ Fits(n + 1, g)
      BY <3>4
    <3> HIDE DEF Fits, g
    <3> QED
      BY <3>5
  <2>3. Nat \subseteq S
    <3> HIDE DEF S
    <3> QED
      BY <2>1, <2>2, Induction
  <2> HIDE DEF Fits
  <2>4. \A n \in Nat : \E f : Fits(n, f)
    BY <2>3
  <2> QED
    BY <2>4 DEF Fits
<1> QED
  BY <1>3

(* What holds of the value of a tree when it holds of those of its         *)
(* subtrees, holds of every tree's.                                        *)
LEMMA BodyGood ==
  ASSUME NEW l, IsLevels(l, Nat),
         \A S, T : S \subseteq T => Step(S) \subseteq Step(T),
         \A S : Base \subseteq Step(S),
         NEW d \in Nat, NEW f, f = [e \in l[d] |-> Body(e, f)],
         \A S : (\A x \in S : Good(f[x])) => \A e \in Step(S) : Good(Body(e, f))
  PROVE  \A e \in l[d] : Good(f[e])
<1>1. l[0] = Base /\ \A n \in Nat : l[n + 1] = Step(l[n])
  BY DEF IsLevels
<1>2. \A m \in 0 .. d : l[m] \subseteq l[d]
  BY Increasing
<1>3. ASSUME NEW m \in 0 .. d, NEW S, l[m] \subseteq Step(S), \A x \in S : Good(f[x])
      PROVE  \A e \in l[m] : Good(f[e])
  <2>1. ASSUME NEW e \in l[m] PROVE Good(f[e])
    <3>1. e \in Step(S) /\ e \in l[d]
      BY <1>2, <1>3
    <3>2. Good(Body(e, f))
      BY <1>3, <3>1
    <3>3. f[e] = Body(e, f)
      BY <3>1
    <3> QED
      BY <3>2, <3>3
  <2> QED
    BY <2>1
<1> DEFINE A == {m \in Nat : m <= d => \A e \in l[m] : Good(f[e])}
<1>4. 0 \in A
  <2>1. l[0] \subseteq Step({}) /\ 0 \in 0 .. d
    BY <1>1
  <2>2. \A e \in l[0] : Good(f[e])
    BY <1>3, <2>1
  <2> QED
    BY <2>2
<1>5. ASSUME NEW m \in Nat, m \in A PROVE m + 1 \in A
  <2>1. CASE ~(m + 1 <= d)
    BY <2>1
  <2>2. CASE m + 1 <= d
    <3>1. m <= d /\ m + 1 \in 0 .. d
      BY <2>2
    <3>2. \A x \in l[m] : Good(f[x])
      BY <1>5, <3>1
    <3>3. l[m + 1] \subseteq Step(l[m])
      BY <1>1
    <3>4. \A e \in l[m + 1] : Good(f[e])
      BY <1>3, <3>1, <3>2, <3>3
    <3> QED
      BY <3>4
  <2> QED
    BY <2>1, <2>2
<1>6. Nat \subseteq A
  <2> HIDE DEF A
  <2> QED
    BY <1>4, <1>5, Induction
<1> QED
  BY <1>6
================================================================================
