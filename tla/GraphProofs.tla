------------------------------ MODULE GraphProofs ------------------------------
(***************************************************************************)
(* Theorems about module Graph: the sort of every ruleset is sound.        *)
(***************************************************************************)
EXTENDS Graph, Integers, FiniteSetTheorems, SequenceTheorems, WellFoundedInduction, TLAPS

-------------------------------------------------------------------------------
(* The inductive invariant.                                                *)

(* The nodes that the graph of the goal should have. *)
InGraph == Below(prereqs, goal) \cup {goal}

(* Every edge is one of the ruleset, and is there once. *)
EdgesSound ==
  \A x \in Nodes :
    /\ \A t \in ToSet(depends[x]) : t \in InGraph /\ x \in ToSet(prereqs[t]) /\ x \in present
    /\ IsInjective(depends[x])

(* While the graph is built, an edge that is missing is still to come in   *)
(* one of the active calls of graph_build_prereq.                          *)
Edge(d, t, i) == t \in ToSet(d[prereqs[t][i]])

Place(frame, d, g) ==
  /\ frame.target \in g
  /\ \A i \in 1 .. frame.next - 1 :
       i <= Len(prereqs[frame.target]) => Edge(d, frame.target, i)

ToCome(s, t, i) == \E k \in 1 .. Len(s) : s[k].target = t /\ s[k].next <= i

Building ==
  /\ \A x \in present : depends[x] # <<>>
  /\ \A k \in 1 .. Len(stack) : Place(stack[k], depends, present \cup {goal})
  /\ \A t \in Targets \cap (present \cup {goal}) :
       \A i \in 1 .. Len(prereqs[t]) : Edge(depends, t, i) \/ ToCome(stack, t, i)

(* A target without prerequisites has an empty graph. *)
Graphed == {x \in InGraph : prereqs[goal] # <<>>}

(* All nodes below the goal are there. *)
Built == present \subseteq Graphed /\ Below(prereqs, goal) \subseteq present

(* These nodes have all their edges. *)
Whole(d, X, g) ==
  \A x \in X, t \in Targets \cap g : x \in ToSet(prereqs[t]) => t \in ToSet(d[x])

(* The queue, as the nodes in it. *)
Slots(h, t) == {i \in 0 .. N - 1 : IF h <= t THEN h <= i /\ i < t ELSE h <= i \/ i < t}
Queued == {queue[i] : i \in Slots(head, tail)}

QueueSound ==
  /\ Queued \subseteq Nodes
  /\ \A i, j \in Slots(head, tail) : queue[i] = queue[j] => i = j

(* How many edges lead to t from nodes of a set. *)
Incoming(d, X, t) == Cardinality({x \in X : t \in ToSet(d[x])})

(* The sources that have been looked at are queued, their edges counted. *)
Looked(X, n) == {x \in X : \E i \in 1 .. n - 1 : Scan(i) = x}

Counting ==
  /\ scan <= N /\ sorted = <<>>
  /\ Whole(depends, Nodes, InGraph)
  /\ Queued = {x \in Looked(present, scan) : IsSource(x)}
  /\ \A t \in Nodes : edges[t] = Incoming(depends, Looked(present, scan), t)

(* What is ready, that is, without edges into it, is queued or sorted; all *)
(* edges from what is sorted are gone, but for the last node's.            *)
Done == ToSet(sorted)

Sorting ==
  /\ Whole(depends, Nodes \ Done, InGraph)
  /\ \A i \in 1 .. Len(sorted) - 1 : depends[sorted[i]] = <<>>
  /\ Queued \cap Done = {} /\ IsInjective(sorted)
  /\ Queued \cup Done = {x \in Graphed : edges[x] = 0}
  /\ \A t \in Nodes : edges[t] = Incoming(depends, present, t)

(* The orders of all targets up to the goal are there. *)
Ordered ==
  \A t \in Targets :
    IF t < goal \/ phase = "finalized" THEN prereqs[t] # <<>> => order[t] # <<>>
                                       ELSE order[t] = <<>>

Cyclic == \E u \in Below(prereqs, goal) \cap Targets : u \in Below(prereqs, u)

GInv ==
  /\ prereqs \in [Targets -> Seq(Nodes)] /\ TypeOK
  /\ OrderIsSound /\ Ordered
  /\ phase = "failed" => Cyclic
  /\ phase \in {"build", "count", "sort"} => EdgesSound
  /\ phase = "build" => Building
  /\ phase \in {"count", "sort"} => Built /\ QueueSound
  /\ phase = "count" => Counting
  /\ phase = "sort" => Sorting /\ After(prereqs, sorted)

-------------------------------------------------------------------------------
(* Numbers and sets.                                                       *)

(* There are nodes, and targets are nodes. *)
LEMMA NodesFinite ==
  /\ N \in Nat \ {0} /\ Targets \subseteq Nodes /\ Targets \subseteq Nat \ {0}
  /\ Nodes \subseteq Nat \ {0} /\ IsFiniteSet(Nodes) /\ Cardinality(Nodes) = N
<1>1. N \in Nat \ {0} /\ NTarget \in Nat \ {0} /\ NTarget <= N
  BY SizeAssumption DEF N
<1> QED
  BY <1>1, FS_Interval DEF Targets, Nodes

(* The least element of a set of numbers: what proofs by induction use.    *)
LEMMA LeastElement ==
  ASSUME NEW S, S \subseteq Nat, S # {}
  PROVE  \E i \in S : \A j \in S : i <= j
<1> DEFINE R == {ss \in Nat \X Nat : ss[1] < ss[2]}
<1>1. IsWellFoundedOn(R, Nat)
  BY NatLessThanWellFounded DEF OpToRel
<1>2. PICK i \in S : \A j \in S : ~(<<j, i>> \in R)
  <2> HIDE DEF R
  <2> QED
    BY <1>1, WFMin
<1>3. \A j \in S : ~(j < i)
  BY <1>2
<1> QED
  BY <1>3

(* The next index of the queue. *)
LEMMA Wrap ==
  ASSUME NEW a \in 0 .. N - 1
  PROVE  (a + 1) % N = IF a = N - 1 THEN 0 ELSE a + 1
<1>1. N \in Nat \ {0}
  BY NodesFinite
<1>2. CASE a = N - 1
  <2>1. a + 1 = N /\ N % N = 0
    BY <1>1, <1>2
  <2> QED
    BY <1>2, <2>1
<1>3. CASE a # N - 1
  <2>1. a + 1 \in 0 .. N - 1
    BY <1>1, <1>3
  <2>2. (a + 1) % N = a + 1
    BY <1>1, <2>1
  <2> QED
    BY <1>3, <2>2
<1> QED
  BY <1>2, <1>3

-------------------------------------------------------------------------------
(* Sequences without repetition: what is added or removed.                 *)

(* Append adds one element. *)
LEMMA AppendNew ==
  ASSUME NEW S, NEW s \in Seq(S), NEW e \in S
  PROVE  /\ Append(s, e) \in Seq(S) /\ Append(s, e) # <<>>
         /\ Len(Append(s, e)) = Len(s) + 1 /\ Append(s, e)[Len(s) + 1] = e
         /\ \A k \in 1 .. Len(s) : Append(s, e)[k] = s[k]
         /\ ToSet(Append(s, e)) = ToSet(s) \cup {e}
         /\ IsInjective(s) /\ e \notin ToSet(s) => IsInjective(Append(s, e))
<1> DEFINE a == Append(s, e)  n == Len(s)
<1>1. /\ a \in Seq(S) /\ Len(a) = n + 1 /\ \A k \in 1 .. n : a[k] = s[k]
      /\ a[n + 1] = e
  BY AppendProperties
<1>2. /\ n \in Nat /\ DOMAIN a = 1 .. n + 1 /\ DOMAIN s = 1 .. n
      /\ 1 .. n + 1 = (1 .. n) \cup {n + 1}
  BY <1>1
<1>3. ToSet(a) = ToSet(s) \cup {e}
  BY <1>1, <1>2 DEF ToSet
<1>4. ASSUME IsInjective(s), e \notin ToSet(s) PROVE IsInjective(a)
  <2> SUFFICES ASSUME NEW k \in 1 .. n + 1, NEW m \in 1 .. n + 1, a[k] = a[m] PROVE k = m
    BY <1>2 DEF IsInjective
  <2>1. \A j \in 1 .. n : s[j] # e
    BY <1>2, <1>4 DEF ToSet
  <2>2. CASE k = n + 1 \/ m = n + 1
    BY <1>1, <1>2, <2>1, <2>2
  <2>3. CASE k \in 1 .. n /\ m \in 1 .. n
    BY <1>1, <1>2, <1>4, <2>3 DEF IsInjective
  <2> QED
    BY <1>2, <2>2, <2>3
<1>5. a # <<>>
  BY <1>1, <1>2
<1> QED
  BY <1>1, <1>3, <1>4, <1>5

(* Tail removes the head. *)
LEMMA HeadRemoved ==
  ASSUME NEW S, NEW s \in Seq(S), s # <<>>, IsInjective(s)
  PROVE  /\ Tail(s) \in Seq(S) /\ Head(s) \in S /\ Head(s) \in ToSet(s)
         /\ ToSet(Tail(s)) = ToSet(s) \ {Head(s)} /\ IsInjective(Tail(s))
<1> DEFINE n == Len(s)
<1>1. /\ n \in Nat \ {0} /\ DOMAIN s = 1 .. n /\ Head(s) = s[1] /\ s[1] \in S
      /\ Tail(s) \in Seq(S) /\ Len(Tail(s)) = n - 1
      /\ \A k \in 1 .. n - 1 : Tail(s)[k] = s[k + 1]
  BY HeadTailProperties
<1>2. DOMAIN Tail(s) = 1 .. n - 1 /\ \A k \in 1 .. n - 1 : k + 1 \in 2 .. n
  BY <1>1
<1>3. \A i, j \in 1 .. n : s[i] = s[j] => i = j
  BY <1>1 DEF IsInjective
<1>4. IsInjective(Tail(s))
  <2> SUFFICES ASSUME NEW i \in 1 .. n - 1, NEW j \in 1 .. n - 1, Tail(s)[i] = Tail(s)[j]
               PROVE  i = j
    BY <1>2 DEF IsInjective
  <2>1. i + 1 \in 1 .. n /\ j + 1 \in 1 .. n /\ s[i + 1] = s[j + 1]
    BY <1>1
  <2> QED
    BY <1>1, <1>3, <2>1
<1>5. ToSet(Tail(s)) = ToSet(s) \ {Head(s)}
  <2>1. ASSUME NEW k \in 1 .. n - 1 PROVE Tail(s)[k] \in ToSet(s) \ {Head(s)}
    <3>1. k + 1 \in 1 .. n /\ k + 1 # 1 /\ 1 \in 1 .. n
      BY <1>1
    <3> QED
      BY <1>1, <1>3, <3>1 DEF ToSet
  <2>2. ASSUME NEW k \in 1 .. n, s[k] # Head(s) PROVE s[k] \in ToSet(Tail(s))
    <3>1. k - 1 \in 1 .. n - 1 /\ (k - 1) + 1 = k
      BY <1>1, <2>2
    <3> QED
      BY <1>1, <1>2, <3>1 DEF ToSet
  <2> QED
    BY <1>1, <1>2, <2>1, <2>2 DEF ToSet
<1> QED
  BY <1>1, <1>4, <1>5 DEF ToSet

-------------------------------------------------------------------------------
(* What is below a target.                                                 *)

(* It is a closed set with the prerequisites, and the least one. *)
LEMMA BelowLeast ==
  ASSUME NEW r \in [Targets -> Seq(Nodes)], NEW t \in Targets
  PROVE  /\ Below(r, t) \subseteq Nodes
         /\ ToSet(r[t]) \subseteq Below(r, t)
         /\ Closed(r, Below(r, t))
         /\ \A S \in SUBSET Nodes :
              ToSet(r[t]) \subseteq S /\ Closed(r, S) => Below(r, t) \subseteq S
<1>1. \A u \in Targets : ToSet(r[u]) \subseteq Nodes
  <2>1. ASSUME NEW u \in Targets PROVE r[u] \in Seq(Nodes)
    OBVIOUS
  <2> QED
    BY <2>1 DEF ToSet
<1>2. ToSet(r[t]) \subseteq Below(r, t)
  BY <1>1 DEF Below
<1>3. Closed(r, Below(r, t))
  <2> SUFFICES ASSUME NEW u \in Below(r, t) \cap Targets, NEW x \in ToSet(r[u])
               PROVE  x \in Below(r, t)
    BY DEF Closed
  <2>1. x \in Nodes
    BY <1>1
  <2>2. ASSUME NEW S \in SUBSET Nodes, ToSet(r[t]) \subseteq S, Closed(r, S) PROVE x \in S
    <3>1. u \in S
      BY <2>2 DEF Below
    <3> QED
      BY <2>2, <3>1 DEF Closed
  <2> QED
    BY <2>1, <2>2 DEF Below
<1> QED
  BY <1>2, <1>3 DEF Below

(* What is below a target below t is below t. *)
LEMMA BelowShrinks ==
  ASSUME NEW r \in [Targets -> Seq(Nodes)], NEW t \in Targets,
         NEW u \in Targets, u \in Below(r, t)
  PROVE  Below(r, u) \subseteq Below(r, t)
<1>1. ToSet(r[u]) \subseteq Below(r, t)
  BY BelowLeast DEF Closed
<1> QED
  BY <1>1, BelowLeast

(* A set of targets of which each has a prerequisite in the set contains a *)
(* cycle: the one with the fewest nodes below it is on one.                *)
LEMMA CycleExists ==
  ASSUME NEW r \in [Targets -> Seq(Nodes)], NEW U, U \subseteq Targets, U # {},
         \A u \in U : ToSet(r[u]) \cap U # {}
  PROVE  \E u \in U, v \in U : v \in ToSet(r[u]) /\ v \in Below(r, v)
<1> DEFINE Size(u) == Cardinality(Below(r, u))
<1>1. \A u \in U : IsFiniteSet(Below(r, u)) /\ Size(u) \in Nat
  BY NodesFinite, BelowLeast, FS_Subset, FS_CardinalityType
<1>2. PICK u \in U : \A v \in U : Size(u) <= Size(v)
  <2> HIDE DEF Size
  <2> DEFINE S == {Size(u) : u \in U}
  <2>1. S \subseteq Nat /\ S # {}
    BY <1>1
  <2>2. PICK i \in S : \A j \in S : i <= j
    BY <2>1, LeastElement
  <2> QED
    BY <2>2
<1>3. PICK v \in ToSet(r[u]) \cap U : TRUE
  OBVIOUS
<1>4. v \in Below(r, u) /\ Below(r, v) \subseteq Below(r, u)
  BY <1>3, BelowLeast, BelowShrinks
<1>5. Below(r, v) = Below(r, u)
  <2>1. /\ Cardinality(Below(r, v)) <= Cardinality(Below(r, u))
        /\ Cardinality(Below(r, u)) = Cardinality(Below(r, v)) => Below(r, u) = Below(r, v)
    BY <1>1, <1>4, FS_Subset
  <2> QED
    BY <1>1, <1>2, <1>3, <2>1
<1> QED
  BY <1>3, <1>4, <1>5

-------------------------------------------------------------------------------
(* The queue.                                                              *)

(* The slots in use when a node is pushed, unless the queue gets full. *)
LEMMA SlotsPushed ==
  ASSUME NEW h \in 0 .. N - 1, NEW t \in 0 .. N - 1, NEW n, n = (t + 1) % N, n # h
  PROVE  /\ n \in 0 .. N - 1 /\ t \notin Slots(h, t)
         /\ Slots(h, n) = Slots(h, t) \cup {t}
<1>1. N \in Nat \ {0}
  BY NodesFinite
<1>2. n = IF t = N - 1 THEN 0 ELSE t + 1
  BY Wrap
<1> QED
  BY <1>1, <1>2 DEF Slots

(* The slots in use when a node is popped. *)
LEMMA SlotsPopped ==
  ASSUME NEW h \in 0 .. N - 1, NEW t \in 0 .. N - 1, NEW n, n = (h + 1) % N, h # t
  PROVE  /\ n \in 0 .. N - 1 /\ h \in Slots(h, t)
         /\ Slots(n, t) = Slots(h, t) \ {h}
<1>1. N \in Nat \ {0}
  BY NodesFinite
<1>2. n = IF h = N - 1 THEN 0 ELSE h + 1
  BY Wrap
<1> QED
  BY <1>1, <1>2 DEF Slots

(* A queue that is about to get full holds all nodes but one. *)
LEMMA AlmostFull ==
  ASSUME NEW h \in 0 .. N - 1, NEW t \in 0 .. N - 1, h = (t + 1) % N,
         NEW q, \A i, j \in Slots(h, t) : q[i] = q[j] => i = j,
         NEW x \in Nodes, NEW z \in Nodes,
         \A i \in Slots(h, t) : q[i] \in Nodes \ {x, z}
  PROVE  x = z
<1> SUFFICES ASSUME x # z PROVE FALSE
  OBVIOUS
<1>1. N \in Nat \ {0}
  BY NodesFinite
<1>2. Slots(h, t) = (0 .. N - 1) \ {t}
  <2>1. h = IF t = N - 1 THEN 0 ELSE t + 1
    BY Wrap
  <2> QED
    BY <1>1, <2>1 DEF Slots
<1>3. IsFiniteSet(Slots(h, t)) /\ Cardinality(Slots(h, t)) = N - 1
  <2>1. IsFiniteSet(0 .. N - 1) /\ Cardinality(0 .. N - 1) = N
    <3>1. 0 \in Int /\ N - 1 \in Int /\ ~(0 > N - 1) /\ (N - 1) - 0 + 1 = N
      BY <1>1
    <3> QED
      BY <3>1, FS_Interval
  <2>2. PICK I : I = 0 .. N - 1
    OBVIOUS
  <2>3. IsFiniteSet(I \ {t}) /\ Cardinality(I \ {t}) = Cardinality(I) - 1
    BY <2>1, <2>2, FS_RemoveElement
  <2> QED
    BY <1>2, <2>1, <2>2, <2>3
<1> DEFINE T == (Nodes \ {x}) \ {z}
<1>4. IsFiniteSet(T) /\ Cardinality(T) = N - 2
  <2>1. IsFiniteSet(Nodes \ {x}) /\ Cardinality(Nodes \ {x}) = N - 1
    BY <1>1, NodesFinite, FS_RemoveElement
  <2>2. z \in Nodes \ {x} /\ (N - 1) - 1 = N - 2
    BY <1>1
  <2> QED
    BY <2>1, <2>2, FS_RemoveElement
<1>5. [i \in Slots(h, t) |-> q[i]] \in [Slots(h, t) -> T]
  OBVIOUS
<1>6. PICK f \in [Slots(h, t) -> T] : \A i \in Slots(h, t) : f[i] = q[i]
  BY <1>5
<1>7. Cardinality(T) < Cardinality(Slots(h, t))
  BY <1>1, <1>3, <1>4
<1>8. \E i, j \in Slots(h, t) : i # j /\ f[i] = f[j]
  <2> HIDE DEF T
  <2> QED
    BY <1>3, <1>4, <1>7, FS_PigeonHole
<1> QED
  BY <1>6, <1>8

(* PUSH adds a node to the queue as long as there is another one that is not in it. *)
LEMMA Pushed ==
  ASSUME TypeOK, QueueSound, NEW x \in Nodes \ Queued, NEW z \in Nodes \ Queued, x # z,
         Push(x), head' = head
  PROVE  /\ queue' \in [0 .. N - 1 -> 0 .. N] /\ tail' \in 0 .. N - 1
         /\ Queued' = Queued \cup {x} /\ QueueSound'
<1>1. head \in 0 .. N - 1 /\ tail \in 0 .. N - 1 /\ queue \in [0 .. N - 1 -> 0 .. N]
  BY DEF TypeOK
<1>2. N \in Nat \ {0} /\ Nodes \subseteq 0 .. N
  BY NodesFinite DEF Nodes
<1>3. /\ Queued \subseteq Nodes /\ x \notin Queued /\ z \notin Queued
      /\ \A i, j \in Slots(head, tail) : queue[i] = queue[j] => i = j
  BY DEF QueueSound
<1>4. tail' # head
  <2> SUFFICES ASSUME head = (tail + 1) % N PROVE FALSE
    BY DEF Push
  <2>1. \A i \in Slots(head, tail) : queue[i] \in Nodes \ {x, z}
    BY <1>3 DEF Queued
  <2> QED
    BY <1>1, <1>3, <2>1, AlmostFull
<1>5. /\ tail' \in 0 .. N - 1 /\ tail \notin Slots(head, tail)
      /\ Slots(head, tail') = Slots(head, tail) \cup {tail}
  BY <1>1, <1>4, SlotsPushed DEF Push
<1>6. queue' = [queue EXCEPT ![tail] = x] /\ Slots(head, tail) \subseteq 0 .. N - 1
  BY DEF Push, Slots
<1>7. /\ queue'[tail] = x
      /\ \A i \in Slots(head, tail) : queue'[i] = queue[i]
  BY <1>1, <1>5, <1>6
<1>8. Queued' = Queued \cup {x}
  BY <1>5, <1>7 DEF Queued
<1>9. \A i \in Slots(head, tail) : queue[i] \in Queued
  BY DEF Queued
<1>10. QueueSound'
  BY <1>3, <1>5, <1>7, <1>8, <1>9 DEF QueueSound
<1> QED
  BY <1>1, <1>2, <1>5, <1>6, <1>8, <1>10

(* POP takes a node from the queue. *)
LEMMA PoppedNode ==
  ASSUME TypeOK, QueueSound, head # tail, head' = (head + 1) % N, UNCHANGED <<queue, tail>>
  PROVE  /\ head' \in 0 .. N - 1 /\ queue[head] \in Queued
         /\ Queued' = Queued \ {queue[head]} /\ QueueSound'
<1>1. head \in 0 .. N - 1 /\ tail \in 0 .. N - 1
  BY DEF TypeOK
<1>2. /\ head' \in 0 .. N - 1 /\ head \in Slots(head, tail)
      /\ Slots(head', tail) = Slots(head, tail) \ {head}
  BY <1>1, SlotsPopped
<1>3. \A i \in Slots(head, tail) : queue[i] = queue[head] => i = head
  BY <1>2 DEF QueueSound
<1>4. Queued' = Queued \ {queue[head]} /\ queue[head] \in Queued
  BY <1>2, <1>3 DEF Queued
<1>5. QueueSound'
  BY <1>2, <1>4 DEF QueueSound
<1> QED
  BY <1>2, <1>4, <1>5

-------------------------------------------------------------------------------
(* The graph is built.                                                     *)
Frame == [target : Targets, next : Nat \ {0}]

(* What the finalization of a target does not change. *)
LEMMA OrdersKept ==
  ASSUME GInv, UNCHANGED <<prereqs, goal, order>>, phase # "finalized", phase' # "finalized"
  PROVE  /\ prereqs' \in [Targets -> Seq(Nodes)] /\ order' \in [Targets -> Seq(Nodes)]
         /\ goal' \in Targets /\ OrderIsSound' /\ Ordered'
<1>1. prereqs' = prereqs /\ goal' = goal /\ order' = order
  OBVIOUS
<1> QED
  BY <1>1 DEF GInv, TypeOK, OrderIsSound, Ordered

LEMMA InitSound == Init => GInv
<1> SUFFICES ASSUME Init PROVE GInv
  OBVIOUS
<1>1. prereqs \in [Targets -> Seq(Nodes)]
  BY RulesetsAssumption DEF Init
<1>2. <<>> \in Seq([target : Targets, next : Nat \ {0}]) /\ <<>> \in Seq(Nodes) /\ <<>> \in Seq(Targets)
  OBVIOUS
<1>3. TypeOK
  BY <1>2, NodesFinite DEF Init, TypeOK, NoEdges, NoneCounted, EmptyQueue, Targets
<1>4. \A t \in Targets : order[t] = <<>> /\ ~(t < goal)
  BY DEF Init, Targets
<1>5. OrderIsSound /\ Ordered
  BY <1>4 DEF Init, OrderIsSound, Ordered
<1> QED
  BY <1>1, <1>3, <1>5 DEF GInv, Init

(* The graph begins with the goal's own call. *)
LEMMA NewGraphStep == ASSUME GInv, NewGraph PROVE GInv'
<1>1. /\ phase = "start" /\ phase' = "build"
      /\ stack' = <<[target |-> goal, next |-> 1]>> /\ depends' = NoEdges /\ present' = {}
      /\ UNCHANGED <<prereqs, goal, scan, edges, queue, head, tail, sorted, order>>
  BY DEF NewGraph
<1>2. /\ goal \in Targets /\ [target |-> goal, next |-> 1] \in Frame
      /\ prereqs \in [Targets -> Seq(Nodes)]
  BY DEF GInv, TypeOK, Frame
<1>3. stack' \in Seq(Frame) /\ Len(stack') = 1 /\ stack'[1] = [target |-> goal, next |-> 1]
  BY <1>1, <1>2
<1>4. \A x \in Nodes : depends'[x] = <<>> /\ ToSet(depends'[x]) = {}
  BY <1>1 DEF NoEdges, ToSet
<1>5. TypeOK'
  <2>1. depends' \in [Nodes -> Seq(Targets)]
    BY <1>1 DEF NoEdges
  <2> QED
    BY <1>1, <1>3, <2>1 DEF GInv, TypeOK, Frame
<1>6. EdgesSound'
  BY <1>4 DEF EdgesSound, IsInjective
<1>7. Building'
  <2>1. \A k \in 1 .. Len(stack') : Place(stack[k], depends, present \cup {goal})'
    BY <1>1, <1>3 DEF Place
  <2>2. \A i \in 1 .. Len(prereqs[goal]) : ToCome(stack', goal, i)
    BY <1>2, <1>3 DEF ToCome
  <2> QED
    BY <1>1, <2>1, <2>2 DEF Building
<1>8. OrderIsSound' /\ Ordered'
  BY <1>1, OrdersKept
<1> QED
  BY <1>1, <1>2, <1>5, <1>6, <1>7, <1>8 DEF GInv

(* What is there is below the goal. *)
LEMMA PresentBelow ==
  ASSUME GInv, phase = "build"
  PROVE  present \subseteq Below(prereqs, goal)
<1> SUFFICES ASSUME NEW x \in present PROVE x \in Below(prereqs, goal)
  OBVIOUS
<1>1. x \in Nodes /\ depends[x] \in Seq(Targets) /\ depends[x] # <<>>
  BY DEF GInv, TypeOK, Building
<1>2. PICK t : t \in ToSet(depends[x])
  <2>1. 1 \in DOMAIN depends[x]
    BY <1>1
  <2> QED
    BY <2>1 DEF ToSet
<1>3. t \in InGraph /\ x \in ToSet(prereqs[t]) /\ t \in Targets
  BY <1>1, <1>2 DEF GInv, EdgesSound, ToSet
<1> QED
  BY <1>3, BelowLeast DEF InGraph, Closed, GInv, TypeOK

(* The loop over the prerequisites goes on in the call that is active. *)
LEMMA PlaceTaken ==
  ASSUME NEW s \in Seq(Frame), s # <<>>
  PROVE  /\ NextPlace(s) \in Seq(Frame) /\ Len(NextPlace(s)) = Len(s)
         /\ \A k \in 1 .. Len(s) :
              /\ NextPlace(s)[k].target = s[k].target
              /\ NextPlace(s)[k].next = IF k = Len(s) THEN s[k].next + 1 ELSE s[k].next
<1>1. Len(s) \in 1 .. Len(s) /\ s[Len(s)] \in Frame
  OBVIOUS
<1>2. [s[Len(s)] EXCEPT !.next = @ + 1] \in Frame
  BY <1>1 DEF Frame
<1>3. NextPlace(s) = [s EXCEPT ![Len(s)] = [s[Len(s)] EXCEPT !.next = @ + 1]]
  BY DEF NextPlace
<1>4. NextPlace(s) \in Seq(Frame) /\ Len(NextPlace(s)) = Len(s)
  BY <1>1, <1>2, <1>3, ExceptSeq
<1>5. \A k \in 1 .. Len(s) : s[k] \in Frame
  OBVIOUS
<1> QED
  BY <1>1, <1>3, <1>4, <1>5 DEF Frame

(* No edge of the active calls gets lost. *)
LEMMA StillBuilding ==
  ASSUME GInv, phase = "build", stack # <<>>,
         NEW t, t = Last(stack).target, NEW i, i = Last(stack).next, i <= Len(prereqs[t]),
         NEW p, p = prereqs[t][i],
         UNCHANGED <<prereqs, goal>>, depends' \in [Nodes -> Seq(Targets)],
         \A x \in Nodes : ToSet(depends[x]) \subseteq ToSet(depends'[x]),
         t \in ToSet(depends'[p]), present \subseteq present', present' \subseteq present \cup {p},
         \A x \in present' : depends'[x] # <<>>,
         \/ stack' = NextPlace(stack) /\ (p \in Targets => p \in present \cup {goal})
         \/ /\ stack' = Append(NextPlace(stack), [target |-> p, next |-> 1])
            /\ p \in Targets /\ p \in present'
         \/ stack' = NextPlace(stack) /\ p \notin Targets
  PROVE  Building' /\ stack' \in Seq(Frame)
<1> DEFINE s == NextPlace(stack)  n == Len(stack)
<1>1. stack \in Seq(Frame) /\ n \in Nat \ {0} /\ Last(stack) = stack[n]
  BY DEF GInv, TypeOK, Frame, Last
<1>2. /\ s \in Seq(Frame) /\ Len(s) = n
      /\ \A k \in 1 .. n : /\ s[k].target = stack[k].target
                           /\ s[k].next = IF k = n THEN i + 1 ELSE stack[k].next
  BY <1>1, PlaceTaken
<1>3. prereqs' = prereqs /\ goal' = goal /\ prereqs \in [Targets -> Seq(Nodes)]
  BY DEF GInv
<1>4. \A k \in 1 .. n : stack[k].target \in Targets /\ stack[k].next \in Nat \ {0}
  <2>1. \A k \in 1 .. n : stack[k] \in Frame
    BY <1>1
  <2> QED
    BY <2>1 DEF Frame
<1>5. t \in Targets /\ i \in Nat \ {0} /\ i \in 1 .. Len(prereqs[t]) /\ p \in Nodes
  <2>1. n \in 1 .. n
    BY <1>1
  <2>2. t \in Targets /\ i \in Nat \ {0} /\ prereqs[t] \in Seq(Nodes)
    BY <1>1, <1>3, <1>4, <2>1
  <2> QED
    BY <2>2
<1>6. \A u \in Targets : \A j \in 1 .. Len(prereqs[u]) :
        Edge(depends, u, j) => Edge(depends', u, j)
  <2> SUFFICES ASSUME NEW u \in Targets, NEW j \in 1 .. Len(prereqs[u]), Edge(depends, u, j)
               PROVE  Edge(depends', u, j)
    OBVIOUS
  <2>1. prereqs[u] \in Seq(Nodes)
    BY <1>3
  <2>2. prereqs[u][j] \in Nodes
    BY <2>1
  <2> QED
    BY <2>2 DEF Edge
<1>7. Edge(depends', t, i)
  BY DEF Edge
<1>8. \A k \in 1 .. n : Place(s[k], depends', present' \cup {goal})
  <2> SUFFICES ASSUME NEW k \in 1 .. n PROVE Place(s[k], depends', present' \cup {goal})
    OBVIOUS
  <2>1. Place(stack[k], depends, present \cup {goal})
    BY DEF GInv, Building
  <2>2. s[k].target \in present' \cup {goal} /\ s[k].target = stack[k].target
    BY <1>2, <2>1 DEF Place
  <2>3. ASSUME NEW j \in 1 .. s[k].next - 1, j <= Len(prereqs[s[k].target])
        PROVE  Edge(depends', s[k].target, j)
    <3>1. CASE k = n /\ j = i
      BY <1>1, <1>7, <2>2, <3>1
    <3>2. CASE ~(k = n /\ j = i)
      <4>1. stack[k].next \in Nat /\ stack[k].target \in Targets
        BY <1>4
      <4>2. j \in 1 .. stack[k].next - 1
        BY <1>1, <1>2, <1>5, <2>3, <3>2, <4>1
      <4>3. Edge(depends, stack[k].target, j)
        BY <2>1, <2>2, <2>3, <4>2 DEF Place
      <4>4. j \in 1 .. Len(prereqs[stack[k].target])
        <5>1. prereqs[stack[k].target] \in Seq(Nodes)
          BY <1>3, <4>1
        <5> QED
          BY <2>2, <2>3, <4>1, <4>2, <5>1
      <4> QED
        BY <1>6, <2>2, <4>1, <4>3, <4>4
    <3> QED
      BY <3>1, <3>2
  <2> QED
    BY <2>2, <2>3 DEF Place
<1>9. \A u \in Targets \cap (present \cup {goal}) : \A j \in 1 .. Len(prereqs[u]) :
        Edge(depends', u, j) \/ ToCome(s, u, j)
  <2> SUFFICES ASSUME NEW u \in Targets \cap (present \cup {goal}),
                      NEW j \in 1 .. Len(prereqs[u]), ~Edge(depends', u, j)
               PROVE  ToCome(s, u, j)
    OBVIOUS
  <2>1. ToCome(stack, u, j)
    BY <1>6 DEF GInv, Building
  <2>2. PICK k \in 1 .. n : stack[k].target = u /\ stack[k].next <= j
    BY <2>1 DEF ToCome
  <2>3. ~(k = n /\ stack[k].next = j)
    BY <1>1, <1>7, <2>2
  <2>4. stack[k].next \in Nat /\ j \in Nat
    <3>1. prereqs[u] \in Seq(Nodes)
      BY <1>3
    <3> QED
      BY <1>4, <3>1
  <2>5. s[k].target = u /\ s[k].next <= j
    BY <1>1, <1>2, <2>2, <2>3, <2>4
  <2> QED
    BY <1>2, <2>5 DEF ToCome
<1>10. CASE stack' = s /\ (p \in Targets => p \in present \cup {goal})
  <2>1. Targets \cap (present' \cup {goal}) = Targets \cap (present \cup {goal})
    BY <1>10
  <2> QED
    BY <1>2, <1>3, <1>8, <1>9, <1>10, <2>1 DEF Building, Place, ToCome, Edge
<1>11. CASE /\ stack' = Append(s, [target |-> p, next |-> 1])
            /\ p \in Targets /\ p \in present'
  <2>1. [target |-> p, next |-> 1] \in Frame
    BY <1>11 DEF Frame
  <2>2. /\ stack' \in Seq(Frame) /\ Len(stack') = n + 1
        /\ stack'[n + 1] = [target |-> p, next |-> 1]
        /\ \A k \in 1 .. n : stack'[k] = s[k]
    BY <1>1, <1>2, <1>11, <2>1, AppendProperties
  <2>3. \A k \in 1 .. n + 1 : Place(stack'[k], depends', present' \cup {goal})
    <3>1. Place(stack'[n + 1], depends', present' \cup {goal})
      BY <1>11, <2>2 DEF Place
    <3>2. \A k \in 1 .. n + 1 : k \in 1 .. n \/ k = n + 1
      BY <1>1
    <3> QED
      BY <1>8, <2>2, <3>1, <3>2
  <2>4. \A u \in Targets \cap (present' \cup {goal}) : \A j \in 1 .. Len(prereqs[u]) :
          Edge(depends', u, j) \/ ToCome(stack', u, j)
    <3> SUFFICES ASSUME NEW u \in Targets \cap (present' \cup {goal}),
                        NEW j \in 1 .. Len(prereqs[u]), ~Edge(depends', u, j)
                 PROVE  ToCome(stack', u, j)
      OBVIOUS
    <3>1. CASE u \in present \cup {goal}
      <4>1. PICK k \in 1 .. n : s[k].target = u /\ s[k].next <= j
        BY <1>2, <1>9, <3>1 DEF ToCome
      <4> QED
        BY <1>1, <2>2, <4>1 DEF ToCome
    <3>2. CASE u = p
      BY <1>1, <2>2, <3>2 DEF ToCome
    <3> QED
      BY <3>1, <3>2
  <2> QED
    BY <1>3, <2>2, <2>3, <2>4 DEF Building, Place, ToCome, Edge
<1>12. CASE stack' = s /\ p \notin Targets
  <2>1. Targets \cap (present' \cup {goal}) = Targets \cap (present \cup {goal})
    BY <1>12
  <2> QED
    BY <1>2, <1>3, <1>8, <1>9, <1>12, <2>1 DEF Building, Place, ToCome, Edge
<1> QED
  BY <1>10, <1>11, <1>12

(* The goal and all that is there are in the graph. *)
LEMMA GoalKept ==
  ASSUME UNCHANGED <<prereqs, goal>>
  PROVE  InGraph' = InGraph
BY DEF InGraph

(* graph_build_prereq follows an edge or finds that it is there already. *)
LEMMA BuildPrereqStep == ASSUME GInv, BuildPrereq PROVE GInv'
<1> DEFINE t == Last(stack).target  i == Last(stack).next  p == prereqs[t][i]
<1>1. /\ phase = "build" /\ stack # <<>> /\ i <= Len(prereqs[t])
      /\ IF t \in ToSet(depends[p])
         THEN stack' = NextPlace(stack) /\ UNCHANGED <<depends, present>>
         ELSE /\ stack' = IF p \in Targets
                          THEN Append(NextPlace(stack), [target |-> p, next |-> 1])
                          ELSE NextPlace(stack)
              /\ depends' = [depends EXCEPT ![p] = Append(@, t)]
              /\ present' = present \cup {p}
      /\ UNCHANGED <<prereqs, goal, phase, scan, edges, queue, head, tail, sorted, order>>
  BY DEF BuildPrereq
<1>2. /\ goal \in Targets /\ prereqs \in [Targets -> Seq(Nodes)]
      /\ depends \in [Nodes -> Seq(Targets)] /\ present \subseteq Nodes
  BY DEF GInv, TypeOK
<1>3. /\ t \in Targets /\ t \in present \cup {goal} /\ i \in 1 .. Len(prereqs[t])
      /\ p \in Nodes /\ p \in ToSet(prereqs[t])
  <2>1. stack \in Seq(Frame) /\ Len(stack) \in 1 .. Len(stack)
    BY <1>1 DEF GInv, TypeOK, Frame
  <2>2. Last(stack) = stack[Len(stack)] /\ stack[Len(stack)] \in Frame
    BY <2>1 DEF Last
  <2>3. t \in Targets /\ i \in Nat \ {0}
    BY <2>2 DEF Frame
  <2>4. t \in present \cup {goal}
    BY <1>1, <2>1, <2>2 DEF GInv, Building, Place
  <2>5. prereqs[t] \in Seq(Nodes)
    BY <1>2, <2>3
  <2>6. i \in 1 .. Len(prereqs[t])
    BY <1>1, <2>3, <2>5
  <2> QED
    BY <2>3, <2>4, <2>5, <2>6 DEF ToSet
<1>4. t \in InGraph
  BY <1>1, <1>3, PresentBelow DEF InGraph
<1>5. /\ EdgesSound /\ \A x \in present : depends[x] # <<>>
  BY <1>1 DEF GInv, Building
<1> HIDE DEF t, i, p
<1>6. CASE t \in ToSet(depends[p])
  <2>1. stack' = NextPlace(stack) /\ UNCHANGED <<depends, present>>
    BY <1>1, <1>6
  <2>2. p \in present
    BY <1>3, <1>5, <1>6 DEF EdgesSound
  <2>3. Building' /\ stack' \in Seq(Frame)
    BY <1>1, <1>2, <1>3, <1>5, <1>6, <2>1, <2>2, StillBuilding DEF t, i, p
  <2>4. EdgesSound'
    BY <1>1, <1>5, <2>1, GoalKept DEF EdgesSound
  <2>5. OrderIsSound' /\ Ordered'
    BY <1>1, OrdersKept
  <2>6. TypeOK'
    BY <1>1, <2>1, <2>3 DEF GInv, TypeOK, Frame
  <2> QED
    BY <1>1, <1>2, <2>3, <2>4, <2>5, <2>6 DEF GInv
<1>7. CASE t \notin ToSet(depends[p])
  <2>1. /\ stack' = IF p \in Targets THEN Append(NextPlace(stack), [target |-> p, next |-> 1])
                                     ELSE NextPlace(stack)
        /\ depends' = [depends EXCEPT ![p] = Append(@, t)] /\ present' = present \cup {p}
    BY <1>1, <1>7
  <2>2. /\ Append(depends[p], t) \in Seq(Targets) /\ Append(depends[p], t) # <<>>
        /\ ToSet(Append(depends[p], t)) = ToSet(depends[p]) \cup {t}
        /\ IsInjective(Append(depends[p], t))
    <3>1. depends[p] \in Seq(Targets) /\ IsInjective(depends[p])
      BY <1>2, <1>3, <1>5 DEF EdgesSound
    <3> QED
      BY <1>3, <1>7, <3>1, AppendNew
  <2>3. /\ depends' \in [Nodes -> Seq(Targets)]
        /\ depends'[p] = Append(depends[p], t)
        /\ \A x \in Nodes : x # p => depends'[x] = depends[x]
    BY <1>2, <1>3, <2>1, <2>2
  <2>4. \A x \in Nodes : ToSet(depends[x]) \subseteq ToSet(depends'[x])
    BY <2>2, <2>3
  <2>5. \A x \in present' : depends'[x] # <<>>
    BY <1>2, <1>5, <2>1, <2>2, <2>3
  <2>6. Building' /\ stack' \in Seq(Frame)
    <3>1. t \in ToSet(depends'[p])
      BY <2>2, <2>3
    <3>2. present \subseteq present' /\ present' \subseteq present \cup {p} /\ p \in present'
      BY <2>1
    <3>3. \/ /\ stack' = Append(NextPlace(stack), [target |-> p, next |-> 1])
             /\ p \in Targets /\ p \in present'
          \/ stack' = NextPlace(stack) /\ p \notin Targets
      BY <2>1
    <3>4. UNCHANGED <<prereqs, goal>> /\ phase = "build" /\ stack # <<>> /\ i <= Len(prereqs[t])
      BY <1>1
    <3>5. t = Last(stack).target /\ i = Last(stack).next /\ p = prereqs[t][i]
      BY DEF t, i, p
    <3> QED
      BY <2>3, <2>4, <2>5, <3>1, <3>2, <3>3, <3>4, <3>5, StillBuilding
  <2>7. EdgesSound'
    <3> SUFFICES ASSUME NEW x \in Nodes
                 PROVE  /\ \A u \in ToSet(depends'[x]) :
                             u \in InGraph /\ x \in ToSet(prereqs[u]) /\ x \in present'
                        /\ IsInjective(depends'[x])
      BY <1>1, GoalKept DEF EdgesSound
    <3>1. CASE x = p
      BY <1>3, <1>4, <1>5, <2>1, <2>2, <2>3, <3>1 DEF EdgesSound
    <3>2. CASE x # p
      BY <1>5, <2>1, <2>3, <3>2 DEF EdgesSound
    <3> QED
      BY <3>1, <3>2
  <2>8. OrderIsSound' /\ Ordered'
    BY <1>1, OrdersKept
  <2>9. TypeOK'
    BY <1>1, <1>3, <2>1, <2>3, <2>6 DEF GInv, TypeOK, Frame
  <2> QED
    BY <1>1, <1>2, <2>6, <2>7, <2>8, <2>9 DEF GInv
<1> QED
  BY <1>6, <1>7

(* A call returns when it is through with its prerequisites. *)
LEMMA BuildReturnStep == ASSUME GInv, BuildReturn PROVE GInv'
<1> DEFINE n == Len(stack)
<1>1. /\ phase = "build" /\ stack # <<>>
      /\ Last(stack).next > Len(prereqs[Last(stack).target]) /\ stack' = Front(stack)
      /\ UNCHANGED <<prereqs, goal, phase, depends, present, scan, edges, queue, head, tail,
                     sorted, order>>
  BY DEF BuildReturn
<1>2. /\ stack \in Seq(Frame) /\ n \in Nat \ {0} /\ Last(stack) = stack[n]
      /\ prereqs \in [Targets -> Seq(Nodes)]
  BY <1>1 DEF GInv, TypeOK, Frame, Last
<1>3. stack[n] \in Frame /\ \A k \in 1 .. n : stack[k] \in Frame
  BY <1>2
<1>4. /\ stack' \in Seq(Frame) /\ Len(stack') = n - 1
      /\ \A k \in 1 .. n - 1 : stack'[k] = stack[k]
  <2>1. 1 \in Int /\ n - 1 \in Int /\ \A k \in 1 .. n - 1 : stack[k] \in Frame
    BY <1>2, <1>3
  <2>2. /\ SubSeq(stack, 1, n - 1) \in Seq(Frame)
        /\ Len(SubSeq(stack, 1, n - 1)) = IF 1 <= n - 1 THEN (n - 1) - 1 + 1 ELSE 0
        /\ \A k \in 1 .. (n - 1) - 1 + 1 : SubSeq(stack, 1, n - 1)[k] = stack[1 + k - 1]
    BY <2>1, SubSeqProperties
  <2>3. /\ (IF 1 <= n - 1 THEN (n - 1) - 1 + 1 ELSE 0) = n - 1 /\ (n - 1) - 1 + 1 = n - 1
        /\ \A k \in 1 .. n - 1 : 1 + k - 1 = k
    <3>1. n \in Nat /\ n >= 1
      BY <1>2
    <3> HIDE DEF n
    <3> QED
      BY <3>1
  <2>4. stack' = SubSeq(stack, 1, n - 1)
    BY <1>1 DEF Front
  <2> QED
    BY <2>2, <2>3, <2>4
<1>5. Building'
  <2>1. \A k \in 1 .. Len(stack') : Place(stack'[k], depends, present \cup {goal})
    <3>1. \A k \in 1 .. n : Place(stack[k], depends, present \cup {goal})
      BY <1>1 DEF GInv, Building
    <3>2. 1 .. Len(stack') = 1 .. n - 1 /\ 1 .. n - 1 \subseteq 1 .. n
      BY <1>2, <1>4
    <3> QED
      BY <1>4, <3>1, <3>2
  <2>2. \A u \in Targets \cap (present \cup {goal}) : \A j \in 1 .. Len(prereqs[u]) :
          Edge(depends, u, j) \/ ToCome(stack', u, j)
    <3> SUFFICES ASSUME NEW u \in Targets \cap (present \cup {goal}),
                        NEW j \in 1 .. Len(prereqs[u]), ~Edge(depends, u, j)
                 PROVE  ToCome(stack', u, j)
      OBVIOUS
    <3>1. PICK k \in 1 .. n : stack[k].target = u /\ stack[k].next <= j
      BY <1>1 DEF GInv, Building, ToCome
    <3>2. k # n
      <4>1. prereqs[u] \in Seq(Nodes)
        BY <1>2
      <4>2. stack[n].next \in Nat
        BY <1>3 DEF Frame
      <4> QED
        BY <1>1, <1>2, <3>1, <4>1, <4>2
    <3>3. k \in 1 .. n - 1 /\ 1 .. Len(stack') = 1 .. n - 1
      BY <1>2, <1>4, <3>1, <3>2
    <3> QED
      BY <1>4, <3>1, <3>3 DEF ToCome
  <2> QED
    BY <1>1, <2>1, <2>2 DEF GInv, Building, Place, ToCome, Edge
<1>6. EdgesSound'
  BY <1>1, GoalKept DEF GInv, EdgesSound
<1>7. OrderIsSound' /\ Ordered'
  BY <1>1, OrdersKept
<1>8. TypeOK'
  BY <1>1, <1>4 DEF GInv, TypeOK, Frame
<1> QED
  BY <1>1, <1>2, <1>5, <1>6, <1>7, <1>8 DEF GInv

(* graph_add_leafs only looks at nodes. *)
LEMMA ScannedNodes == Scanned \subseteq Nodes
<1>1. NTarget \in Nat /\ NFactvar \in Nat /\ NDresvar \in Nat /\ Targets \subseteq Nodes
  BY SizeAssumption, NodesFinite
<1>2. \A i \in NTarget .. NFactvar - 1 : NTarget + 1 + i \in Nodes
  BY <1>1 DEF Nodes, N
<1>3. \A i \in NTarget .. NDresvar - 1 : NTarget + NFactvar + 1 + i \in Nodes
  BY <1>1 DEF Nodes, N
<1> QED
  BY <1>1, <1>2, <1>3 DEF Scanned

(* When the recursion is over, the graph is complete. *)
LEMMA GraphComplete ==
  ASSUME GInv, phase = "build", stack = <<>>
  PROVE  Below(prereqs, goal) \subseteq present /\ Whole(depends, Nodes, InGraph)
<1>1. /\ goal \in Targets /\ prereqs \in [Targets -> Seq(Nodes)] /\ present \subseteq Nodes
      /\ EdgesSound
  BY DEF GInv, TypeOK
<1>2. \A t \in Targets \cap (present \cup {goal}) : \A x \in ToSet(prereqs[t]) :
        x \in Nodes /\ t \in ToSet(depends[x]) /\ x \in present
  <2> SUFFICES ASSUME NEW t \in Targets \cap (present \cup {goal}), NEW x \in ToSet(prereqs[t])
               PROVE  x \in Nodes /\ t \in ToSet(depends[x]) /\ x \in present
    OBVIOUS
  <2>1. prereqs[t] \in Seq(Nodes)
    BY <1>1
  <2>2. PICK i \in 1 .. Len(prereqs[t]) : x = prereqs[t][i]
    BY <2>1 DEF ToSet
  <2>3. x \in Nodes
    BY <2>1, <2>2
  <2>4. ~ToCome(stack, t, i)
    <3>1. Len(stack) = 0
      OBVIOUS
    <3> QED
      BY <3>1 DEF ToCome
  <2>5. t \in ToSet(depends[x])
    BY <2>2, <2>4 DEF GInv, Building, Edge
  <2> QED
    BY <1>1, <2>3, <2>5 DEF EdgesSound
<1>3. Below(prereqs, goal) \subseteq present
  <2>1. ToSet(prereqs[goal]) \subseteq present
    BY <1>1, <1>2
  <2>2. Closed(prereqs, present)
    BY <1>2 DEF Closed
  <2> QED
    BY <1>1, <2>1, <2>2, BelowLeast
<1> QED
  BY <1>2, <1>3 DEF Whole, InGraph

(* There is nothing in the graph of a target without prerequisites. *)
LEMMA EmptyGraph ==
  ASSUME NEW r \in [Targets -> Seq(Nodes)], NEW t \in Targets, r[t] = <<>>
  PROVE  Below(r, t) = {}
<1>1. ToSet(r[t]) = {} /\ Closed(r, {})
  BY DEF ToSet, Closed
<1> QED
  BY <1>1, BelowLeast

(* graph_add_leafs adds the goal at most, and the sort begins with an empty queue. *)
LEMMA AddLeafsStep == ASSUME GInv, AddLeafs PROVE GInv'
<1>1. /\ phase = "build" /\ stack = <<>> /\ phase' = "count"
      /\ present' = present \cup UNION {ToSet(depends[x]) : x \in Scanned}
      /\ scan' = 1 /\ edges' = NoneCounted /\ queue' = EmptyQueue
      /\ head' = 0 /\ tail' = 0 /\ sorted' = <<>>
      /\ UNCHANGED <<prereqs, goal, stack, depends, order>>
  BY DEF AddLeafs
<1>2. /\ goal \in Targets /\ prereqs \in [Targets -> Seq(Nodes)] /\ present \subseteq Nodes
      /\ depends \in [Nodes -> Seq(Targets)] /\ stack \in Seq(Frame) /\ EdgesSound
  BY <1>1 DEF GInv, TypeOK, Frame
<1>3. Below(prereqs, goal) \subseteq present /\ Whole(depends, Nodes, InGraph)
  BY <1>1, GraphComplete
<1>4. /\ present \subseteq present' /\ present' \subseteq Graphed /\ present' \subseteq Nodes
      /\ present' \subseteq InGraph
  <2>1. \A x \in Scanned : ToSet(depends[x]) \subseteq Graphed
    <3> SUFFICES ASSUME NEW x \in Scanned, NEW t \in ToSet(depends[x]), prereqs[goal] = <<>>
                 PROVE  FALSE
      BY <1>2, ScannedNodes DEF EdgesSound, Graphed
    <3>1. t \in InGraph /\ x \in ToSet(prereqs[t])
      BY <1>2, ScannedNodes DEF EdgesSound
    <3>2. t = goal
      BY <1>2, <3>1, EmptyGraph DEF InGraph
    <3>3. ToSet(prereqs[goal]) = {}
      BY DEF ToSet
    <3> QED
      BY <3>1, <3>2, <3>3
  <2>2. present \subseteq Graphed
    BY <1>1, <1>2, PresentBelow, EmptyGraph DEF InGraph, Graphed
  <2>3. InGraph \subseteq Nodes
    BY <1>2, BelowLeast, NodesFinite DEF InGraph
  <2> QED
    BY <1>1, <2>1, <2>2, <2>3 DEF Graphed
<1>5. InGraph' = InGraph /\ Graphed' = Graphed
  BY <1>1, GoalKept DEF Graphed
<1>6. EdgesSound'
  BY <1>1, <1>2, <1>4, <1>5 DEF EdgesSound
<1>7. Built'
  BY <1>1, <1>3, <1>4, <1>5 DEF Built
<1>8. N \in Nat \ {0} /\ 0 \in 0 .. N - 1 /\ 1 \in 1 .. N + 1
  BY NodesFinite
<1>9. Queued' = {} /\ QueueSound'
  <2>1. Slots(0, 0) = {}
    BY <1>8 DEF Slots
  <2> QED
    BY <1>1, <2>1 DEF Queued, QueueSound
<1>10. Counting'
  <2>1. 1 .. 1 - 1 = {} /\ Looked(present', scan') = {}
    BY <1>1 DEF Looked
  <2>2. \A t \in Nodes : edges'[t] = Cardinality({})
    BY <1>1, FS_EmptySet DEF NoneCounted
  <2>3. \A t \in Nodes : {x \in {} : t \in ToSet(depends'[x])} = {}
    OBVIOUS
  <2>4. \A t \in Nodes : edges'[t] = Incoming(depends', {}, t)
    BY <2>2, <2>3 DEF Incoming
  <2>5. Whole(depends, Nodes, InGraph)'
    BY <1>1, <1>3, <1>5 DEF Whole
  <2>6. (scan <= N /\ sorted = <<>>)'
    BY <1>1, <1>8
  <2>7. (Queued = {x \in Looked(present, scan) : IsSource(x)})'
    BY <1>9, <2>1
  <2>8. (\A t \in Nodes : edges[t] = Incoming(depends, Looked(present, scan), t))'
    BY <2>1, <2>4
  <2> QED
    BY <2>5, <2>6, <2>7, <2>8 DEF Counting
<1>11. OrderIsSound' /\ Ordered'
  BY <1>1, OrdersKept
<1>12. TypeOK'
  <2>1. edges' \in [Nodes -> Nat] /\ queue' \in [0 .. N - 1 -> 0 .. N] /\ sorted' \in Seq(Nodes)
    BY <1>1, <1>8 DEF NoneCounted, EmptyQueue
  <2> QED
    BY <1>1, <1>2, <1>4, <1>8, <2>1 DEF GInv, TypeOK, Frame
<1> QED
  BY <1>1, <1>2, <1>6, <1>7, <1>9, <1>10, <1>11, <1>12 DEF GInv

-------------------------------------------------------------------------------
(* The edges are counted.                                                  *)

(* dres_sort_graph looks at every node once. *)
LEMMA ScanOnce ==
  /\ \A i \in 1 .. N : Scan(i) \in Nodes
  /\ \A i, j \in 1 .. N : Scan(i) = Scan(j) => i = j
  /\ \A x \in Nodes : \E i \in 1 .. N : Scan(i) = x
<1>1. NTarget \in Nat /\ NFactvar \in Nat /\ NDresvar \in Nat /\ N = NTarget + NFactvar + NDresvar
  BY SizeAssumption DEF N
<1>2. /\ \A i \in 1 .. N : Scan(i) \in Nodes
      /\ \A i, j \in 1 .. N : Scan(i) = Scan(j) => i = j
  BY <1>1 DEF Scan, Nodes
<1>3. ASSUME NEW x \in Nodes PROVE \E i \in 1 .. N : Scan(i) = x
  <2> DEFINE i == IF x > NTarget + NFactvar THEN x - NTarget - NFactvar
                  ELSE IF x > NTarget THEN NDresvar + (x - NTarget)
                  ELSE NDresvar + NFactvar + x
  <2>1. i \in 1 .. N /\ Scan(i) = x
    BY <1>1 DEF Scan, Nodes
  <2> QED
    BY <2>1
<1> QED
  BY <1>2, <1>3

(* Edges into a node, zero of them and one more or less. *)
LEMMA IncomingNone ==
  ASSUME NEW d, NEW X, X \subseteq Nodes, NEW t
  PROVE  /\ Incoming(d, X, t) \in Nat
         /\ Incoming(d, X, t) = 0 <=> \A x \in X : t \notin ToSet(d[x])
<1> DEFINE S == {x \in X : t \in ToSet(d[x])}
<1>1. IsFiniteSet(S)
  BY NodesFinite, FS_Subset
<1>2. Cardinality(S) \in Nat /\ (Cardinality(S) = 0 <=> S = {})
  <2> HIDE DEF S
  <2> QED
    BY <1>1, FS_CardinalityType, FS_EmptySet
<1> QED
  BY <1>2 DEF Incoming

LEMMA IncomingMore ==
  ASSUME NEW d, NEW X, X \subseteq Nodes, NEW x \in Nodes \ X, NEW t
  PROVE  Incoming(d, X \cup {x}, t) =
           IF t \in ToSet(d[x]) THEN Incoming(d, X, t) + 1 ELSE Incoming(d, X, t)
<1> DEFINE S == {y \in X : t \in ToSet(d[y])}
           T == {y \in X \cup {x} : t \in ToSet(d[y])}
<1>1. IsFiniteSet(S) /\ x \notin S
  BY NodesFinite, FS_Subset
<1>2. T = IF t \in ToSet(d[x]) THEN S \cup {x} ELSE S
  OBVIOUS
<1>3. Cardinality(S \cup {x}) = Cardinality(S) + 1
  <2> HIDE DEF S
  <2> QED
    BY <1>1, FS_AddElement
<1> QED
  BY <1>2, <1>3 DEF Incoming

(* The counts of edges that are added up for the node looked at. *)
LEMMA LookedMore ==
  ASSUME GInv, phase = "count"
  PROVE  /\ Scan(scan) \in Nodes /\ Scan(scan) \notin Looked(present, scan)
         /\ Looked(present, scan + 1) =
              IF Scan(scan) \in present THEN Looked(present, scan) \cup {Scan(scan)}
                                        ELSE Looked(present, scan)
<1>1. scan \in 1 .. N /\ N \in Nat
  BY NodesFinite DEF GInv, TypeOK, Counting
<1>2. Scan(scan) \in Nodes
  BY <1>1, ScanOnce
<1>3. \A i \in 1 .. scan - 1 : i \in 1 .. N /\ i # scan
  BY <1>1
<1>4. Scan(scan) \notin Looked(present, scan)
  BY <1>1, <1>3, ScanOnce DEF Looked
<1>5. 1 .. (scan + 1) - 1 = (1 .. scan - 1) \cup {scan}
  BY <1>1
<1> QED
  BY <1>2, <1>4, <1>5 DEF Looked

(* The goal is no source: its graph would be empty. *)
LEMMA GoalNoSource ==
  ASSUME GInv, Built, Graphed # {}
  PROVE  goal \in Nodes /\ ~IsSource(goal)
<1>1. goal \in Targets /\ prereqs[goal] # <<>>
  BY DEF GInv, TypeOK, Graphed
<1> QED
  BY <1>1, NodesFinite DEF IsSource

(* A node of the graph without edges into it is a source, and is there. *)
LEMMA SourcesReady ==
  ASSUME GInv, EdgesSound, Built, Whole(depends, Nodes, InGraph),
         NEW x \in Nodes
  PROVE  /\ x \in present /\ IsSource(x) => Incoming(depends, present, x) = 0
         /\ x \in Graphed /\ Incoming(depends, present, x) = 0 => x \in present /\ IsSource(x)
<1>1. /\ goal \in Targets /\ prereqs \in [Targets -> Seq(Nodes)] /\ present \subseteq Nodes
      /\ depends \in [Nodes -> Seq(Targets)]
  BY DEF GInv, TypeOK
<1>2. ASSUME x \in present, IsSource(x) PROVE Incoming(depends, present, x) = 0
  <2> SUFFICES ASSUME NEW y \in present, x \in ToSet(depends[y]) PROVE FALSE
    BY <1>1, IncomingNone
  <2>1. y \in Nodes /\ depends[y] \in Seq(Targets)
    BY <1>1
  <2>2. x \in Targets /\ y \in ToSet(prereqs[x])
    <3>1. x \in Targets
      BY <2>1 DEF ToSet
    <3> QED
      BY <2>1, <3>1 DEF EdgesSound
  <2> QED
    BY <1>2, <2>2 DEF IsSource, ToSet
<1>3. ASSUME x \in Graphed, Incoming(depends, present, x) = 0 PROVE IsSource(x)
  <2> SUFFICES ASSUME x \in Targets, prereqs[x] # <<>> PROVE FALSE
    BY DEF IsSource
  <2>1. prereqs[x] \in Seq(Nodes) /\ 1 \in DOMAIN prereqs[x]
    BY <1>1
  <2>2. PICK y : y \in ToSet(prereqs[x])
    BY <2>1 DEF ToSet
  <2>3. y \in Below(prereqs, goal)
    BY <1>1, <1>3, <2>2, BelowLeast DEF Graphed, InGraph, Closed
  <2>4. y \in present /\ y \in Nodes /\ x \in InGraph
    BY <1>1, <1>3, <2>3 DEF Built, Graphed
  <2>5. x \in ToSet(depends[y])
    BY <2>2, <2>4 DEF Whole
  <2> QED
    BY <1>1, <1>3, <2>4, <2>5, IncomingNone
<1>4. ASSUME x \in Graphed, IsSource(x) PROVE x \in present
  BY <1>4, GoalNoSource DEF Graphed, InGraph, Built
<1> QED
  BY <1>2, <1>3, <1>4

(* A node is looked at: its edges are counted, and it is queued if it is a source. *)
LEMMA CountEdgesStep == ASSUME GInv, CountEdges PROVE GInv'
<1> DEFINE x == Scan(scan)  L == Looked(present, scan)  M == Looked(present, scan + 1)
<1>1. /\ phase = "count"
      /\ scan' = scan + 1 /\ phase' = IF scan = N THEN "sort" ELSE "count"
      /\ edges' = IF x \in present THEN Counted(x) ELSE edges
      /\ IF x \in present /\ IsSource(x) THEN Push(x) ELSE UNCHANGED <<queue, tail>>
      /\ UNCHANGED <<prereqs, goal, stack, depends, present, head, sorted, order>>
  BY DEF CountEdges
<1>2. /\ goal \in Targets /\ prereqs \in [Targets -> Seq(Nodes)] /\ present \subseteq Nodes
      /\ depends \in [Nodes -> Seq(Targets)] /\ edges \in [Nodes -> Nat] /\ scan \in 1 .. N
      /\ N \in Nat \ {0} /\ TypeOK
  <2>1. TypeOK /\ scan <= N
    BY <1>1 DEF GInv, Counting
  <2>2. N \in Nat \ {0} /\ prereqs \in [Targets -> Seq(Nodes)]
    BY NodesFinite DEF GInv
  <2>3. scan \in 1 .. N
    BY <2>1, <2>2 DEF TypeOK
  <2> QED
    BY <2>1, <2>2, <2>3 DEF TypeOK
<1>3. EdgesSound /\ Built /\ QueueSound /\ Counting
  BY <1>1 DEF GInv
<1>4. /\ x \in Nodes /\ x \notin L /\ M = IF x \in present THEN L \cup {x} ELSE L
      /\ L \subseteq present /\ M \subseteq present
  BY <1>1, LookedMore DEF Looked
<1> HIDE DEF x, L, M
<1>5. /\ edges' \in [Nodes -> Nat] /\ \A t \in Nodes : edges'[t] = Incoming(depends, M, t)
  <2>1. \A t \in Nodes : edges[t] = Incoming(depends, L, t)
    BY <1>3 DEF Counting, L
  <2>2. CASE x \in present
    <3>1. edges' = [t \in Nodes |-> IF t \in ToSet(depends[x]) THEN edges[t] + 1 ELSE edges[t]]
      BY <1>1, <2>2 DEF Counted
    <3>2. L \subseteq Nodes /\ x \in Nodes \ L /\ M = L \cup {x}
      BY <1>2, <1>4, <2>2
    <3>3. \A t \in Nodes : Incoming(depends, M, t) =
            IF t \in ToSet(depends[x]) THEN Incoming(depends, L, t) + 1 ELSE Incoming(depends, L, t)
      BY <3>2, IncomingMore
    <3>4. \A t \in Nodes : edges[t] \in Nat
      BY <1>2
    <3> QED
      BY <2>1, <3>1, <3>3, <3>4
  <2>3. CASE x \notin present
    BY <1>1, <1>2, <1>4, <2>1, <2>3
  <2> QED
    BY <2>2, <2>3
<1>6. /\ queue' \in [0 .. N - 1 -> 0 .. N] /\ tail' \in 0 .. N - 1
      /\ Queued' = {y \in M : IsSource(y)} /\ QueueSound'
  <2>1. Queued = {y \in L : IsSource(y)}
    BY <1>3 DEF Counting, L
  <2>2. CASE x \in present /\ IsSource(x)
    <3>1. Push(x) /\ head' = head
      BY <1>1, <2>2
    <3>2. goal \in Nodes /\ ~IsSource(goal)
      BY <1>3, <2>2, GoalNoSource DEF Built
    <3>3. x \in Nodes \ Queued /\ goal \in Nodes \ Queued /\ x # goal
      BY <1>4, <2>1, <2>2, <3>2
    <3>4. /\ queue' \in [0 .. N - 1 -> 0 .. N] /\ tail' \in 0 .. N - 1
          /\ Queued' = Queued \cup {x} /\ QueueSound'
      BY <1>2, <1>3, <3>1, <3>3, Pushed
    <3> QED
      BY <1>4, <2>1, <2>2, <3>4
  <2>3. CASE ~(x \in present /\ IsSource(x))
    <3>1. queue' = queue /\ tail' = tail /\ head' = head
      BY <1>1, <2>3
    <3>2. Queued' = Queued /\ QueueSound'
      BY <1>3, <3>1 DEF Queued, QueueSound
    <3> QED
      BY <1>2, <1>4, <2>1, <2>3, <3>1, <3>2 DEF TypeOK
  <2> QED
    BY <2>2, <2>3
<1>7. InGraph' = InGraph /\ Graphed' = Graphed
  BY <1>1, GoalKept DEF Graphed
<1>8. EdgesSound' /\ Built'
  BY <1>1, <1>3, <1>7 DEF EdgesSound, Built
<1>9. Whole(depends, Nodes, InGraph) /\ sorted = <<>> /\ sorted' = <<>>
  BY <1>1, <1>3 DEF Counting
<1>10. OrderIsSound' /\ Ordered'
  BY <1>1, OrdersKept
<1>11. TypeOK'
  <2>1. scan' \in 1 .. N + 1 /\ phase' \in {"count", "sort"}
    BY <1>1, <1>2
  <2> QED
    BY <1>1, <1>2, <1>5, <1>6, <2>1 DEF TypeOK
<1>12. CASE scan # N
  <2>1. Whole(depends, Nodes, InGraph)'
    BY <1>1, <1>7, <1>9 DEF Whole
  <2>2. (scan <= N /\ sorted = <<>>)'
    BY <1>1, <1>2, <1>9, <1>12
  <2>3. (Queued = {y \in Looked(present, scan) : IsSource(y)})'
    BY <1>1, <1>6 DEF M, IsSource
  <2>4. (\A t \in Nodes : edges[t] = Incoming(depends, Looked(present, scan), t))'
    BY <1>1, <1>5 DEF M
  <2>5. Counting' /\ phase' = "count"
    BY <1>1, <1>12, <2>1, <2>2, <2>3, <2>4 DEF Counting
  <2> QED
    BY <1>1, <1>2, <1>6, <1>8, <1>10, <1>11, <2>5 DEF GInv
<1>13. CASE scan = N
  <2>1. M = present
    <3>1. (N + 1) - 1 = N
      BY <1>2
    <3> QED
      BY <1>2, <1>13, <3>1, ScanOnce DEF M, Looked
  <2>2. \A t \in Nodes : edges'[t] = Incoming(depends, present, t)
    BY <1>5, <2>1
  <2>3. Queued' = {y \in Graphed : edges'[y] = 0}
    <3>1. \A y \in Nodes : y \in present /\ IsSource(y) <=> y \in Graphed /\ edges'[y] = 0
      <4>1. \A y \in Nodes : y \in present => y \in Graphed
        BY <1>3 DEF Built
      <4> QED
        BY <1>3, <1>9, <2>2, <4>1, SourcesReady
    <3>2. Graphed \subseteq Nodes
      BY <1>2, BelowLeast, NodesFinite DEF Graphed, InGraph
    <3> QED
      BY <1>2, <1>6, <2>1, <3>1, <3>2
  <2>4. Done' = {} /\ Len(sorted') = 0 /\ 1 .. Len(sorted') - 1 = {} /\ DOMAIN sorted' = {}
    BY <1>9 DEF Done, ToSet
  <2>5. Whole(depends, Nodes \ Done, InGraph)'
    BY <1>1, <1>7, <1>9, <2>4 DEF Whole
  <2>6. (\A i \in 1 .. Len(sorted) - 1 : depends[sorted[i]] = <<>>)'
    BY <2>4
  <2>7. (Queued \cap Done = {} /\ IsInjective(sorted))'
    BY <2>4 DEF IsInjective
  <2>8. (Queued \cup Done = {y \in Graphed : edges[y] = 0})'
    BY <1>7, <2>3, <2>4
  <2>9. (\A t \in Nodes : edges[t] = Incoming(depends, present, t))'
    BY <1>1, <2>2
  <2>10. Sorting' /\ After(prereqs, sorted)' /\ phase' = "sort"
    BY <1>1, <1>13, <2>4, <2>5, <2>6, <2>7, <2>8, <2>9 DEF Sorting, After
  <2> QED
    BY <1>1, <1>2, <1>6, <1>8, <1>10, <1>11, <2>10 DEF GInv
<1> QED
  BY <1>12, <1>13

-------------------------------------------------------------------------------
(* The graph is sorted.                                                    *)

(* What the steps of the sort rely on. *)
LEMMA SortTypes ==
  ASSUME GInv, phase = "sort"
  PROVE  /\ TypeOK /\ EdgesSound /\ Built /\ QueueSound /\ Sorting /\ After(prereqs, sorted)
         /\ goal \in Targets /\ prereqs \in [Targets -> Seq(Nodes)] /\ present \subseteq Nodes
         /\ depends \in [Nodes -> Seq(Targets)] /\ edges \in [Nodes -> Nat]
         /\ sorted \in Seq(Nodes) /\ InGraph \subseteq Nodes /\ Graphed \subseteq InGraph
<1>1. /\ TypeOK /\ EdgesSound /\ Built /\ QueueSound /\ Sorting /\ After(prereqs, sorted)
      /\ prereqs \in [Targets -> Seq(Nodes)]
  BY DEF GInv
<1>2. /\ goal \in Targets /\ present \subseteq Nodes /\ depends \in [Nodes -> Seq(Targets)]
      /\ edges \in [Nodes -> Nat] /\ sorted \in Seq(Nodes)
  BY <1>1 DEF TypeOK
<1>3. InGraph \subseteq Nodes /\ Graphed \subseteq InGraph
  BY <1>1, <1>2, BelowLeast, NodesFinite DEF InGraph, Graphed
<1> QED
  BY <1>1, <1>2, <1>3

(* A node from the queue is sorted after its own prerequisites. *)
LEMMA SortNodeStep == ASSUME GInv, SortNode PROVE GInv'
<1> DEFINE x == queue[head]  n == Len(sorted)
<1>1. /\ phase = "sort" /\ NodeDone /\ head # tail
      /\ sorted' = Append(sorted, x) /\ head' = (head + 1) % N
      /\ UNCHANGED <<prereqs, goal, phase, stack, depends, present, scan, edges, queue, tail, order>>
  BY DEF SortNode
<1>2. /\ TypeOK /\ EdgesSound /\ Built /\ QueueSound /\ Sorting /\ After(prereqs, sorted)
      /\ goal \in Targets /\ prereqs \in [Targets -> Seq(Nodes)] /\ present \subseteq Nodes
      /\ depends \in [Nodes -> Seq(Targets)] /\ edges \in [Nodes -> Nat]
      /\ sorted \in Seq(Nodes) /\ InGraph \subseteq Nodes /\ Graphed \subseteq InGraph
  BY <1>1, SortTypes
<1>3. /\ head' \in 0 .. N - 1 /\ x \in Queued /\ Queued' = Queued \ {x} /\ QueueSound'
  BY <1>1, <1>2, PoppedNode
<1>4. x \in Nodes /\ x \notin Done /\ x \in Graphed /\ edges[x] = 0
  BY <1>2, <1>3 DEF QueueSound, Sorting
<1> HIDE DEF x
<1>5. /\ sorted' \in Seq(Nodes) /\ Len(sorted') = n + 1 /\ n \in Nat /\ sorted'[n + 1] = x
      /\ \A k \in 1 .. n : sorted'[k] = sorted[k]
      /\ Done' = Done \cup {x} /\ IsInjective(sorted')
  <2>1. IsInjective(sorted) /\ n \in Nat
    BY <1>2 DEF Sorting
  <2> QED
    BY <1>1, <1>2, <1>4, <2>1, AppendNew DEF Done
<1>6. InGraph' = InGraph /\ Graphed' = Graphed
  BY <1>1, GoalKept DEF Graphed
<1>7. EdgesSound' /\ Built'
  BY <1>1, <1>2, <1>6 DEF EdgesSound, Built
<1>8. Sorting'
  <2>1. Whole(depends, Nodes \ Done, InGraph)'
    BY <1>1, <1>2, <1>5, <1>6 DEF Sorting, Whole
  <2>2. (\A i \in 1 .. Len(sorted) - 1 : depends[sorted[i]] = <<>>)'
    <3> SUFFICES ASSUME NEW i \in 1 .. n PROVE depends[sorted[i]] = <<>>
      BY <1>1, <1>5
    <3>1. CASE i \in 1 .. n - 1
      BY <1>2, <3>1 DEF Sorting
    <3>2. CASE i = n
      BY <1>1, <1>5, <3>2 DEF NodeDone, Last
    <3> QED
      BY <1>5, <3>1, <3>2
  <2>3. (Queued \cap Done = {} /\ IsInjective(sorted))'
    BY <1>2, <1>3, <1>5 DEF Sorting
  <2>4. (Queued \cup Done = {y \in Graphed : edges[y] = 0})'
    BY <1>1, <1>2, <1>3, <1>5, <1>6 DEF Sorting
  <2>5. (\A t \in Nodes : edges[t] = Incoming(depends, present, t))'
    BY <1>1, <1>2 DEF Sorting
  <2> QED
    BY <2>1, <2>2, <2>3, <2>4, <2>5 DEF Sorting
<1>9. After(prereqs, sorted)'
  <2> SUFFICES ASSUME NEW i \in 1 .. n + 1, sorted'[i] \in Targets, NEW y \in ToSet(prereqs[sorted'[i]])
               PROVE  y \in {sorted'[j] : j \in 1 .. i - 1}
    <3>1. prereqs' = prereqs /\ DOMAIN sorted' = 1 .. n + 1
      BY <1>1, <1>5
    <3> QED
      BY <3>1 DEF After
  <2>1. CASE i \in 1 .. n
    <3>1. y \in {sorted[j] : j \in 1 .. i - 1}
      <4>1. sorted'[i] = sorted[i]
        BY <1>5, <2>1
      <4>2. i \in DOMAIN sorted
        BY <1>2, <2>1
      <4> QED
        BY <1>2, <4>1, <4>2 DEF After
    <3>2. 1 .. i - 1 \subseteq 1 .. n
      BY <1>5, <2>1
    <3> QED
      BY <1>5, <3>1, <3>2
  <2>2. CASE i = n + 1
    <3>1. x \in Targets /\ y \in ToSet(prereqs[x]) /\ x \in InGraph
      BY <1>2, <1>4, <1>5, <2>2
    <3>2. y \in Below(prereqs, goal)
      BY <1>2, <3>1, BelowLeast DEF InGraph, Closed
    <3>3. y \in present /\ y \in Nodes
      BY <1>2, <3>2 DEF Built
    <3>4. y \in Done
      <4> SUFFICES ASSUME y \notin Done PROVE FALSE
        OBVIOUS
      <4>1. x \in ToSet(depends[y])
        BY <1>2, <3>1, <3>3 DEF Sorting, Whole
      <4>2. Incoming(depends, present, x) = 0
        BY <1>2, <1>4 DEF Sorting
      <4> QED
        BY <1>2, <3>3, <4>1, <4>2, IncomingNone
    <3>5. PICK j \in 1 .. n : y = sorted[j]
      BY <1>2, <3>4 DEF Done, ToSet
    <3> QED
      BY <1>5, <2>2, <3>5
  <2> QED
    BY <1>5, <2>1, <2>2
<1>10. OrderIsSound' /\ Ordered'
  BY <1>1, OrdersKept
<1>11. TypeOK'
  BY <1>1, <1>2, <1>3, <1>5 DEF TypeOK
<1> QED
  BY <1>1, <1>2, <1>3, <1>7, <1>8, <1>9, <1>10, <1>11 DEF GInv

(* One edge less leads to the target it led to. *)
LEMMA IncomingLess ==
  ASSUME NEW d, NEW e, NEW X, X \subseteq Nodes, NEW x \in X, NEW t \in Nodes,
         \A y \in X : y # x => e[y] = d[y],
         t \in ToSet(d[x]), ToSet(e[x]) = ToSet(d[x]) \ {t}
  PROVE  /\ Incoming(e, X, t) = Incoming(d, X, t) - 1
         /\ \A u \in Nodes : u # t => Incoming(e, X, u) = Incoming(d, X, u)
<1> DEFINE S(u) == {y \in X : u \in ToSet(d[y])}
           T(u) == {y \in X : u \in ToSet(e[y])}
<1>1. T(t) = S(t) \ {x} /\ x \in S(t) /\ \A u : u # t => T(u) = S(u)
  OBVIOUS
<1>2. IsFiniteSet(S(t))
  BY NodesFinite, FS_Subset
<1>3. Cardinality(S(t) \ {x}) = Cardinality(S(t)) - 1
  <2> HIDE DEF S
  <2> QED
    BY <1>1, <1>2, FS_RemoveElement
<1> QED
  BY <1>1, <1>3 DEF Incoming

(* When the last edge into a target is deleted, the target is queued. *)
LEMMA DeleteEdgeStep == ASSUME GInv, DeleteEdge PROVE GInv'
<1> DEFINE x == Last(sorted)  t == Head(depends[x])  n == Len(sorted)
<1>1. /\ phase = "sort" /\ ~NodeDone
      /\ depends' = [depends EXCEPT ![x] = Tail(@)]
      /\ edges' = [edges EXCEPT ![t] = @ - 1]
      /\ IF Ready(t) THEN Push(t) ELSE UNCHANGED <<queue, tail>>
      /\ UNCHANGED <<prereqs, goal, phase, stack, present, scan, head, sorted, order>>
  BY DEF DeleteEdge
<1>2. /\ TypeOK /\ EdgesSound /\ Built /\ QueueSound /\ Sorting /\ After(prereqs, sorted)
      /\ goal \in Targets /\ prereqs \in [Targets -> Seq(Nodes)] /\ present \subseteq Nodes
      /\ depends \in [Nodes -> Seq(Targets)] /\ edges \in [Nodes -> Nat]
      /\ sorted \in Seq(Nodes) /\ InGraph \subseteq Nodes /\ Graphed \subseteq InGraph
  BY <1>1, SortTypes
<1>3. sorted # <<>> /\ depends[x] # <<>>
  BY <1>1 DEF NodeDone
<1>4. /\ n \in Nat \ {0} /\ DOMAIN sorted = 1 .. n /\ x = sorted[n]
      /\ x \in Nodes /\ x \in Done /\ x \notin Queued
  <2>1. n \in Nat \ {0} /\ DOMAIN sorted = 1 .. n /\ x = sorted[n] /\ x \in Nodes /\ n \in 1 .. n
    BY <1>2, <1>3 DEF Last
  <2>2. x \in Done
    BY <2>1 DEF Done, ToSet
  <2> QED
    BY <1>2, <2>1, <2>2 DEF Sorting
<1>5. /\ Tail(depends[x]) \in Seq(Targets) /\ IsInjective(Tail(depends[x]))
      /\ t \in Targets /\ t \in ToSet(depends[x])
      /\ ToSet(Tail(depends[x])) = ToSet(depends[x]) \ {t}
  <2>1. depends[x] \in Seq(Targets) /\ IsInjective(depends[x])
    BY <1>2, <1>4 DEF EdgesSound
  <2> QED
    BY <1>3, <2>1, HeadRemoved
<1> HIDE DEF x, t
<1>6. /\ depends' \in [Nodes -> Seq(Targets)] /\ depends'[x] = Tail(depends[x])
      /\ \A y \in Nodes : y # x => depends'[y] = depends[y]
  BY <1>1, <1>2, <1>4, <1>5
<1>7. x \in present /\ t \in Graphed /\ t \in Nodes
  BY <1>2, <1>4, <1>5 DEF EdgesSound, Built, Graphed
<1>8. /\ Incoming(depends', present, t) = Incoming(depends, present, t) - 1
      /\ \A u \in Nodes : u # t => Incoming(depends', present, u) = Incoming(depends, present, u)
  <2>1. \A y \in present : y # x => depends'[y] = depends[y]
    BY <1>2, <1>6
  <2>2. t \in ToSet(depends[x]) /\ ToSet(depends'[x]) = ToSet(depends[x]) \ {t}
    BY <1>5, <1>6
  <2>3. present \subseteq Nodes /\ x \in present /\ t \in Nodes
    BY <1>2, <1>7
  <2> QED
    BY <2>1, <2>2, <2>3, IncomingLess
<1>9. /\ edges[t] \in Nat \ {0}
      /\ edges'[t] = edges[t] - 1 /\ \A u \in Nodes : u # t => edges'[u] = edges[u]
      /\ edges' \in [Nodes -> Nat]
  <2>1. edges[t] = Incoming(depends, present, t)
    BY <1>2, <1>7 DEF Sorting
  <2>2. edges[t] \in Nat \ {0}
    BY <1>2, <1>5, <1>7, <2>1, IncomingNone
  <2>3. edges[t] - 1 \in Nat
    BY <2>2
  <2> QED
    BY <1>1, <1>2, <1>7, <2>2, <2>3
<1>10. t \notin Queued /\ t \notin Done /\ t # x
  <2>1. t \notin Queued \cup Done
    BY <1>2, <1>9 DEF Sorting
  <2> QED
    BY <1>4, <2>1
<1>11. InGraph' = InGraph /\ Graphed' = Graphed /\ Done' = Done
  BY <1>1, GoalKept DEF Graphed, Done
<1>12. /\ queue' \in [0 .. N - 1 -> 0 .. N] /\ tail' \in 0 .. N - 1
       /\ Queued' = IF edges[t] = 1 THEN Queued \cup {t} ELSE Queued
       /\ QueueSound'
  <2>1. CASE edges[t] = 1
    <3>1. Push(t) /\ head' = head
      BY <1>1, <2>1 DEF Ready
    <3>2. t \in Nodes \ Queued /\ x \in Nodes \ Queued /\ t # x
      BY <1>4, <1>7, <1>10
    <3> QED
      BY <1>2, <2>1, <3>1, <3>2, Pushed
  <2>2. CASE edges[t] # 1
    <3>1. queue' = queue /\ tail' = tail /\ head' = head
      BY <1>1, <2>2 DEF Ready
    <3> QED
      BY <1>2, <2>2, <3>1 DEF Queued, QueueSound, TypeOK
  <2> QED
    BY <2>1, <2>2
<1>13. EdgesSound'
  <2> SUFFICES ASSUME NEW y \in Nodes
               PROVE  /\ \A u \in ToSet(depends'[y]) :
                           u \in InGraph /\ y \in ToSet(prereqs[u]) /\ y \in present
                      /\ IsInjective(depends'[y])
    BY <1>1, <1>11 DEF EdgesSound
  <2>1. CASE y = x
    BY <1>2, <1>4, <1>5, <1>6, <2>1 DEF EdgesSound
  <2>2. CASE y # x
    BY <1>2, <1>6, <2>2 DEF EdgesSound
  <2> QED
    BY <2>1, <2>2
<1>14. Built'
  BY <1>1, <1>2, <1>11 DEF Built
<1>15. Sorting'
  <2>1. Whole(depends, Nodes \ Done, InGraph)'
    BY <1>1, <1>2, <1>4, <1>6, <1>11 DEF Sorting, Whole
  <2>2. (\A i \in 1 .. Len(sorted) - 1 : depends[sorted[i]] = <<>>)'
    <3> SUFFICES ASSUME NEW i \in 1 .. n - 1 PROVE depends'[sorted[i]] = <<>>
      BY <1>1
    <3>1. depends[sorted[i]] = <<>> /\ sorted[i] \in Nodes
      BY <1>2, <1>4 DEF Sorting
    <3> QED
      BY <1>3, <1>6, <3>1
  <2>3. (Queued \cap Done = {} /\ IsInjective(sorted))'
    BY <1>1, <1>2, <1>10, <1>11, <1>12 DEF Sorting
  <2>4. (Queued \cup Done = {y \in Graphed : edges[y] = 0})'
    <3>1. Queued \cup Done = {y \in Graphed : edges[y] = 0}
      BY <1>2 DEF Sorting
    <3>2. Graphed \subseteq Nodes
      BY <1>2
    <3>3. {y \in Graphed : edges'[y] = 0} =
            IF edges[t] = 1 THEN {y \in Graphed : edges[y] = 0} \cup {t}
                            ELSE {y \in Graphed : edges[y] = 0}
      BY <1>7, <1>9, <3>2
    <3> QED
      BY <1>11, <1>12, <3>1, <3>3
  <2>5. (\A u \in Nodes : edges[u] = Incoming(depends, present, u))'
    <3>1. \A u \in Nodes : edges[u] = Incoming(depends, present, u)
      BY <1>2 DEF Sorting
    <3> QED
      BY <1>1, <1>7, <1>8, <1>9, <3>1
  <2> QED
    BY <2>1, <2>2, <2>3, <2>4, <2>5 DEF Sorting
<1>16. After(prereqs, sorted)'
  BY <1>1, <1>2 DEF After
<1>17. OrderIsSound' /\ Ordered'
  BY <1>1, OrdersKept
<1>18. TypeOK'
  BY <1>1, <1>2, <1>6, <1>9, <1>12 DEF TypeOK
<1> QED
  BY <1>1, <1>2, <1>12, <1>13, <1>14, <1>15, <1>16, <1>17, <1>18 DEF GInv

(* When the queue is empty, the nodes that are left have edges into them. *)
LEMMA QueueEmpty ==
  ASSUME GInv, phase = "sort", head = tail
  PROVE  Done = {y \in Graphed : edges[y] = 0}
<1>1. TypeOK /\ Sorting
  BY DEF GInv
<1>2. Slots(head, tail) = {}
  BY <1>1 DEF Slots, TypeOK
<1> QED
  BY <1>1, <1>2 DEF Queued, Sorting

(* What is below a target is a prerequisite of it or of something else below it. *)
LEMMA BelowHasDependent ==
  ASSUME NEW r \in [Targets -> Seq(Nodes)], NEW t \in Targets, NEW y \in Below(r, t)
  PROVE  \E u \in Targets \cap (Below(r, t) \cup {t}) : y \in ToSet(r[u])
<1> SUFFICES ASSUME \A u \in Targets \cap (Below(r, t) \cup {t}) : y \notin ToSet(r[u])
             PROVE  FALSE
  OBVIOUS
<1> DEFINE S == Below(r, t) \ {y}
<1>1. ToSet(r[t]) \subseteq S /\ Closed(r, S) /\ S \subseteq Nodes
  BY BelowLeast DEF Closed
<1> QED
  BY <1>1, BelowLeast

(* The goal is the last node of an order that has all of its graph. *)
LEMMA GoalIsLast ==
  ASSUME NEW r \in [Targets -> Seq(Nodes)], NEW t \in Targets, NEW s \in Seq(Nodes),
         ToSet(s) = Below(r, t) \cup {t}, IsInjective(s), After(r, s)
  PROVE  Last(s) = t /\ s # <<>>
<1> DEFINE n == Len(s)
<1>1. n \in Nat /\ DOMAIN s = 1 .. n /\ \A i \in 1 .. n : s[i] \in Below(r, t) \cup {t}
  BY DEF ToSet
<1>2. PICK k \in 1 .. n : s[k] = t
  BY <1>1 DEF ToSet
<1>3. n \in 1 .. n
  BY <1>1, <1>2
<1>4. s[n] = t
  <2> SUFFICES ASSUME s[n] # t PROVE FALSE
    OBVIOUS
  <2>1. s[n] \in Below(r, t)
    BY <1>1, <1>3
  <2>2. PICK u \in Targets \cap (Below(r, t) \cup {t}) : s[n] \in ToSet(r[u])
    BY <2>1, BelowHasDependent
  <2>3. PICK i \in 1 .. n : s[i] = u
    BY <1>1, <2>2 DEF ToSet
  <2>4. s[n] \in {s[j] : j \in 1 .. i - 1}
    BY <1>1, <2>2, <2>3 DEF After
  <2>5. PICK j \in 1 .. i - 1 : s[n] = s[j]
    BY <2>4
  <2>6. j \in 1 .. n /\ j # n
    <3> HIDE DEF n
    <3> QED
      BY <1>1, <2>3, <2>5
  <2> QED
    BY <1>1, <1>3, <2>5, <2>6 DEF IsInjective
<1> QED
  BY <1>1, <1>3, <1>4 DEF Last

(* The order of the goal is recorded, and the next target follows. *)
LEMMA SortDoneStep == ASSUME GInv, SortDone PROVE GInv'
<1>1. /\ phase = "sort" /\ head = tail /\ ~EdgesLeft
      /\ order' = [order EXCEPT ![goal] = sorted]
      /\ IF goal < NTarget THEN goal' = goal + 1 /\ phase' = "start"
                           ELSE goal' = goal /\ phase' = "finalized"
      /\ UNCHANGED <<prereqs, stack, depends, present, scan, edges, queue, head, tail, sorted>>
  BY DEF SortDone
<1>2. /\ TypeOK /\ Sorting /\ After(prereqs, sorted)
      /\ goal \in Targets /\ prereqs \in [Targets -> Seq(Nodes)]
      /\ sorted \in Seq(Nodes) /\ InGraph \subseteq Nodes
      /\ order \in [Targets -> Seq(Nodes)] /\ OrderIsSound /\ Ordered
  BY <1>1, SortTypes DEF TypeOK, GInv
<1>3. IsInjective(sorted) /\ ToSet(sorted) = Graphed
  <2>1. \A y \in Nodes : edges[y] = 0
    BY <1>1 DEF EdgesLeft
  <2>2. Done = {y \in Graphed : edges[y] = 0}
    BY <1>1, QueueEmpty
  <2> QED
    BY <1>2, <2>1, <2>2 DEF Sorting, Done, Graphed
<1>4. sorted # <<>> <=> prereqs[goal] # <<>>
  <2>1. sorted # <<>> <=> ToSet(sorted) # {}
    <3>1. DOMAIN sorted = 1 .. Len(sorted) /\ (sorted # <<>> => 1 \in DOMAIN sorted)
      BY <1>2
    <3>2. sorted = <<>> => DOMAIN sorted = {}
      OBVIOUS
    <3> QED
      BY <3>1, <3>2 DEF ToSet
  <2>2. Graphed # {} <=> prereqs[goal] # <<>>
    BY DEF Graphed, InGraph
  <2> QED
    BY <1>3, <2>1, <2>2
<1>5. ASSUME sorted # <<>>
      PROVE  /\ ToSet(sorted) = Below(prereqs, goal) \cup {goal} /\ Last(sorted) = goal
  <2>1. ToSet(sorted) = Below(prereqs, goal) \cup {goal}
    BY <1>3, <1>4, <1>5 DEF Graphed, InGraph
  <2> QED
    BY <1>2, <1>3, <2>1, GoalIsLast
<1>6. /\ order' \in [Targets -> Seq(Nodes)] /\ order'[goal] = sorted
      /\ \A t \in Targets : t # goal => order'[t] = order[t]
  BY <1>1, <1>2
<1>7. OrderIsSound'
  <2> SUFFICES ASSUME NEW t \in Targets, order'[t] # <<>>
               PROVE  /\ IsInjective(order'[t])
                      /\ ToSet(order'[t]) = Below(prereqs, t) \cup {t}
                      /\ Last(order'[t]) = t
                      /\ After(prereqs, order'[t])
    BY <1>1 DEF OrderIsSound
  <2>1. CASE t = goal
    BY <1>2, <1>3, <1>5, <1>6, <2>1
  <2>2. CASE t # goal
    BY <1>2, <1>6, <2>2 DEF OrderIsSound
  <2> QED
    BY <2>1, <2>2
<1>8. goal' \in Targets /\ Ordered' /\ phase' \in {"start", "finalized"}
  <2>1. NTarget \in Nat /\ Targets = 1 .. NTarget /\ goal \in 1 .. NTarget
    BY <1>2, SizeAssumption DEF Targets
  <2>2. \A t \in Targets : IF t < goal THEN prereqs[t] # <<>> => order[t] # <<>>
                                       ELSE order[t] = <<>>
    BY <1>1, <1>2 DEF Ordered
  <2>3. CASE goal < NTarget
    <3>1. goal' = goal + 1 /\ phase' = "start" /\ goal' \in Targets
      BY <1>1, <2>1, <2>3
    <3>2. \A t \in Targets : t < goal + 1 <=> t < goal \/ t = goal
      BY <2>1
    <3> QED
      BY <1>1, <1>4, <1>6, <2>1, <2>2, <3>1, <3>2 DEF Ordered
  <2>4. CASE ~(goal < NTarget)
    <3>1. goal' = goal /\ phase' = "finalized"
      BY <1>1, <2>4
    <3>2. \A t \in Targets : t < goal \/ t = goal
      BY <2>1, <2>4
    <3> QED
      BY <1>1, <1>2, <1>4, <1>6, <2>2, <3>1, <3>2 DEF Ordered
  <2> QED
    BY <2>3, <2>4
<1>9. TypeOK'
  BY <1>1, <1>2, <1>6, <1>8 DEF TypeOK
<1> QED
  BY <1>1, <1>2, <1>7, <1>8, <1>9 DEF GInv

(* When edges are left, the nodes they lead to are on or behind a cycle. *)
LEMMA EdgesLeftOfCycle ==
  ASSUME GInv, phase = "sort", NodeDone, head = tail, EdgesLeft
  PROVE  Cyclic
<1>1. /\ TypeOK /\ EdgesSound /\ Built /\ QueueSound /\ Sorting /\ After(prereqs, sorted)
      /\ goal \in Targets /\ prereqs \in [Targets -> Seq(Nodes)] /\ present \subseteq Nodes
      /\ depends \in [Nodes -> Seq(Targets)] /\ edges \in [Nodes -> Nat]
      /\ sorted \in Seq(Nodes) /\ InGraph \subseteq Nodes /\ Graphed \subseteq InGraph
  BY SortTypes
<1> DEFINE U == {t \in Targets \cap InGraph : edges[t] # 0}
<1>2. ASSUME NEW x \in Nodes, edges[x] # 0
      PROVE  x \in U /\ \E y \in present : x \in ToSet(depends[y])
  <2>1. edges[x] = Incoming(depends, present, x)
    BY <1>1 DEF Sorting
  <2>2. PICK y \in present : x \in ToSet(depends[y])
    BY <1>1, <1>2, <2>1, IncomingNone
  <2>3. depends[y] \in Seq(Targets) /\ y \in Nodes
    BY <1>1
  <2>4. x \in Targets
    BY <2>2, <2>3 DEF ToSet
  <2> QED
    BY <1>1, <1>2, <2>2, <2>3, <2>4 DEF EdgesSound
<1>3. \A y \in Done : depends[y] = <<>>
  <2>0. DOMAIN sorted = 1 .. Len(sorted)
    BY <1>1
  <2> SUFFICES ASSUME NEW i \in 1 .. Len(sorted) PROVE depends[sorted[i]] = <<>>
    BY <2>0 DEF Done, ToSet
  <2>1. CASE i \in 1 .. Len(sorted) - 1
    BY <1>1, <2>1 DEF Sorting
  <2>2. CASE i = Len(sorted)
    <3>1. Len(sorted) >= 1
      BY <1>1
    <3>2. sorted # <<>>
      BY <3>1
    <3> QED
      BY <2>2, <3>2 DEF NodeDone, Last
  <2> QED
    BY <1>1, <2>1, <2>2
<1>4. \A u \in U : ToSet(prereqs[u]) \cap U # {}
  <2> SUFFICES ASSUME NEW u \in U PROVE ToSet(prereqs[u]) \cap U # {}
    OBVIOUS
  <2>1. PICK y \in present : u \in ToSet(depends[y])
    BY <1>1, <1>2
  <2>2. y \in Nodes /\ y \in ToSet(prereqs[u]) /\ y \in Graphed
    BY <1>1, <2>1 DEF EdgesSound, Built
  <2>3. y \notin Done
    BY <1>3, <2>1 DEF ToSet
  <2>4. edges[y] # 0
    BY <2>2, <2>3, QueueEmpty
  <2> QED
    BY <1>2, <2>2, <2>4
<1>5. U # {} /\ U \subseteq Targets
  BY <1>2 DEF EdgesLeft
<1>6. PICK u \in U, v \in U : v \in ToSet(prereqs[u]) /\ v \in Below(prereqs, v)
  <2> HIDE DEF U
  <2> QED
    BY <1>1, <1>4, <1>5, CycleExists
<1>7. v \in Below(prereqs, goal)
  BY <1>1, <1>6, BelowLeast DEF InGraph, Closed
<1> QED
  BY <1>6, <1>7 DEF Cyclic

(* The ruleset is rejected. *)
LEMMA SortFailsStep == ASSUME GInv, SortFails PROVE GInv'
<1>1. /\ phase = "sort" /\ NodeDone /\ head = tail /\ EdgesLeft /\ phase' = "failed"
      /\ UNCHANGED <<prereqs, goal, stack, depends, present, scan, edges, queue, head, tail,
                     sorted, order>>
  BY DEF SortFails
<1>2. Cyclic'
  BY <1>1, EdgesLeftOfCycle DEF Cyclic
<1>3. OrderIsSound' /\ Ordered' /\ prereqs' \in [Targets -> Seq(Nodes)]
  BY <1>1, OrdersKept
<1>4. TypeOK'
  BY <1>1 DEF GInv, TypeOK
<1> QED
  BY <1>1, <1>2, <1>3, <1>4 DEF GInv

-------------------------------------------------------------------------------
(* The theorems.                                                           *)

(* The invariant is inductive. *)
THEOREM GraphInductive == Spec => []GInv
<1>1. GInv /\ [Next]_vars => GInv'
  <2> SUFFICES ASSUME GInv, [Next]_vars PROVE GInv'
    OBVIOUS
  <2>1. CASE UNCHANGED vars
    <3>1. /\ UNCHANGED <<prereqs, goal, phase, stack, depends, present, scan, edges, queue, head,
                         tail, sorted, order>>
      BY <2>1 DEF vars
    <3>2. InGraph' = InGraph /\ Graphed' = Graphed /\ Queued' = Queued /\ Done' = Done
      BY <3>1, GoalKept DEF Graphed, Queued, Done
    <3>3. (TypeOK /\ OrderIsSound /\ Ordered /\ (phase = "failed" => Cyclic))'
      BY <3>1 DEF GInv, TypeOK, OrderIsSound, Ordered, Cyclic
    <3>4. (phase \in {"build", "count", "sort"} => EdgesSound)'
      BY <3>1, <3>2 DEF GInv, EdgesSound
    <3>5. (phase = "build" => Building)'
      BY <3>1 DEF GInv, Building, Place, ToCome, Edge
    <3>6. (phase \in {"count", "sort"} => Built /\ QueueSound)'
      BY <3>1, <3>2 DEF GInv, Built, QueueSound
    <3>7. (phase = "count" => Counting)'
      BY <3>1, <3>2 DEF GInv, Counting, IsSource, Whole
    <3>8. (phase = "sort" => Sorting /\ After(prereqs, sorted))'
      BY <3>1, <3>2 DEF GInv, Sorting, Whole, After
    <3> QED
      BY <3>1, <3>3, <3>4, <3>5, <3>6, <3>7, <3>8 DEF GInv
  <2> QED
    BY <2>1, NewGraphStep, BuildPrereqStep, BuildReturnStep, AddLeafsStep, CountEdgesStep,
       SortNodeStep, DeleteEdgeStep, SortDoneStep, SortFailsStep DEF Next
<1> QED
  BY <1>1, InitSound, PTL DEF Spec

(* The variables keep their types: the queue of dres_sort_graph, which has *)
(* one slot for every node, never leaves its array, and no count of edges  *)
(* gets negative, whatever the ruleset.                                    *)
THEOREM GraphTypes == Spec => []TypeOK
<1>1. GInv => TypeOK
  BY DEF GInv
<1> QED
  BY <1>1, GraphInductive, PTL

(* Every order that dres_sort_graph records is the one dres_update_goal    *)
(* relies on.                                                              *)
THEOREM OrdersAreSound == Spec => []OrderIsSound
<1>1. GInv => OrderIsSound
  BY DEF GInv
<1> QED
  BY <1>1, GraphInductive, PTL

(* Nothing below a target that has an order is the target itself. *)
LEMMA OrderedNoCycle ==
  ASSUME NEW r \in [Targets -> Seq(Nodes)], NEW t \in Targets, NEW s \in Seq(Nodes), s # <<>>,
         IsInjective(s), Last(s) = t, After(r, s)
  PROVE  t \notin Below(r, t)
<1> DEFINE n == Len(s)  S == {s[j] : j \in 1 .. n - 1}
<1>1. n \in Nat \ {0} /\ DOMAIN s = 1 .. n /\ s[n] = t /\ n \in 1 .. n /\ S \subseteq Nodes
  BY DEF Last
<1>2. t \notin S
  BY <1>1 DEF IsInjective
<1>3. ToSet(r[t]) \subseteq S
  BY <1>1 DEF After
<1>4. Closed(r, S)
  <2> SUFFICES ASSUME NEW i \in 1 .. n - 1, s[i] \in Targets PROVE ToSet(r[s[i]]) \subseteq S
    BY DEF Closed
  <2>1. i \in DOMAIN s
    BY <1>1
  <2>2. ToSet(r[s[i]]) \subseteq {s[j] : j \in 1 .. i - 1}
    BY <2>1 DEF After
  <2>3. 1 .. i - 1 \subseteq 1 .. n - 1
    BY <1>1
  <2> QED
    BY <2>2, <2>3
<1> QED
  BY <1>1, <1>2, <1>3, <1>4, BelowLeast

(* finalize_targets fails for a ruleset with a cycle, and for no other;    *)
(* when it succeeds, every target with prerequisites has an order.         *)
THEOREM RejectedOnlyForCycle == Spec => []RejectedForCycle
<1>1. GInv => RejectedForCycle
  <2> SUFFICES ASSUME GInv PROVE RejectedForCycle
    OBVIOUS
  <2>1. phase = "failed" => Cyclic
    BY DEF GInv
  <2>2. ASSUME phase = "finalized", NEW t \in Targets
        PROVE  t \notin Below(prereqs, t) /\ (prereqs[t] # <<>> => order[t] # <<>>)
    <3>1. /\ prereqs \in [Targets -> Seq(Nodes)] /\ order \in [Targets -> Seq(Nodes)]
          /\ OrderIsSound /\ Ordered
      BY DEF GInv, TypeOK
    <3>2. prereqs[t] # <<>> => order[t] # <<>>
      BY <2>2, <3>1 DEF Ordered
    <3>3. CASE prereqs[t] = <<>>
      BY <3>1, <3>3, EmptyGraph
    <3>4. CASE prereqs[t] # <<>>
      <4>1. /\ order[t] \in Seq(Nodes) /\ order[t] # <<>> /\ IsInjective(order[t])
            /\ Last(order[t]) = t /\ After(prereqs, order[t])
        BY <3>1, <3>2, <3>4 DEF OrderIsSound
      <4> QED
        BY <3>1, <3>2, <4>1, OrderedNoCycle
    <3> QED
      BY <3>2, <3>3, <3>4
  <2> QED
    BY <2>1, <2>2 DEF RejectedForCycle, Cyclic
<1> QED
  BY <1>1, GraphInductive, PTL

================================================================================
