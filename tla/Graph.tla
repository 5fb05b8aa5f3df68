--------------------------------- MODULE Graph ---------------------------------
(***************************************************************************)
(* Dependency graphs (src/graph.c) and finalize_targets (src/dres.c): for  *)
(* every target in turn the graph of all that it depends on is built and   *)
(* sorted into the order in which dres_update_goal checks targets.  A      *)
(* cycle makes the finalization of the ruleset fail.                       *)
(*                                                                         *)
(* Nodes are numbered like the array depends[]: first the targets, then    *)
(* the fact variables, then the dres variables.                            *)
(***************************************************************************)
EXTENDS Naturals, SequencesExt

CONSTANTS
  NTarget, NFactvar, NDresvar,   \* lengths of the arrays in dres_t
  Rulesets   \* the rulesets to finalize: prereqs->ids of every target

ASSUME SizeAssumption == NTarget \in Nat \ {0} /\ NFactvar \in Nat /\ NDresvar \in Nat

N         == NTarget + NFactvar + NDresvar
Targets   == 1..NTarget
Nodes     == 1..N

ASSUME RulesetsAssumption == Rulesets \subseteq [Targets -> Seq(Nodes)]

VARIABLES
  prereqs,   \* the ruleset, <<>> for prereqs == NULL
  goal,      \* the target whose graph is being built and sorted
  phase,     \* "start", "build", "count", "sort"; "finalized" or "failed"
  stack,     \* recursion of graph_build_prereq: target and next prerequisite
  depends,   \* edges: for every node the targets that have it as prerequisite
  present,   \* nodes of the graph, those with nid # -1
  scan,      \* how many nodes dres_sort_graph has looked at, plus one
  edges,     \* E[]: incoming edges that are left
  queue,     \* Q[], used cyclically
  head, tail,\* hQ and tQ
  sorted,    \* L[], up to tL
  order      \* dependencies[] of the targets sorted so far

vars == <<prereqs, goal, phase, stack, depends, present, scan, edges, queue,
          head, tail, sorted, order>>

NoEdges == [x \in Nodes |-> <<>>]
NoneCounted == [x \in Nodes |-> 0]
EmptyQueue == [i \in 0..(N - 1) |-> 0]

Init ==
  /\ prereqs \in Rulesets
  /\ goal = 1 /\ phase = "start"
  /\ stack = <<>> /\ depends = NoEdges /\ present = {}
  /\ scan = 1 /\ edges = NoneCounted
  /\ queue = EmptyQueue /\ head = 0 /\ tail = 0 /\ sorted = <<>>
  /\ order = [t \in Targets |-> <<>>]

-------------------------------------------------------------------------------
(* dres_build_graph.                                                       *)

(* Nothing is in the graph yet. *)
NewGraph ==
  /\ phase = "start"
  /\ phase' = "build"
  /\ stack' = <<[target |-> goal, next |-> 1]>>
  /\ depends' = NoEdges /\ present' = {}
  /\ UNCHANGED <<prereqs, goal, scan, edges, queue, head, tail, sorted, order>>

(* Deviation: the recursion loses its place at a known edge.               *)
SamePlace(s) == s

(* The loop over prereqs->ids goes on. *)
NextPlace(s) == [s EXCEPT ![Len(s)].next = @ + 1]

(* graph_build_prereq: an edge that is already there is not followed. *)
BuildPrereq ==
  LET t == Last(stack).target
      i == Last(stack).next
      p == prereqs[t][i]
  IN
  /\ phase = "build" /\ stack # <<>> /\ i <= Len(prereqs[t])
  /\ IF t \in ToSet(depends[p])
     THEN /\ stack' = NextPlace(stack)
          /\ UNCHANGED <<depends, present>>
     ELSE /\ stack' = IF p \in Targets
                      THEN Append(NextPlace(stack), [target |-> p, next |-> 1])
                      ELSE NextPlace(stack)
          /\ depends' = [depends EXCEPT ![p] = Append(@, t)]
          /\ present' = present \cup {p}
  /\ UNCHANGED <<prereqs, goal, phase, scan, edges, queue, head, tail, sorted,
                 order>>

BuildReturn ==
  /\ phase = "build" /\ stack # <<>>
  /\ Last(stack).next > Len(prereqs[Last(stack).target])
  /\ stack' = Front(stack)
  /\ UNCHANGED <<prereqs, goal, phase, depends, present, scan, edges, queue, head,
                 tail, sorted, order>>

(* graph_add_leafs pulls in the targets that have prerequisites but are    *)
(* none themselves.  Its loops over variables begin at ntarget.            *)
Scanned ==
  Targets
    \cup {NTarget + 1 + i : i \in NTarget..(NFactvar - 1)}
    \cup {NTarget + NFactvar + 1 + i : i \in NTarget..(NDresvar - 1)}

(* Then dres_sort_graph begins with nothing counted, queued or sorted. *)
AddLeafs ==
  /\ phase = "build" /\ stack = <<>>
  /\ present' = present \cup UNION {ToSet(depends[x]) : x \in Scanned}
  /\ phase' = "count"
  /\ scan' = 1 /\ edges' = NoneCounted
  /\ queue' = EmptyQueue /\ head' = 0 /\ tail' = 0 /\ sorted' = <<>>
  /\ UNCHANGED <<prereqs, goal, stack, depends, order>>

-------------------------------------------------------------------------------
(* dres_sort_graph.                                                        *)

(* PUSH(Q, x) *)
Push(x) == queue' = [queue EXCEPT ![tail] = x] /\ tail' = (tail + 1) % N

(* The nodes are looked at from the last kind to the first. *)
Scan(i) ==
  IF i <= NDresvar THEN NTarget + NFactvar + i
  ELSE IF i <= NDresvar + NFactvar THEN NTarget + (i - NDresvar)
  ELSE i - NDresvar - NFactvar

(* Deviation: only variables (the alternative that graph.c:436 disables).  *)
SourceIfVariable(x) == x \notin Targets

(* The nodes to begin with: variables, and targets without prerequisites.  *)
IsSource(x) == x \in Targets => prereqs[x] = <<>>

(* Deviation: the edges from variables are not counted.                    *)
CountedOfTargets(x) ==
  [t \in Nodes |-> IF x \in Targets /\ t \in ToSet(depends[x]) THEN edges[t] + 1 ELSE edges[t]]

(* The edges from x are counted as incoming ones. *)
Counted(x) == [t \in Nodes |-> IF t \in ToSet(depends[x]) THEN edges[t] + 1 ELSE edges[t]]

CountEdges ==
  LET x == Scan(scan) IN
  /\ phase = "count"
  /\ scan' = scan + 1 /\ phase' = IF scan = N THEN "sort" ELSE "count"
  /\ edges' = IF x \in present THEN Counted(x) ELSE edges
  /\ IF x \in present /\ IsSource(x) THEN Push(x) ELSE UNCHANGED <<queue, tail>>
  /\ UNCHANGED <<prereqs, goal, stack, depends, present, head, sorted, order>>

(* The loop over the edges of the node that was sorted last is done. *)
NodeDone == IF sorted = <<>> THEN TRUE ELSE depends[Last(sorted)] = <<>>

(* POP(Q): the node is inserted into L. *)
SortNode ==
  /\ phase = "sort" /\ NodeDone /\ head # tail
  /\ sorted' = Append(sorted, queue[head]) /\ head' = (head + 1) % N
  /\ UNCHANGED <<prereqs, goal, phase, stack, depends, present, scan, edges, queue,
                 tail, order>>

(* Deviation: a node is ready when its first edge is deleted.              *)
ReadyAtOnce(t) == edges[t] > 0

(* The edge that is deleted is the last one into t. *)
Ready(t) == edges[t] = 1

(* An edge from that node is deleted, and what gets ready is queued. *)
DeleteEdge ==
  LET x == Last(sorted)
      t == Head(depends[x])
  IN
  /\ phase = "sort" /\ ~NodeDone
  /\ depends' = [depends EXCEPT ![x] = Tail(@)]
  /\ edges' = [edges EXCEPT ![t] = @ - 1]
  /\ IF Ready(t) THEN Push(t) ELSE UNCHANGED <<queue, tail>>
  /\ UNCHANGED <<prereqs, goal, phase, stack, present, scan, head, sorted, order>>

(* "graph has cycles" *)
EdgesLeft == \E x \in Nodes : edges[x] # 0

(* finalize_targets: the order is recorded and the next target follows.    *)
SortDone ==
  /\ phase = "sort" /\ NodeDone /\ head = tail /\ ~EdgesLeft
  /\ order' = [order EXCEPT ![goal] = sorted]
  /\ IF goal < NTarget THEN goal' = goal + 1 /\ phase' = "start"
                        ELSE goal' = goal /\ phase' = "finalized"
  /\ UNCHANGED <<prereqs, stack, depends, present, scan, edges, queue, head, tail,
                 sorted>>

SortFails ==
  /\ phase = "sort" /\ NodeDone /\ head = tail /\ EdgesLeft
  /\ phase' = "failed"
  /\ UNCHANGED <<prereqs, goal, stack, depends, present, scan, edges, queue, head,
                 tail, sorted, order>>

Next ==
  \/ NewGraph \/ BuildPrereq \/ BuildReturn \/ AddLeafs
  \/ CountEdges \/ SortNode \/ DeleteEdge \/ SortDone \/ SortFails

Spec == Init /\ [][Next]_vars /\ WF_vars(Next)

-------------------------------------------------------------------------------
(* All that a target of a ruleset depends on, directly or not: the least   *)
(* set that has its prerequisites and those of the targets in it.          *)
Closed(r, S) == \A u \in S \cap Targets : ToSet(r[u]) \subseteq S

Below(r, t) ==
  {x \in Nodes : \A S \in SUBSET Nodes : ToSet(r[t]) \subseteq S /\ Closed(r, S) => x \in S}

TypeOK ==
  /\ goal \in Targets
  /\ phase \in {"start", "build", "count", "sort", "finalized", "failed"}
  /\ stack \in Seq([target : Targets, next : Nat \ {0}])
  /\ depends \in [Nodes -> Seq(Targets)] /\ present \subseteq Nodes
  /\ scan \in 1..(N + 1) /\ edges \in [Nodes -> Nat]
  /\ queue \in [0..(N - 1) -> 0..N] /\ head \in 0..(N - 1) /\ tail \in 0..(N - 1)
  /\ sorted \in Seq(Nodes) /\ order \in [Targets -> Seq(Nodes)]

(* The order of every target with prerequisites is what dres_update_goal   *)
(* relies on (dres.c:542-551): exactly the nodes that the target depends   *)
(* on and then the target, each once, each after its own prerequisites.    *)
After(r, s) ==
  \A i \in DOMAIN s : s[i] \in Targets => ToSet(r[s[i]]) \subseteq {s[j] : j \in 1..(i - 1)}

OrderIsSound ==
  \A t \in Targets : order[t] # <<>> =>
    /\ IsInjective(order[t])
    /\ ToSet(order[t]) = Below(prereqs, t) \cup {t}
    /\ Last(order[t]) = t
    /\ After(prereqs, order[t])

(* A ruleset is rejected only for a cycle, and a finalized one has an      *)
(* order for every target with prerequisites (graph.c:506-519).            *)
RejectedForCycle ==
  /\ phase = "failed" =>
       \E u \in Below(prereqs, goal) \cap Targets : u \in Below(prereqs, u)
  /\ phase = "finalized" =>
       \A t \in Targets : /\ t \notin Below(prereqs, t)
                          /\ prereqs[t] # <<>> => order[t] # <<>>

(* The recursion over a cyclic ruleset and the sort of a cyclic graph end. *)
FinalizationEnds == <>(phase \in {"finalized", "failed"})
================================================================================
