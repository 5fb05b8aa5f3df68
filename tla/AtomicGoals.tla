----------------------------- MODULE AtomicGoals -----------------------------
(***************************************************************************)
(* What the resolver promises to the rest of the policy daemon: resolving  *)
(* a goal is one atomic step on the fact store.  Sections 4.3 and 5.3 of   *)
(* doc/resolver-overview.txt: a failing resolution restores the previous   *)
(* state, a successful one makes all its changes visible at once, and      *)
(* recursive invocations share the transaction of their parent.            *)
(*                                                                         *)
(* facts  is the committed content of the fact store,                      *)
(* stamps is the committed update stamp of every target,                   *)
(* busy   is TRUE while a goal is being resolved.                          *)
(***************************************************************************)
EXTENDS Integers

CONSTANTS Targets, Facts, Values

VARIABLES facts, stamps, busy

vars == <<facts, stamps, busy>>

Init ==
  /\ facts \in [Facts -> Values]
  /\ stamps = [t \in Targets |-> 0]
  /\ busy = FALSE

(* A plugin changes one fact while no goal is being resolved. *)
Change ==
  /\ ~busy
  /\ \E f \in Facts, v \in Values : facts' = [facts EXCEPT ![f] = v]
  /\ UNCHANGED <<stamps, busy>>

Begin ==
  /\ ~busy
  /\ busy' = TRUE
  /\ UNCHANGED <<facts, stamps>>

(* All the changes of a resolution appear together, and no target gets     *)
(* older; at least the goal itself gets younger.                           *)
Commit ==
  /\ busy
  /\ busy' = FALSE
  /\ facts' \in [Facts -> Values]
  /\ stamps' \in [Targets -> Nat]
  /\ \A t \in Targets : stamps[t] <= stamps'[t]
  /\ \E t \in Targets : stamps[t] < stamps'[t]

Abort ==
  /\ busy
  /\ busy' = FALSE
  /\ UNCHANGED <<facts, stamps>>

Next == Change \/ Begin \/ Commit \/ Abort

Spec == Init /\ [][Next]_vars
==============================================================================
