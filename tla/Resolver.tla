------------------------------- MODULE Resolver -------------------------------
(***************************************************************************)
(* The goal resolver: dres_update_goal (src/dres.c), dres_check_target     *)
(* (src/target.c) and the change tracking and transactions of              *)
(* src/variables.c, with recursive invocation through the builtin          *)
(* 'resolve' (src/builtin.c) and the exception discipline of vm_exec       *)
(* (VM_TRY in include/dres/vm.h).                                          *)
(*                                                                         *)
(* The C call stack is the variable frames, one entry per active           *)
(* dres_update_goal.  The byte code of a target is abstracted to its       *)
(* effects: any number of fact assignments to Writes[t], calls with local  *)
(* arguments and recursive resolutions of Resolves[t], in any order,       *)
(* followed by success or, for t \in Fails, by failure or an exception.    *)
(***************************************************************************)
EXTENDS Integers, Sequences, FiniteSets

CONSTANTS
  Targets,    \* the targets of the ruleset
  Facts,      \* the fact variables of the ruleset
  Values,     \* the contents a fact can have
  Prereqs,    \* [Targets -> SUBSET (Targets \cup Facts)], {} for prereqs == NULL
  Order,      \* [Targets -> Seq(Targets)]: the targets in dependencies[]
  Goals,      \* the targets that plugins resolve through dres_update_goal
  Writes,     \* [Targets -> SUBSET Facts]: facts a target's actions assign
  Resolves,   \* [Targets -> SUBSET Targets]: goals they resolve recursively
  Fails,      \* the targets whose actions may fail
  BadLocals,  \* TRUE if a plugin may pass locals that push_locals rejects
  MaxStamp,   \* bound: calls of dres_update_goal in a behaviour
  MaxDepth,   \* bound: recursion depth of dres_update_goal
  MaxScope    \* bound: depth of the local variable scopes

(* What dres_update_goal walks: the goal alone if it has no prerequisites  *)
(* (it is then always updated), its sorted dependencies otherwise.         *)
Steps(g) == IF Prereqs[g] = {} THEN <<g>> ELSE Order[g]

ASSUME RulesetAssumption ==
  /\ Targets # {} /\ Values # {} /\ Targets \cap Facts = {}
  /\ Prereqs  \in [Targets -> SUBSET (Targets \cup Facts)]
  /\ Order    \in [Targets -> Seq(Targets)]
  /\ Writes   \in [Targets -> SUBSET Facts]
  /\ Resolves \in [Targets -> SUBSET Targets]
  /\ Goals \subseteq Targets /\ Fails \subseteq Targets
  /\ BadLocals \in BOOLEAN
  /\ {MaxStamp, MaxDepth, MaxScope} \subseteq Nat

(* The result of dres_sort_graph, see module Graph: no target occurs twice, *)
(* the goal comes last and every target after the targets it depends on.    *)
ASSUME OrderAssumption ==
  \A g \in Targets :
    /\ Len(Steps(g)) > 0
    /\ \A i, j \in 1..Len(Steps(g)) : Steps(g)[i] = Steps(g)[j] => i = j
    /\ Steps(g)[Len(Steps(g))] = g
    /\ \A i \in 1..Len(Steps(g)) :
         Prereqs[Steps(g)[i]] \cap Targets
           \subseteq {Steps(g)[j] : j \in 1..(i-1)}

VARIABLES
  store,      \* content of the fact store
  saved,      \* content it had when the transaction was pushed, if any was
  view,       \* facts with a pending change in dres->store.view
  final,      \* ACTIONS_FINALIZED and TARGETS_FINALIZED
  txActive,   \* TRANSACTION_ACTIVE
  txid,       \* dres->txid
  stamp,      \* dres->stamp
  tgt,        \* stamp, txid and txstamp of every target
  factStamp,  \* stamp of every fact variable
  frames,     \* active calls of dres_update_goal, the innermost last
  scope,      \* number of local variable scopes on dres->vm
  returned,   \* what the last outermost dres_update_goal returned
  committed,  \* whether it ended in dres_store_tx_commit
  stale,      \* history: prerequisites changed since the target's actions began
  staleSaved, \* history: stale when the transaction was pushed
  failed      \* history: an action of the current transaction has failed

txVars   == <<saved, txActive, txid>>
history  == <<stale, staleSaved, failed>>
vars == <<store, view, final, stamp, tgt, factStamp, frames, scope, returned,
          committed, txVars, history>>

(* A positive status is success, 0 a silent failure, a negative one an     *)
(* error; "none" before the first return.                                  *)
Status == {"success", "failure", "error"}

(* pos    the next entry of Steps(goal) to check                           *)
(* mode   "loop": in the loop of dres_update_goal, "run": executing the    *)
(*        actions of Steps(goal)[pos], "call": these actions are waiting   *)
(*        for the next frame, "exit": the loop was left with status        *)
(* own    own_tx                                                           *)
(* locals whether push_locals pushed a scope for this call                 *)
(* base   the scope depth that the exception handler of vm_exec restores   *)
Frame == [goal : Targets, pos : Nat, mode : {"loop", "run", "call", "exit"},
          own : BOOLEAN, locals : BOOLEAN, base : Nat, status : Status]

TargetStamp == [stamp : Nat, txid : Nat, txstamp : Nat]

(* No transaction has been pushed on the fact store. *)
NoSnapshot == <<>>

(* dres_store_track watches the facts that are prerequisites. *)
Tracked == {f \in Facts : \E t \in Targets : f \in Prereqs[t]}

LocalScopes(fr) == IF fr.locals THEN 1 ELSE 0
Walked(g) == {Steps(g)[i] : i \in 1..Len(Steps(g))}
Top == frames[Len(frames)]
Current == Steps(Top.goal)[Top.pos]
Running == frames # <<>> /\ Top.mode = "run"
Replace(fr) == [frames EXCEPT ![Len(frames)] = fr]
Popped == SubSeq(frames, 1, Len(frames) - 1)

NothingStale == [t \in Targets |-> {}]

Init ==
  /\ store \in [Facts -> Values] /\ saved = NoSnapshot
  /\ view = {} /\ final = FALSE
  /\ txActive = FALSE /\ txid = 0 /\ stamp = 1
  /\ tgt = [t \in Targets |-> [stamp |-> 0, txid |-> 0, txstamp |-> 0]]
  /\ factStamp = [f \in Facts |-> 0]
  /\ frames = <<>> /\ scope = 0
  /\ returned = "none" /\ committed = FALSE
  /\ stale = NothingStale /\ staleSaved = NothingStale /\ failed = FALSE

-------------------------------------------------------------------------------
(* Stamps.                                                                 *)

StampOf(p) == IF p \in Facts THEN factStamp[p] ELSE tgt[p].stamp

(* Deviation: the stamp of the next resolution.                            *)
StampedAhead(t) ==
  [tgt EXCEPT ![t] = [stamp |-> stamp + 1, txid |-> txid, txstamp |-> @.stamp]]

(* Deviation: the saved stamp is overwritten by a second update.           *)
StampedAlwaysSaving(t) ==
  [tgt EXCEPT ![t] = [stamp |-> stamp, txid |-> txid, txstamp |-> @.stamp]]

(* dres_update_target_stamp: the first update within a transaction saves   *)
(* the stamp that dres_store_tx_rollback restores.                         *)
Stamped(t) ==
  [tgt EXCEPT ![t] =
     [stamp   |-> stamp,
      txid    |-> txid,
      txstamp |-> IF @.txid # txid THEN @.stamp ELSE @.txstamp]]

(* dres_store_tx_rollback: the targets updated by this transaction get     *)
(* their old stamps back.  Fact stamps and dres->stamp are not restored.   *)
StampsRolledBack ==
  [t \in Targets |->
     IF tgt[t].txid = txid THEN [tgt[t] EXCEPT !.stamp = tgt[t].txstamp] ELSE tgt[t]]

(* Deviations: target prerequisites are not compared; equal stamps count   *)
(* as outdated.                                                            *)
UpToDateByFacts(t) ==
  Prereqs[t] # {} /\ \A p \in Prereqs[t] \cap Facts : StampOf(p) <= tgt[t].stamp

UpToDateIfOlder(t) ==
  Prereqs[t] # {} /\ \A p \in Prereqs[t] : StampOf(p) < tgt[t].stamp

(* dres_check_target: a target without prerequisites is always updated,    *)
(* another one if a prerequisite is younger than itself.                   *)
UpToDate(t) ==
  Prereqs[t] # {} /\ \A p \in Prereqs[t] : StampOf(p) <= tgt[t].stamp

(* x has changed: every target that depends on x is stale. *)
Changed(st, x) ==
  [t \in Targets |-> IF x \in Prereqs[t] THEN st[t] \cup {x} ELSE st[t]]

-------------------------------------------------------------------------------
(* Facts.                                                                  *)

(* A fact gets a value: the view of the resolver records the change. *)
Assign(f, v) ==
  /\ store' = [store EXCEPT ![f] = v]
  /\ view'  = view \cup ({f} \cap Tracked)
  /\ stale' = Changed(stale, f)

(* Another plugin changes a fact between two resolutions. *)
ExternalChange(f, v) ==
  /\ frames = <<>>
  /\ Assign(f, v)
  /\ UNCHANGED <<final, stamp, tgt, factStamp, frames, scope, returned,
                 committed, txVars, staleSaved, failed>>

(* Deviation: the changes are forgotten before they are looked at.         *)
CheckNothing(s) == factStamp' = factStamp /\ view' = {}

(* dres_store_check: every recorded change makes its fact as young as the  *)
(* new value of dres->stamp; the view then forgets the changes.            *)
StoreCheck(s) ==
  /\ factStamp' = [f \in Facts |-> IF f \in view THEN s ELSE factStamp[f]]
  /\ view' = {}

(* dres_store_tx_rollback.  The fact store restores the facts it changed;  *)
(* whether its view reports these restorations as changes, or withdraws    *)
(* the changes it has already reported, is up to the fact store.           *)
Restored == {f \in Facts : store[f] # saved[f]} \cap Tracked

Rollback ==
  /\ store' = saved
  /\ \E reported \in SUBSET Restored :
       view' = (view \ Restored) \cup reported
  /\ tgt' = StampsRolledBack
  /\ txActive' = FALSE /\ saved' = NoSnapshot /\ committed' = FALSE
  /\ stale' = staleSaved /\ staleSaved' = NothingStale /\ failed' = FALSE

(* dres_update_target_stamp and dres_store_tx_commit for the goal.         *)
Commit(t) ==
  /\ tgt' = Stamped(t)
  /\ txActive' = FALSE /\ saved' = NoSnapshot /\ committed' = TRUE
  /\ staleSaved' = NothingStale /\ failed' = FALSE
  /\ UNCHANGED <<store, view, stale>>

-------------------------------------------------------------------------------
(* Deviation: every call behaves as if the transaction were its own.       *)
OwnTxAlways == TRUE

(* own_tx: the call that finds no active transaction creates one.          *)
OwnTx == ~txActive

(* dres_update_goal, from its entry to the loop: a transaction is created  *)
(* unless one is active, dres->stamp moves on, the changed facts are       *)
(* stamped and the locals pushed.                                          *)
Enter(g, locals, callers) ==
  LET base == IF locals THEN scope + 1 ELSE scope IN
  /\ stamp < MaxStamp
  /\ stamp' = stamp + 1
  /\ StoreCheck(stamp + 1)
  /\ txActive' = TRUE
  /\ IF OwnTx
     THEN /\ txid' = txid + 1 /\ saved' = store
          /\ staleSaved' = stale /\ failed' = FALSE
     ELSE UNCHANGED <<txid, saved, staleSaved, failed>>
  /\ scope' = base
  /\ frames' = Append(callers,
                 [goal |-> g, pos |-> 1, mode |-> "loop", own |-> OwnTx,
                  locals |-> locals, base |-> base, status |-> "success"])
  /\ UNCHANGED <<store, tgt, stale>>

(* A plugin, the main loop or the console resolves a goal. *)
Invoke(g, locals) ==
  /\ frames = <<>>
  /\ Enter(g, locals, <<>>)
  /\ final' = TRUE
  /\ returned' = "none" /\ committed' = FALSE

(* Finalization fails or the goal is not a defined target: the call        *)
(* returns a negative status before it creates a transaction.              *)
InvokeRejected ==
  /\ frames = <<>>
  /\ final' \in {final, TRUE}
  /\ returned' = "error" /\ committed' = FALSE
  /\ UNCHANGED <<store, view, stamp, tgt, factStamp, frames, scope, txVars,
                 history>>

(* push_locals rejects a local: control jumps to the rollback, at a point  *)
(* where no target has been updated, and dres_update_goal returns the      *)
(* error code of push_locals as it is, a positive number.                  *)
InvokeBadLocals ==
  /\ BadLocals
  /\ frames = <<>> /\ stamp < MaxStamp
  /\ final' = TRUE
  /\ stamp' = stamp + 1 /\ txid' = txid + 1
  /\ StoreCheck(stamp + 1)
  /\ returned' = "success" /\ committed' = FALSE
  /\ UNCHANGED <<store, tgt, frames, scope, saved, txActive, history>>

-------------------------------------------------------------------------------
(* The loop over the dependencies. *)

InLoop == frames # <<>> /\ Top.mode = "loop"
More   == InLoop /\ Top.pos <= Len(Steps(Top.goal))

Skip ==
  /\ More /\ UpToDate(Current)
  /\ frames' = Replace([Top EXCEPT !.pos = @ + 1])
  /\ UNCHANGED <<store, view, final, stamp, tgt, factStamp, scope, returned,
                 committed, txVars, history>>

(* dres_run_actions: what the actions read from now on is current. *)
RunActions ==
  /\ More /\ ~UpToDate(Current)
  /\ frames' = Replace([Top EXCEPT !.mode = "run"])
  /\ stale' = [stale EXCEPT ![Current] = {}]
  /\ UNCHANGED <<store, view, final, stamp, tgt, factStamp, scope, returned,
                 committed, txVars, staleSaved, failed>>

(* vm_exec returned TRUE: the target is stamped and the loop goes on.      *)
ActionsDone ==
  /\ Running /\ scope = Top.base
  /\ tgt' = Stamped(Current)
  /\ stale' = Changed(stale, Current)
  /\ frames' = Replace([Top EXCEPT !.mode = "loop", !.pos = @ + 1])
  /\ UNCHANGED <<store, view, final, stamp, factStamp, scope, returned,
                 committed, txVars, staleSaved, failed>>

(* Deviation: the exception handler leaves the scopes alone.               *)
ScopeLeftBehind(fr) == scope

(* The handler in vm_exec pops the scopes pushed since its entry.          *)
CaughtScope(fr) == fr.base

(* VM_FAIL or VM_RAISE: the loop is left with a status <= 0.               *)
ActionsFail(s) ==
  /\ Running /\ Current \in Fails
  /\ scope' = CaughtScope(Top)
  /\ frames' = Replace([Top EXCEPT !.mode = "exit", !.status = s])
  /\ failed' = TRUE
  /\ UNCHANGED <<store, view, final, stamp, tgt, factStamp, returned,
                 committed, txVars, stale, staleSaved>>

-------------------------------------------------------------------------------
(* Effects of the actions. *)

Write(f, v) ==
  /\ Running /\ f \in Writes[Current]
  /\ Assign(f, v)
  /\ UNCHANGED <<final, stamp, tgt, factStamp, frames, scope, returned,
                 committed, txVars, staleSaved, failed>>

(* A method call with local arguments pushes a scope around the call. *)
OpenCall ==
  /\ Running /\ scope < MaxScope
  /\ scope' = scope + 1
  /\ UNCHANGED <<store, view, final, stamp, tgt, factStamp, frames, returned,
                 committed, txVars, history>>

CloseCall ==
  /\ Running /\ scope > Top.base
  /\ scope' = scope - 1
  /\ UNCHANGED <<store, view, final, stamp, tgt, factStamp, frames, returned,
                 committed, txVars, history>>

(* The builtin 'resolve': a recursive dres_update_goal without locals.     *)
CallResolve(g) ==
  /\ Running /\ g \in Resolves[Current]
  /\ Len(frames) < MaxDepth
  /\ Enter(g, FALSE, Replace([Top EXCEPT !.mode = "call"]))
  /\ UNCHANGED <<final, returned, committed>>

-------------------------------------------------------------------------------
(* The end of dres_update_goal. *)

(* Deviation: pop_locals without push_locals.                              *)
ScopePoppedAlways == scope - 1

(* pop_locals, if there were locals. *)
ScopeWithoutLocals == scope - LocalScopes(Top)

(* Deviation: the status of the recursive call is ignored.                 *)
ResumedRegardless(fr, s) == [fr EXCEPT !.mode = "run"]

(* The builtin returns the status of the recursive call: the calling       *)
(* actions go on if it is positive and fail with it otherwise.             *)
Resumed(fr, s) ==
  IF s = "success" THEN [fr EXCEPT !.mode = "run"]
                   ELSE [fr EXCEPT !.mode = "exit", !.status = s]

Return(s) ==
  LET caller == frames[Len(frames) - 1] IN
  /\ frames' = [Popped EXCEPT ![Len(frames) - 1] = Resumed(caller, s)]
  /\ scope' = IF s = "success" THEN ScopeWithoutLocals ELSE CaughtScope(caller)
  /\ UNCHANGED <<returned, committed>>

ReturnOutermost(s) ==
  /\ frames' = Popped
  /\ scope' = ScopeWithoutLocals
  /\ returned' = s

(* The loop has ended with a positive status: the goal is stamped, whether *)
(* it was updated or not.                                                  *)
GoalCommits ==
  /\ InLoop /\ ~More /\ Top.own
  /\ Commit(Top.goal)
  /\ ReturnOutermost("success")
  /\ UNCHANGED <<final, stamp, factStamp, txid>>

GoalReturns ==
  /\ InLoop /\ ~More /\ ~Top.own
  /\ tgt' = Stamped(Top.goal)
  /\ Return("success")
  /\ UNCHANGED <<store, view, final, stamp, factStamp, txVars, history>>

Exiting == frames # <<>> /\ Top.mode = "exit"

GoalRollsBack ==
  /\ Exiting /\ Top.own
  /\ Rollback
  /\ ReturnOutermost(Top.status)
  /\ UNCHANGED <<final, stamp, factStamp, txid>>

GoalFails ==
  /\ Exiting /\ ~Top.own
  /\ Return(Top.status)
  /\ UNCHANGED <<store, view, final, stamp, tgt, factStamp, txVars, history>>

-------------------------------------------------------------------------------
(* What changes no fact. *)
Walking ==
  \/ Skip \/ RunActions \/ ActionsDone \/ OpenCall \/ CloseCall
  \/ GoalCommits \/ GoalReturns \/ GoalFails
  \/ \E s \in {"failure", "error"} : ActionsFail(s)
  \/ \E g \in Targets : CallResolve(g)

Resolving ==
  \/ Walking
  \/ \E f \in Facts, v \in Values : Write(f, v)
  \/ GoalRollsBack

Next ==
  \/ \E f \in Facts, v \in Values : ExternalChange(f, v)
  \/ \E g \in Goals, locals \in BOOLEAN : Invoke(g, locals)
  \/ InvokeRejected
  \/ InvokeBadLocals
  \/ Resolving

Spec == Init /\ [][Next]_vars

-------------------------------------------------------------------------------
TypeOK ==
  /\ store \in [Facts -> Values]
  /\ IF txActive THEN saved \in [Facts -> Values] ELSE saved = NoSnapshot
  /\ view \subseteq Facts
  /\ final \in BOOLEAN /\ txActive \in BOOLEAN
  /\ txid \in Nat /\ stamp \in Nat
  /\ tgt \in [Targets -> TargetStamp]
  /\ factStamp \in [Facts -> Nat]
  /\ frames \in Seq(Frame)
  /\ scope \in Nat
  /\ returned \in Status \cup {"none"} /\ committed \in BOOLEAN
  /\ stale \in [Targets -> SUBSET (Targets \cup Facts)]
  /\ staleSaved \in [Targets -> SUBSET (Targets \cup Facts)]
  /\ failed \in BOOLEAN

(* Exactly the outermost call owns the transaction, and a transaction is   *)
(* active exactly while some call is: a recursive call never pushes, pops  *)
(* or rolls back the transaction of its caller (dres.c:521-529, 556-565).  *)
TransactionOwner ==
  /\ txActive <=> frames # <<>>
  /\ \A i \in 1..Len(frames) : frames[i].own <=> i = 1

(* Stamps never run ahead of the clock they are compared with.             *)
StampsBehindClock ==
  /\ \A t \in Targets : /\ tgt[t].stamp <= stamp /\ tgt[t].txid <= txid
                        /\ tgt[t].txstamp <= tgt[t].stamp
  /\ \A f \in Facts : factStamp[f] <= stamp

(* Local variable scopes are balanced whatever path leaves an action: no   *)
(* scope survives the outermost call, and the loop of every call sees      *)
(* exactly the scopes it was entered with (dres.c:534, 553; the cleanup of *)
(* VM_TRY, vm.h:629-633).                                                  *)
ScopesBalanced ==
  /\ frames = <<>> => scope = 0
  /\ frames # <<>> => scope >= Top.base
  /\ InLoop \/ Exiting => scope = Top.base

(* The caller is told that a goal succeeded exactly when its changes were  *)
(* committed (dres.c:567-568: "status < 0 ? error : status ? success :     *)
(* failed").                                                               *)
SuccessMeansCommitted ==
  frames = <<>> => (returned = "success" <=> committed)

(* No transaction in which an action failed is ever committed, at whatever *)
(* depth of recursion the failure happened.                                *)
NoCommitAfterFailure ==
  [][txActive /\ ~txActive' /\ committed' => ~failed]_vars

(* Nothing a target depends on changes without the resolver remembering    *)
(* it: as long as the actions of a target have not begun since the change, *)
(* the change is still pending in the view or younger than the target.     *)
NoMissedUpdate ==
  \A t \in Targets : \A p \in stale[t] : p \in view \/ StampOf(p) > tgt[t].stamp

(* The targets that may be walked while the actions of t run: those of the *)
(* goals that these actions resolve, of the goals that theirs resolve, and *)
(* so on.                                                                  *)
Inside(t) ==
  {u \in Targets :
     \A S \in SUBSET Targets :
       (\A v \in S \cup {t} : \A g \in Resolves[v] : Walked(g) \subseteq S) => u \in S}

(* A target is stamped when its actions end, with the clock of the         *)
(* innermost resolution.  The resolver therefore only sees every change if *)
(* the actions of a target that resolve goals change none of its own       *)
(* prerequisites, neither themselves nor through these goals, and walk     *)
(* nothing that depends on a target which is still to be updated.          *)
Undisturbed ==
  /\ \A t \in Targets : Resolves[t] # {} =>
       /\ Prereqs[t] \cap (Writes[t] \cup Inside(t)) = {}
       /\ \A u \in Inside(t) : Prereqs[t] \cap Writes[u] = {}
  /\ \A g \in Targets : \A i, j \in 1..Len(Steps(g)) :
       i <= j => \A u \in Inside(Steps(g)[i]) : Steps(g)[j] \notin Prereqs[u]

(* What a goal has walked stays up to date until the goal commits if the   *)
(* actions on the way resolve no goals, or if all that is done on the way  *)
(* assigns nothing that the walked targets depend on, and no target walked *)
(* within the actions of one is a prerequisite of those before it.         *)
Within(t) == {t} \cup Inside(t)

Recurses(g) == \E i \in 1..Len(Steps(g)) : Resolves[Steps(g)[i]] # {}

Steady ==
  \A g \in Goals : Recurses(g) =>
    \A i, j \in 1..Len(Steps(g)) :
      /\ \A u \in Within(Steps(g)[j]) : Prereqs[Steps(g)[i]] \cap Writes[u] = {}
      /\ i <= j => Prereqs[Steps(g)[i]] \cap Inside(Steps(g)[j]) = {}

(* Actions only run when they must in a ruleset that is careful: what is   *)
(* resolved as a goal, and so stamped whether it was updated or not, has   *)
(* no prerequisites if targets depend on it; no target with prerequisites  *)
(* is walked again within its own actions; what is walked for a goal, or   *)
(* within that, assigns nothing that a later target of the walk depends    *)
(* on, which would see the new value now and run again for it in the next  *)
(* resolution; and no action can fail, as the stamps of the facts survive  *)
(* a rollback, or none assigns a fact that targets depend on.              *)
Resolved == Goals \cup UNION {Resolves[t] : t \in Targets}

Economical ==
  /\ \A g \in Resolved : Prereqs[g] = {} \/ \A t \in Targets : g \notin Prereqs[t]
  /\ \A t \in Targets : Prereqs[t] # {} => t \notin Inside(t)
  /\ \A g \in Targets : \A i, j \in 1..Len(Steps(g)) :
       i < j => \A u \in Within(Steps(g)[i]) : Prereqs[Steps(g)[j]] \cap Writes[u] = {}
  /\ Fails = {} \/ \A t \in Targets : Writes[t] \cap Tracked = {}

(* The actions of a target with prerequisites only run if one of these has *)
(* changed since they last ran.                                            *)
NoUnnecessaryUpdate ==
  [][\A t \in Targets :
       RunActions /\ t = Current /\ Prereqs[t] # {} => stale[t] # {}]_vars

(* When a goal commits, every target it walked has seen every change but   *)
(* the facts assigned during this very resolution.                         *)
GoalIsUpToDate ==
  [][\A t \in Targets :
       GoalCommits /\ t \in Walked(Top.goal) => stale[t] \subseteq view]_vars

-------------------------------------------------------------------------------
(* The atomic view of the resolver: the committed facts are those of the   *)
(* snapshot while a transaction is active, and the committed stamp of a    *)
(* target is the one that a rollback would restore.                        *)
CommittedStamp(t) ==
  IF txActive /\ tgt[t].txid = txid THEN tgt[t].txstamp ELSE tgt[t].stamp

Atomic == INSTANCE AtomicGoals WITH
  facts  <- IF txActive THEN saved ELSE store,
  stamps <- [t \in Targets |-> CommittedStamp(t)],
  busy   <- txActive

(* Every resolution, however deeply nested, is one atomic change of the    *)
(* facts and of the target stamps, or none (overview, sections 4.3, 5.3).  *)
ImplementsAtomicGoals == Atomic!Spec

-------------------------------------------------------------------------------
(* The inductive invariant behind the theorems of ResolverProofs.          *)

(* The scopes of an active call lie on top of those of its caller.         *)
ScopeStack ==
  /\ \A i \in 1..Len(frames) :
       frames[i].base >= LocalScopes(frames[i])
                         + (IF i = 1 THEN 0 ELSE frames[i-1].base)
  /\ frames # <<>> => frames[1].base = LocalScopes(frames[1])

(* Within a transaction the clock is ahead of all that is committed.       *)
CommittedBehindClock ==
  txActive => \A t \in Targets : CommittedStamp(t) < stamp

IInv ==
  /\ TypeOK /\ TransactionOwner /\ ScopesBalanced /\ ScopeStack
  /\ StampsBehindClock /\ CommittedBehindClock
===============================================================================
