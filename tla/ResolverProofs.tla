---------------------------- MODULE ResolverProofs ----------------------------
(***************************************************************************)
(* Theorems about modules Resolver and Scheduler, for every ruleset and    *)
(* every bound.                                                            *)
(***************************************************************************)
EXTENDS Scheduler, SequenceTheorems, TLAPS

(* The typing of all that is not the call stack. *)
DataTyped ==
  /\ store \in [Facts -> Values]
  /\ IF txActive THEN saved \in [Facts -> Values] ELSE saved = NoSnapshot
  /\ view \subseteq Facts
  /\ final \in BOOLEAN /\ txActive \in BOOLEAN
  /\ txid \in Nat /\ stamp \in Nat
  /\ tgt \in [Targets -> TargetStamp]
  /\ factStamp \in [Facts -> Nat]
  /\ returned \in Status \cup {"none"} /\ committed \in BOOLEAN
  /\ stale \in [Targets -> SUBSET (Targets \cup Facts)]
  /\ staleSaved \in [Targets -> SUBSET (Targets \cup Facts)]
  /\ failed \in BOOLEAN

(* The call stack and the scopes that go with it. *)
StackSound ==
  /\ frames \in Seq(Frame) /\ scope \in Nat
  /\ TransactionOwner /\ ScopesBalanced /\ ScopeStack

-------------------------------------------------------------------------------
(* Replacing the innermost frame of a non-empty call stack changes nothing *)
(* else of it (Replace stands for assignments to locals of the innermost   *)
(* dres_update_goal).                                                      *)
LEMMA ReplaceTop ==
  ASSUME NEW S, NEW s \in Seq(S), s # <<>>, NEW x \in S, NEW r,
         r = [s EXCEPT ![Len(s)] = x]
  PROVE  /\ r \in Seq(S) /\ Len(r) = Len(s) /\ r # <<>>
         /\ Len(s) \in Nat \ {0}
         /\ \A i \in 1..Len(s) : r[i] = IF i = Len(s) THEN x ELSE s[i]
<1>1. Len(s) \in Nat \ {0} /\ Len(<<>>) = 0
  BY EmptySeq
<1>2. Len(s) \in 1..Len(s)
  BY <1>1
<1>3. /\ r \in Seq(S)
      /\ Len(r) = Len(s)
      /\ \A j \in 1..Len(s) : r[j] = IF j = Len(s) THEN x ELSE s[j]
  BY <1>2, ExceptSeq
<1> QED
  BY <1>1, <1>3

(* Popping a call stack leaves the frames below the innermost as they are. *)
LEMMA PopTop ==
  ASSUME frames \in Seq(Frame), frames # <<>>
  PROVE  /\ Popped \in Seq(Frame) /\ Len(Popped) = Len(frames) - 1
         /\ Len(frames) \in Nat \ {0}
         /\ \A i \in 1..(Len(frames) - 1) : Popped[i] = frames[i]
<1>1. Len(frames) \in Nat \ {0}
  BY EmptySeq
<1>2. \A i \in 1..(Len(frames) - 1) : frames[i] \in Frame
  BY <1>1, ElementOfSeq
<1>3. 1 \in Int /\ Len(frames) - 1 \in Int
  BY <1>1
<1>4. /\ Popped \in Seq(Frame)
      /\ Len(Popped) = IF 1 <= Len(frames) - 1 THEN (Len(frames) - 1) - 1 + 1 ELSE 0
      /\ \A i \in 1..((Len(frames) - 1) - 1 + 1) : Popped[i] = frames[1 + i - 1]
  BY <1>2, <1>3, SubSeqProperties DEF Popped
<1>5. Len(Popped) = Len(frames) - 1
  <2>1. PICK k \in Nat \ {0} : k = Len(frames)
    BY <1>1
  <2>2. Len(Popped) = IF 1 <= k - 1 THEN (k - 1) - 1 + 1 ELSE 0
    BY <1>4, <2>1
  <2>3. Len(Popped) = k - 1
    BY <2>2
  <2> QED
    BY <2>1, <2>3
<1>6. ASSUME NEW i \in 1..(Len(frames) - 1) PROVE Popped[i] = frames[i]
  <2>1. i \in 1..((Len(frames) - 1) - 1 + 1) /\ 1 + i - 1 = i
    BY <1>1
  <2> QED
    BY <1>4, <2>1
<1> QED
  BY <1>1, <1>4, <1>5, <1>6

(* The innermost frame is a frame. *)
LEMMA TopFrame ==
  ASSUME frames \in Seq(Frame), frames # <<>>
  PROVE  Len(frames) \in Nat \ {0} /\ Top \in Frame
<1>1. Len(frames) \in Nat \ {0}
  BY EmptySeq
<1>2. frames[Len(frames)] \in Frame
  BY <1>1, ElementOfSeq
<1> QED
  BY <1>1, <1>2 DEF Top

-------------------------------------------------------------------------------
(* The ways in which the call stack changes.                               *)

(* fr is another frame of the same call: nothing that the invariants of    *)
(* the stack speak of differs.                                             *)
SameScopes(fr, old) ==
  /\ fr \in Frame
  /\ fr.own = old.own /\ fr.base = old.base /\ fr.locals = old.locals

(* An assignment to locals of the innermost call, with the scopes open to  *)
(* that call.                                                              *)
LEMMA StackReplaced ==
  ASSUME StackSound, frames # <<>>, txActive' = txActive,
         NEW fr, SameScopes(fr, Top), frames' = Replace(fr),
         scope' \in Nat, scope' >= Top.base,
         fr.mode \in {"loop", "exit"} => scope' = Top.base
  PROVE  StackSound'
<1> USE DEF SameScopes
<1>1. /\ frames' \in Seq(Frame) /\ Len(frames') = Len(frames) /\ frames' # <<>>
      /\ Len(frames) \in Nat \ {0}
      /\ \A i \in 1..Len(frames) :
           frames'[i] = IF i = Len(frames) THEN fr ELSE frames[i]
  BY ReplaceTop DEF StackSound, Replace
<1>2. Top' = fr
  BY <1>1 DEF Top
<1>3. \A i \in 1..Len(frames) : /\ frames'[i].own = frames[i].own
                                /\ frames'[i].base = frames[i].base
                                /\ frames'[i].locals = frames[i].locals
  BY <1>1 DEF Top
<1>4. TransactionOwner'
  BY <1>1, <1>3 DEF StackSound, TransactionOwner
<1>5. ScopesBalanced'
  BY <1>1, <1>2 DEF ScopesBalanced, InLoop, Exiting
<1>6. ScopeStack'
  <2>1. \A i \in 1..Len(frames) : i # 1 => i - 1 \in 1..Len(frames)
    BY <1>1
  <2>2. \A i \in 1..Len(frames) : LocalScopes(frames'[i]) = LocalScopes(frames[i])
    BY <1>3 DEF LocalScopes
  <2> QED
    BY <1>1, <1>3, <2>1, <2>2 DEF StackSound, ScopeStack
<1> QED
  BY <1>1, <1>4, <1>5, <1>6 DEF StackSound

(* A nested call begins: its frame lies on top of those of its caller.     *)
LEMMA StackPushed ==
  ASSUME StackSound, txActive, txActive' = txActive, frames # <<>>,
         NEW caller, SameScopes(caller, Top),
         NEW fr \in Frame, fr.own = FALSE, fr.base = scope, fr.locals = FALSE,
         frames' = Append(Replace(caller), fr), scope' = scope
  PROVE  StackSound'
<1> USE DEF SameScopes
<1> DEFINE r == Replace(caller)
<1>1. /\ r \in Seq(Frame) /\ Len(r) = Len(frames)
      /\ Len(frames) \in Nat \ {0}
      /\ \A i \in 1..Len(frames) :
           r[i] = IF i = Len(frames) THEN caller ELSE frames[i]
  BY ReplaceTop DEF StackSound, Replace
<1>2. \A i \in 1..Len(frames) : /\ r[i].own = frames[i].own
                                /\ r[i].base = frames[i].base
                                /\ r[i].locals = frames[i].locals
  BY <1>1 DEF Top
<1> HIDE DEF r
<1>3. /\ frames' \in Seq(Frame) /\ frames' # <<>>
      /\ Len(frames') = Len(frames) + 1
      /\ \A i \in 1..Len(frames) : frames'[i] = r[i]
      /\ frames'[Len(frames) + 1] = fr
  BY <1>1, AppendProperties DEF r
<1>4. /\ Top' = fr
      /\ \A i \in 1..Len(frames') : IF i = Len(frames) + 1 THEN frames'[i] = fr
                                    ELSE i \in 1..Len(frames) /\ frames'[i] = r[i]
  BY <1>1, <1>3 DEF Top
<1>5. TransactionOwner'
  BY <1>1, <1>2, <1>3, <1>4 DEF StackSound, TransactionOwner
<1>6. ScopesBalanced'
  BY <1>3, <1>4 DEF StackSound, ScopesBalanced, InLoop, Exiting
<1>7. ScopeStack'
  <2>1. \A i \in 1..Len(frames) : LocalScopes(r[i]) = LocalScopes(frames[i])
    BY <1>2 DEF LocalScopes
  <2>2. LocalScopes(fr) = 0
    BY DEF LocalScopes
  <2>3. scope >= r[Len(frames)].base /\ scope \in Nat
    BY <1>1, <1>2 DEF StackSound, ScopesBalanced, Top
  <2>4. 1 \in 1..Len(frames) /\ r[Len(frames)].base \in Nat
    <3>1. 1 \in 1..Len(frames) /\ Len(frames) \in 1..Len(r)
      BY <1>1
    <3>2. r[Len(frames)] \in Frame
      BY <3>1, <1>1, ElementOfSeq
    <3> QED
      BY <3>1, <3>2 DEF Frame
  <2>5. /\ frames'[1].base = LocalScopes(frames'[1])
    BY <1>2, <1>3, <2>1, <2>4 DEF StackSound, ScopeStack
  <2>6. ASSUME NEW i \in 1..Len(frames')
        PROVE  frames'[i].base >= LocalScopes(frames'[i])
                                  + (IF i = 1 THEN 0 ELSE frames'[i-1].base)
    <3>1. CASE i = Len(frames) + 1
      <4>1. i # 1 /\ i - 1 = Len(frames) /\ frames'[i-1] = r[Len(frames)]
        BY <3>1, <1>1, <1>3
      <4> QED
        BY <3>1, <4>1, <1>4, <2>2, <2>3, <2>4
    <3>2. CASE i # Len(frames) + 1
      <4>1. i \in 1..Len(frames) /\ (i # 1 => i - 1 \in 1..Len(frames))
        BY <3>2, <1>1, <1>3
      <4>2. /\ frames'[i].base = frames[i].base
            /\ LocalScopes(frames'[i]) = LocalScopes(frames[i])
            /\ i # 1 => frames'[i-1].base = frames[i-1].base
        BY <4>1, <1>2, <1>3, <2>1
      <4>3. frames[i].base >= LocalScopes(frames[i])
                              + (IF i = 1 THEN 0 ELSE frames[i-1].base)
        BY <4>1 DEF StackSound, ScopeStack
      <4> QED
        BY <4>2, <4>3
    <3> QED
      BY <3>1, <3>2
  <2> QED
    BY <1>3, <2>5, <2>6 DEF ScopeStack
<1> QED
  BY <1>3, <1>5, <1>6, <1>7 DEF StackSound

(* The outermost call begins, on an empty call stack. *)
LEMMA StackBegun ==
  ASSUME StackSound, txActive', frames = <<>>,
         NEW fr \in Frame, fr.own = TRUE, fr.base = LocalScopes(fr),
         frames' = Append(<<>>, fr), scope' = fr.base
  PROVE  StackSound'
<1>1. /\ frames' \in Seq(Frame) /\ frames' # <<>>
      /\ Len(frames') = 1 /\ frames'[1] = fr
  BY EmptySeq, AppendProperties
<1>2. Top' = fr /\ fr.base \in Nat /\ LocalScopes(frames'[1]) = fr.base
  BY <1>1 DEF Top, Frame
<1>3. \A i \in 1..Len(frames') : i = 1
  BY <1>1
<1>4. TransactionOwner'
  BY <1>1, <1>3 DEF TransactionOwner
<1>5. ScopesBalanced'
  BY <1>1, <1>2 DEF ScopesBalanced, InLoop, Exiting
<1>6. ScopeStack'
  BY <1>1, <1>2, <1>3 DEF ScopeStack
<1> QED
  BY <1>1, <1>2, <1>4, <1>5, <1>6 DEF StackSound

(* The innermost call returns to its caller, which goes on with its own    *)
(* scopes or is unwound to them.                                           *)
LEMMA StackReturned ==
  ASSUME StackSound, txActive' = txActive, frames # <<>>, ~Top.own,
         NEW fr, SameScopes(fr, frames[Len(frames) - 1]),
         frames' = [Popped EXCEPT ![Len(frames) - 1] = fr],
         scope' \in Nat, scope' >= fr.base,
         fr.mode \in {"loop", "exit"} => scope' = fr.base
  PROVE  StackSound'
<1> USE DEF SameScopes
<1>1. /\ Popped \in Seq(Frame) /\ Len(Popped) = Len(frames) - 1
      /\ Len(frames) \in Nat \ {0}
      /\ \A i \in 1..(Len(frames) - 1) : Popped[i] = frames[i]
  BY PopTop DEF StackSound
<1>2. Len(frames) # 1
  BY <1>1 DEF StackSound, TransactionOwner, Top
<1>3. Popped # <<>>
  BY <1>1, <1>2, EmptySeq
<1>4. /\ frames' \in Seq(Frame) /\ Len(frames') = Len(frames) - 1
      /\ frames' # <<>>
      /\ \A i \in 1..(Len(frames) - 1) :
           frames'[i] = IF i = Len(frames) - 1 THEN fr ELSE Popped[i]
  BY <1>1, <1>3, ReplaceTop
<1>5. \A i \in 1..(Len(frames) - 1) :
        /\ i \in 1..Len(frames)
        /\ frames'[i].own = frames[i].own /\ frames'[i].base = frames[i].base
        /\ frames'[i].locals = frames[i].locals
  BY <1>1, <1>4
<1>6. Top' = fr
  BY <1>1, <1>2, <1>4 DEF Top
<1>7. TransactionOwner'
  BY <1>4, <1>5 DEF StackSound, TransactionOwner
<1>8. ScopesBalanced'
  BY <1>4, <1>6 DEF ScopesBalanced, InLoop, Exiting
<1>9. ScopeStack'
  <2>1. \A i \in 1..(Len(frames) - 1) : LocalScopes(frames'[i]) = LocalScopes(frames[i])
    BY <1>5 DEF LocalScopes
  <2>2. 1 \in 1..(Len(frames) - 1)
        /\ \A i \in 1..(Len(frames) - 1) : i # 1 => i - 1 \in 1..(Len(frames) - 1)
    BY <1>1, <1>2
  <2> QED
    BY <1>4, <1>5, <2>1, <2>2 DEF StackSound, ScopeStack
<1> QED
  BY <1>1, <1>2, <1>4, <1>7, <1>8, <1>9 DEF StackSound

(* The outermost call returns: nothing is left. *)
LEMMA StackEnded ==
  ASSUME StackSound, ~txActive', frames # <<>>, Top.own,
         scope = Top.base, frames' = Popped, scope' = ScopeWithoutLocals
  PROVE  StackSound'
<1>1. /\ Popped \in Seq(Frame) /\ Len(Popped) = Len(frames) - 1
      /\ Len(frames) \in Nat \ {0}
  BY PopTop DEF StackSound
<1>2. Len(frames) = 1
  BY <1>1 DEF StackSound, TransactionOwner, Top
<1>3. frames' = <<>> /\ Len(frames') = 0
  BY <1>1, <1>2, EmptySeq
<1>4. scope' = 0
  <2>1. scope = LocalScopes(Top) /\ scope \in Nat
    BY <1>2 DEF StackSound, ScopeStack, Top
  <2> QED
    BY <2>1 DEF ScopeWithoutLocals
<1>5. TransactionOwner'
  BY <1>3 DEF TransactionOwner
<1>6. ScopesBalanced'
  BY <1>3, <1>4 DEF ScopesBalanced, InLoop, Exiting
<1>7. ScopeStack'
  BY <1>3 DEF ScopeStack
<1> QED
  BY <1>1, <1>4, <1>5, <1>6, <1>7 DEF StackSound

-------------------------------------------------------------------------------
(* The initial states.                                                     *)
LEMMA InitSound == Init => DataTyped /\ StackSound
<1> SUFFICES ASSUME Init PROVE DataTyped /\ StackSound
  OBVIOUS
<1>1. DataTyped
  BY DEF Init, DataTyped, TargetStamp, NothingStale, Status
<1>2. frames = <<>> /\ scope = 0 /\ Len(frames) = 0 /\ frames \in Seq(Frame)
  BY EmptySeq DEF Init
<1>3. TransactionOwner /\ ScopesBalanced /\ ScopeStack
  BY <1>2 DEF Init, TransactionOwner, ScopesBalanced, ScopeStack, InLoop, Exiting
<1> QED
  BY <1>1, <1>2, <1>3 DEF StackSound

(* TypeOK is the typing of the data and of the call stack. *)
LEMMA TypeSplit == DataTyped /\ StackSound => TypeOK
  BY DEF DataTyped, StackSound, TypeOK

(* The operators on stamps and on changes keep their types. *)
LEMMA OperatorTypes ==
  ASSUME DataTyped
  PROVE  /\ \A t : Stamped(t) \in [Targets -> TargetStamp]
         /\ StampsRolledBack \in [Targets -> TargetStamp]
         /\ \A x : Changed(stale, x) \in [Targets -> SUBSET (Targets \cup Facts)]
         /\ NothingStale \in [Targets -> SUBSET (Targets \cup Facts)]
         /\ Tracked \subseteq Facts /\ Restored \subseteq Facts
<1>1. ASSUME NEW t PROVE Stamped(t) \in [Targets -> TargetStamp]
  BY DEF DataTyped, Stamped, TargetStamp
<1>2. StampsRolledBack \in [Targets -> TargetStamp]
  BY DEF DataTyped, StampsRolledBack, TargetStamp
<1>3. ASSUME NEW x
      PROVE  Changed(stale, x) \in [Targets -> SUBSET (Targets \cup Facts)]
  BY RulesetAssumption DEF DataTyped, Changed
<1> QED
  BY <1>1, <1>2, <1>3 DEF NothingStale, Tracked, Restored

(* Changing a fact, checking the view and starting a resolution keep the   *)
(* types.                                                                  *)
LEMMA AssignTyped ==
  ASSUME DataTyped, NEW f \in Facts, NEW v \in Values, Assign(f, v)
  PROVE  /\ store' \in [Facts -> Values] /\ view' \subseteq Facts
         /\ stale' \in [Targets -> SUBSET (Targets \cup Facts)]
  BY OperatorTypes DEF Assign, DataTyped

LEMMA StoreCheckTyped ==
  ASSUME DataTyped, StoreCheck(stamp + 1)
  PROVE  factStamp' \in [Facts -> Nat] /\ view' \subseteq Facts
  BY DEF StoreCheck, DataTyped

LEMMA EnterTyped ==
  ASSUME DataTyped, NEW g, NEW locals \in BOOLEAN, NEW callers,
         Enter(g, locals, callers),
         final' \in BOOLEAN, returned' \in Status \cup {"none"},
         committed' \in BOOLEAN
  PROVE  DataTyped'
<1>1. factStamp' \in [Facts -> Nat] /\ view' \subseteq Facts
  BY StoreCheckTyped DEF Enter
<1>2. /\ stamp' \in Nat /\ txActive' = TRUE
      /\ store' \in [Facts -> Values] /\ tgt' \in [Targets -> TargetStamp]
      /\ stale' \in [Targets -> SUBSET (Targets \cup Facts)]
  BY DEF Enter, DataTyped
<1>3. /\ txid' \in Nat /\ failed' \in BOOLEAN /\ saved' \in [Facts -> Values]
      /\ staleSaved' \in [Targets -> SUBSET (Targets \cup Facts)]
  <2>1. CASE OwnTx
    <3>1. /\ txid' = txid + 1 /\ saved' = store
          /\ staleSaved' = stale /\ failed' = FALSE
      BY <2>1 DEF Enter
    <3>2. /\ txid \in Nat /\ store \in [Facts -> Values]
          /\ stale \in [Targets -> SUBSET (Targets \cup Facts)]
      BY DEF DataTyped
    <3>3. failed' \in BOOLEAN
      BY <3>1
    <3>4. txid' \in Nat /\ saved' \in [Facts -> Values]
      BY <3>1, <3>2
    <3>5. staleSaved' \in [Targets -> SUBSET (Targets \cup Facts)]
      BY <3>1, <3>2
    <3> QED
      BY <3>3, <3>4, <3>5
  <2>2. CASE ~OwnTx
    <3>1. txid' = txid /\ saved' = saved /\ staleSaved' = staleSaved
          /\ failed' = failed
      BY <2>2 DEF Enter
    <3>2. saved \in [Facts -> Values]
      BY <2>2 DEF DataTyped, OwnTx
    <3> QED
      BY <3>1, <3>2 DEF DataTyped
  <2> QED
    BY <2>1, <2>2
<1> QED
  BY <1>1, <1>2, <1>3 DEF DataTyped

LEMMA DataTypedStep == DataTyped /\ StackSound /\ [Next]_vars => DataTyped'
<1> SUFFICES ASSUME DataTyped, StackSound, [Next]_vars PROVE DataTyped'
  OBVIOUS
<1>1. ASSUME NEW f \in Facts, NEW v \in Values, ExternalChange(f, v)
      PROVE  DataTyped'
  BY <1>1, AssignTyped DEF ExternalChange, DataTyped, txVars
<1>2. ASSUME NEW g \in Goals, NEW locals \in BOOLEAN, Invoke(g, locals)
      PROVE  DataTyped'
  <2>1. final' \in BOOLEAN /\ returned' \in Status \cup {"none"} /\ committed' \in BOOLEAN
    BY <1>2 DEF Invoke, Status
  <2>2. Enter(g, locals, <<>>)
    BY <1>2 DEF Invoke
  <2> QED
    BY <2>1, <2>2, EnterTyped
<1>3. CASE InvokeRejected
  BY <1>3 DEF InvokeRejected, DataTyped, Status, txVars, history
<1>4. CASE InvokeBadLocals
  <2>1. factStamp' \in [Facts -> Nat] /\ view' \subseteq Facts
    BY <1>4, StoreCheckTyped DEF InvokeBadLocals
  <2>2. /\ store' = store /\ tgt' = tgt /\ saved' = saved
        /\ txActive' = txActive /\ stale' = stale /\ staleSaved' = staleSaved
        /\ failed' = failed
    BY <1>4 DEF InvokeBadLocals, history
  <2>3. /\ final' \in BOOLEAN /\ committed' \in BOOLEAN
        /\ returned' \in Status \cup {"none"}
    BY <1>4 DEF InvokeBadLocals, Status
  <2>4. stamp' \in Nat /\ txid' \in Nat
    BY <1>4 DEF InvokeBadLocals, DataTyped
  <2> QED
    BY <2>1, <2>2, <2>3, <2>4 DEF DataTyped
<1>5. CASE Skip
  BY <1>5 DEF Skip, DataTyped, txVars, history
<1>6. CASE RunActions
  BY <1>6 DEF RunActions, DataTyped, txVars
<1>7. CASE ActionsDone
  BY <1>7, OperatorTypes DEF ActionsDone, DataTyped, txVars
<1>8. CASE OpenCall
  BY <1>8 DEF OpenCall, DataTyped, txVars, history
<1>9. CASE CloseCall
  BY <1>9 DEF CloseCall, DataTyped, txVars, history
<1>10. CASE GoalCommits
  BY <1>10, OperatorTypes DEF GoalCommits, Commit, ReturnOutermost, DataTyped, Status
<1>11. CASE GoalReturns
  BY <1>11, OperatorTypes DEF GoalReturns, Return, DataTyped, txVars, history
<1>12. CASE GoalRollsBack
  <2>1. Top \in Frame /\ txActive
    BY <1>12, TopFrame DEF GoalRollsBack, Exiting, StackSound, TransactionOwner
  <2>2. Top.status \in Status
    BY <2>1 DEF Frame
  <2>3. view' \subseteq Facts
    BY <1>12, OperatorTypes DEF GoalRollsBack, Rollback, DataTyped
  <2>4. returned' \in Status
    BY <1>12, <2>2 DEF GoalRollsBack, ReturnOutermost
  <2> QED
    BY <1>12, <2>1, <2>3, <2>4, OperatorTypes
       DEF GoalRollsBack, Rollback, DataTyped
<1>13. CASE GoalFails
  BY <1>13 DEF GoalFails, Return, DataTyped, txVars, history
<1>14. ASSUME NEW s \in {"failure", "error"}, ActionsFail(s) PROVE DataTyped'
  BY <1>14 DEF ActionsFail, DataTyped, txVars
<1>15. ASSUME NEW f \in Facts, NEW v \in Values, Write(f, v) PROVE DataTyped'
  BY <1>15, AssignTyped DEF Write, DataTyped, txVars
<1>16. ASSUME NEW g \in Targets, CallResolve(g) PROVE DataTyped'
  BY <1>16, EnterTyped DEF CallResolve, DataTyped
<1>17. CASE UNCHANGED vars
  BY <1>17 DEF vars, txVars, history, DataTyped
<1> QED
  BY <1>1, <1>2, <1>3, <1>4, <1>5, <1>6, <1>7, <1>8, <1>9, <1>10, <1>11, <1>12,
     <1>13, <1>14, <1>15, <1>16, <1>17 DEF Next, Resolving, Walking

-------------------------------------------------------------------------------
(* The call stack and the local variable scopes.                           *)

(* StackSound only speaks of the call stack, the scopes and TRANSACTION_ACTIVE. *)
LEMMA StackUnchanged ==
  ASSUME StackSound, frames' = frames, txActive' = txActive, scope' \in Nat,
         \/ scope' = scope
         \/ Running /\ scope' >= Top.base
  PROVE  StackSound'
<1>1. Top' = Top /\ InLoop' = InLoop /\ Exiting' = Exiting
  BY DEF Top, InLoop, Exiting
<1>2. TransactionOwner' /\ ScopeStack'
  BY DEF StackSound, TransactionOwner, ScopeStack, LocalScopes
<1>3. ScopesBalanced'
  BY <1>1 DEF StackSound, ScopesBalanced, Running, InLoop, Exiting
<1> QED
  BY <1>2, <1>3 DEF StackSound

(* A nested call ends, with whatever status. *)
LEMMA StackReturn ==
  ASSUME StackSound, NEW s \in Status, frames # <<>>, ~Top.own,
         scope = Top.base, Return(s), txActive' = txActive
  PROVE  StackSound'
<1> DEFINE n == Len(frames) - 1
           caller == frames[n]
           fr == Resumed(caller, s)
<1>1. Len(frames) \in Nat \ {0} /\ Top \in Frame /\ frames \in Seq(Frame)
  BY TopFrame DEF StackSound
<1>2. Len(frames) # 1
  BY <1>1 DEF StackSound, TransactionOwner, Top
<1>3. n \in 1..Len(frames) /\ n = Len(frames) - 1 /\ Len(frames) \in 1..Len(frames)
  <2>1. PICK k \in Nat \ {0} : k = Len(frames)
    BY <1>1
  <2>2. k - 1 \in 1..k /\ k \in 1..k
    BY <1>2, <2>1
  <2> QED
    BY <2>1, <2>2
<1>4. caller \in Frame
  BY <1>1, <1>3, ElementOfSeq
<1>5. SameScopes(fr, caller)
      /\ fr.mode = IF s = "success" THEN "run" ELSE "exit"
  <2> HIDE DEF caller
  <2> QED
    BY <1>4 DEF SameScopes, Resumed, Frame
<1>6. Top.base >= LocalScopes(Top) + caller.base
  BY <1>2, <1>3 DEF StackSound, ScopeStack, Top
<1>7. /\ frames' = [Popped EXCEPT ![n] = fr]
      /\ scope' = IF s = "success" THEN scope - LocalScopes(Top) ELSE caller.base
  BY DEF Return, ScopeWithoutLocals, CaughtScope
<1>8. scope' \in Nat /\ scope' >= caller.base /\ (s # "success" => scope' = caller.base)
  <2>1. caller.base \in Nat /\ Top.base \in Nat
    BY <1>1, <1>4 DEF Frame
  <2>2. LocalScopes(Top) \in {0, 1}
    BY DEF LocalScopes
  <2>3. scope' = IF s = "success" THEN Top.base - LocalScopes(Top) ELSE caller.base
    BY <1>7
  <2> HIDE DEF caller
  <2> QED
    BY <1>6, <2>1, <2>2, <2>3
<1>9. fr.base = caller.base
  BY <1>5 DEF SameScopes
<1>10. fr.mode \in {"loop", "exit"} => scope' = fr.base
  BY <1>5, <1>8, <1>9
<1> HIDE DEF fr
<1> QED
  BY <1>5, <1>7, <1>8, <1>9, <1>10, StackReturned

LEMMA StackStep == DataTyped /\ StackSound /\ [Next]_vars => StackSound'
<1> SUFFICES ASSUME DataTyped, StackSound, [Next]_vars PROVE StackSound'
  OBVIOUS
<1>1. ASSUME NEW f \in Facts, NEW v \in Values, ExternalChange(f, v)
      PROVE  StackSound'
  BY <1>1, StackUnchanged DEF ExternalChange, txVars, StackSound
<1>2. ASSUME NEW g \in Goals, NEW locals \in BOOLEAN, Invoke(g, locals)
      PROVE  StackSound'
  <2> DEFINE fr == [goal |-> g, pos |-> 1, mode |-> "loop", own |-> TRUE,
                    locals |-> locals, base |-> IF locals THEN 1 ELSE 0,
                    status |-> "success"]
  <2>1. frames = <<>> /\ scope = 0 /\ OwnTx
    BY <1>2 DEF Invoke, StackSound, TransactionOwner, ScopesBalanced, OwnTx
  <2>2. fr \in Frame /\ fr.own = TRUE /\ fr.base = LocalScopes(fr)
    BY RulesetAssumption DEF Frame, LocalScopes, Status
  <2>3. (IF locals THEN scope + 1 ELSE scope) = fr.base
    BY <2>1
  <2>4. txActive' /\ frames' = Append(<<>>, fr) /\ scope' = fr.base
    BY <1>2, <2>1, <2>3 DEF Invoke, Enter
  <2> HIDE DEF fr
  <2> QED
    BY <2>1, <2>2, <2>4, StackBegun
<1>3. CASE InvokeRejected
  BY <1>3, StackUnchanged DEF InvokeRejected, txVars, StackSound
<1>4. CASE InvokeBadLocals
  BY <1>4, StackUnchanged DEF InvokeBadLocals, StackSound
<1>5. CASE Skip
  <2> DEFINE fr == [Top EXCEPT !.pos = @ + 1]
  <2>1. /\ frames # <<>> /\ scope = Top.base /\ scope \in Nat
        /\ Top \in Frame
    BY <1>5, TopFrame DEF Skip, More, InLoop, StackSound, ScopesBalanced
  <2>2. SameScopes(fr, Top)
    BY <2>1 DEF Frame, SameScopes
  <2>3. frames' = Replace(fr) /\ scope' = scope /\ txActive' = txActive
    BY <1>5 DEF Skip, txVars
  <2> HIDE DEF fr
  <2> QED
    BY <2>1, <2>2, <2>3, StackReplaced DEF Frame
<1>6. CASE RunActions
  <2> DEFINE fr == [Top EXCEPT !.mode = "run"]
  <2>1. /\ frames # <<>> /\ scope = Top.base /\ scope \in Nat
        /\ Top \in Frame
    BY <1>6, TopFrame DEF RunActions, More, InLoop, StackSound, ScopesBalanced
  <2>2. SameScopes(fr, Top)
    BY <2>1 DEF Frame, SameScopes
  <2>3. frames' = Replace(fr) /\ scope' = scope /\ txActive' = txActive
    BY <1>6 DEF RunActions, txVars
  <2> HIDE DEF fr
  <2> QED
    BY <2>1, <2>2, <2>3, StackReplaced DEF Frame
<1>7. CASE ActionsDone
  <2> DEFINE fr == [Top EXCEPT !.mode = "loop", !.pos = @ + 1]
  <2>1. /\ frames # <<>> /\ scope = Top.base /\ scope \in Nat
        /\ Top \in Frame
    BY <1>7, TopFrame DEF ActionsDone, Running, StackSound
  <2>2. SameScopes(fr, Top)
    <3>1. SameScopes([Top EXCEPT !.mode = "loop"], Top)
      BY <2>1 DEF Frame, SameScopes
    <3>2. ASSUME NEW m \in Frame PROVE SameScopes([m EXCEPT !.pos = @ + 1], m)
      BY DEF Frame, SameScopes
    <3>3. fr = [[Top EXCEPT !.mode = "loop"] EXCEPT !.pos = @ + 1]
      BY <2>1 DEF Frame
    <3> QED
      BY <3>1, <3>2, <3>3 DEF SameScopes
  <2>3. frames' = Replace(fr) /\ scope' = scope /\ txActive' = txActive
    BY <1>7 DEF ActionsDone, txVars
  <2> HIDE DEF fr
  <2> QED
    BY <2>1, <2>2, <2>3, StackReplaced DEF Frame
<1>8. CASE OpenCall
  <2>1. Running /\ scope' = scope + 1 /\ frames # <<>> /\ Top \in Frame
    BY <1>8, TopFrame DEF OpenCall, Running, StackSound
  <2>2. scope' \in Nat /\ scope' >= Top.base
    BY <2>1 DEF StackSound, ScopesBalanced, Frame
  <2> QED
    BY <1>8, <2>1, <2>2, StackUnchanged DEF OpenCall, txVars
<1>9. CASE CloseCall
  <2>1. Running /\ scope' = scope - 1 /\ scope > Top.base /\ frames # <<>> /\ Top \in Frame
    BY <1>9, TopFrame DEF CloseCall, Running, StackSound
  <2>2. scope' \in Nat /\ scope' >= Top.base
    BY <2>1 DEF StackSound, Frame
  <2> QED
    BY <1>9, <2>1, <2>2, StackUnchanged DEF CloseCall, txVars
<1>10. CASE GoalCommits
  BY <1>10, StackEnded
     DEF GoalCommits, Commit, ReturnOutermost, InLoop, StackSound, ScopesBalanced
<1>11. CASE GoalReturns
  BY <1>11, StackReturn
     DEF GoalReturns, InLoop, StackSound, ScopesBalanced, txVars, Status
<1>12. CASE GoalRollsBack
  BY <1>12, StackEnded
     DEF GoalRollsBack, Rollback, ReturnOutermost, Exiting, StackSound, ScopesBalanced
<1>13. CASE GoalFails
  <2>1. frames # <<>> /\ Top \in Frame /\ scope = Top.base /\ ~Top.own
    BY <1>13, TopFrame DEF GoalFails, Exiting, StackSound, ScopesBalanced
  <2> QED
    BY <1>13, <2>1, StackReturn DEF GoalFails, txVars, Frame
<1>14. ASSUME NEW s \in {"failure", "error"}, ActionsFail(s) PROVE StackSound'
  <2> DEFINE fr == [Top EXCEPT !.mode = "exit", !.status = s]
  <2>1. frames # <<>> /\ Top \in Frame /\ s \in Status /\ Top.base \in Nat
    BY <1>14, TopFrame DEF ActionsFail, Running, StackSound, Status, Frame
  <2>2. SameScopes(fr, Top)
    BY <2>1 DEF Frame, SameScopes
  <2>3. frames' = Replace(fr) /\ scope' = Top.base /\ txActive' = txActive
    BY <1>14 DEF ActionsFail, CaughtScope, txVars
  <2> HIDE DEF fr
  <2> QED
    BY <2>1, <2>2, <2>3, StackReplaced
<1>15. ASSUME NEW f \in Facts, NEW v \in Values, Write(f, v) PROVE StackSound'
  BY <1>15, StackUnchanged DEF Write, txVars, StackSound
<1>16. ASSUME NEW g \in Targets, CallResolve(g) PROVE StackSound'
  <2> DEFINE caller == [Top EXCEPT !.mode = "call"]
             fr == [goal |-> g, pos |-> 1, mode |-> "loop", own |-> FALSE,
                    locals |-> FALSE, base |-> scope, status |-> "success"]
  <2>1. frames # <<>> /\ Top \in Frame /\ txActive
    BY <1>16, TopFrame DEF CallResolve, Running, StackSound, TransactionOwner
  <2>2. SameScopes(caller, Top)
    BY <2>1 DEF Frame, SameScopes
  <2>3. fr \in Frame /\ fr.own = FALSE /\ fr.base = scope /\ fr.locals = FALSE
    BY DEF Frame, Status, StackSound
  <2>4. /\ frames' = Append(Replace(caller), fr) /\ scope' = scope
        /\ txActive' = txActive
    BY <1>16, <2>1 DEF CallResolve, Enter, OwnTx, DataTyped
  <2> HIDE DEF fr, caller
  <2> QED
    BY <2>1, <2>2, <2>3, <2>4, StackPushed
<1>17. CASE UNCHANGED vars
  BY <1>17, StackUnchanged DEF vars, txVars, StackSound
<1> QED
  BY <1>1, <1>2, <1>3, <1>4, <1>5, <1>6, <1>7, <1>8, <1>9, <1>10, <1>11, <1>12,
     <1>13, <1>14, <1>15, <1>16, <1>17 DEF Next, Resolving, Walking

-------------------------------------------------------------------------------
(* Stamps and the clock.                                                   *)

ClockSound == StampsBehindClock /\ CommittedBehindClock

(* The stamp of t that a rollback of the current transaction would leave.  *)
RestorableStamp(t) == IF tgt[t].txid = txid THEN tgt[t].txstamp ELSE tgt[t].stamp

(* Stamping a target makes no target older or younger than the clock, and  *)
(* does not change what a rollback restores.                               *)
LEMMA StampedFacts ==
  ASSUME DataTyped, StampsBehindClock, NEW t, NEW u \in Targets, NEW s,
         s = Stamped(t)[u]
  PROVE  /\ s \in TargetStamp
         /\ tgt[u].stamp <= s.stamp /\ s.stamp <= stamp
         /\ s.txid <= txid /\ s.txstamp <= s.stamp
         /\ RestorableStamp(u) = IF s.txid = txid THEN s.txstamp ELSE s.stamp
         /\ RestorableStamp(u) <= s.stamp
         /\ u = t => s.stamp = stamp
<1>1. /\ tgt[u] \in TargetStamp /\ stamp \in Nat /\ txid \in Nat
      /\ tgt[u].stamp <= stamp /\ tgt[u].txid <= txid
      /\ tgt[u].txstamp <= tgt[u].stamp
  BY DEF DataTyped, StampsBehindClock
<1>2. CASE u = t
  <2>1. s = [stamp |-> stamp, txid |-> txid,
             txstamp |-> IF tgt[u].txid # txid THEN tgt[u].stamp ELSE tgt[u].txstamp]
    BY <1>2 DEF Stamped, DataTyped
  <2> QED
    BY <1>1, <1>2, <2>1 DEF RestorableStamp, TargetStamp
<1>3. CASE u # t
  <2>1. s = tgt[u]
    BY <1>3 DEF Stamped, DataTyped
  <2> QED
    BY <1>1, <1>3, <2>1 DEF RestorableStamp, TargetStamp
<1> QED
  BY <1>2, <1>3

LEMMA ClockStamped ==
  ASSUME DataTyped, ClockSound, NEW t, tgt' = Stamped(t), txActive' = txActive,
         txid' = txid, stamp' = stamp, factStamp' = factStamp
  PROVE  ClockSound'
<1>1. \A u \in Targets :
        /\ tgt'[u].stamp <= stamp /\ tgt'[u].txid <= txid
        /\ tgt'[u].txstamp <= tgt'[u].stamp
        /\ RestorableStamp(u)' = RestorableStamp(u)
  BY StampedFacts DEF ClockSound, RestorableStamp
<1>2. StampsBehindClock'
  BY <1>1 DEF ClockSound, StampsBehindClock
<1>3. CommittedBehindClock'
  <2>1. ASSUME txActive PROVE \A u \in Targets : RestorableStamp(u) < stamp
    BY <2>1 DEF ClockSound, CommittedBehindClock, CommittedStamp, RestorableStamp
  <2>2. ASSUME txActive' PROVE \A u \in Targets : CommittedStamp(u)' = RestorableStamp(u)'
    BY <2>2 DEF CommittedStamp, RestorableStamp
  <2> QED
    BY <1>1, <2>1, <2>2 DEF CommittedBehindClock
<1> QED
  BY <1>2, <1>3 DEF ClockSound

(* The clock advances and the changed facts are stamped with its new value. *)
LEMMA ClockAdvanced ==
  ASSUME DataTyped, ClockSound, stamp' = stamp + 1, StoreCheck(stamp + 1),
         tgt' = tgt,
         \/ txid' = txid /\ txActive' = txActive
         \/ txid' = txid + 1
  PROVE  ClockSound'
<1>1. /\ stamp \in Nat /\ txid \in Nat /\ txid' \in Nat /\ txid <= txid'
      /\ tgt \in [Targets -> TargetStamp]
      /\ factStamp \in [Facts -> Nat]
  BY DEF DataTyped
<1>2. \A t \in Targets : /\ tgt[t].stamp \in Nat /\ tgt[t].txid \in Nat
                         /\ tgt[t].txstamp \in Nat
                         /\ tgt[t].stamp <= stamp /\ tgt[t].txid <= txid
                         /\ tgt[t].txstamp <= tgt[t].stamp
  BY <1>1 DEF TargetStamp, ClockSound, StampsBehindClock
<1>3. \A f \in Facts : factStamp'[f] <= stamp'
  BY <1>1 DEF StoreCheck, ClockSound, StampsBehindClock
<1>4. StampsBehindClock'
  BY <1>1, <1>2, <1>3 DEF StampsBehindClock
<1>5. \A t \in Targets : CommittedStamp(t)' <= stamp
  BY <1>1, <1>2 DEF CommittedStamp
<1>6. CommittedBehindClock'
  <2>1. \A t \in Targets : CommittedStamp(t)' \in Nat
    BY <1>2 DEF CommittedStamp
  <2> QED
    BY <1>1, <1>5, <2>1 DEF CommittedBehindClock
<1> QED
  BY <1>4, <1>6 DEF ClockSound

(* Nothing the clock invariants speak of changes. *)
LEMMA ClockUnchanged ==
  ASSUME ClockSound, UNCHANGED <<tgt, factStamp, stamp, txid, txActive>>
  PROVE  ClockSound'
  BY DEF ClockSound, StampsBehindClock, CommittedBehindClock, CommittedStamp

LEMMA ClockStep ==
  DataTyped /\ StackSound /\ ClockSound /\ [Next]_vars => ClockSound'
<1> SUFFICES ASSUME DataTyped, StackSound, ClockSound, [Next]_vars
             PROVE  ClockSound'
  OBVIOUS
<1>1. ASSUME NEW f \in Facts, NEW v \in Values, ExternalChange(f, v)
      PROVE  ClockSound'
  BY <1>1, ClockUnchanged DEF ExternalChange, txVars
<1>2. ASSUME NEW g, NEW locals \in BOOLEAN, NEW callers, Enter(g, locals, callers)
      PROVE  ClockSound'
  <2>1. CASE OwnTx
    <3>1. txid' = txid + 1 /\ tgt' = tgt /\ stamp' = stamp + 1
          /\ StoreCheck(stamp + 1)
      BY <1>2, <2>1 DEF Enter
    <3> QED
      BY <3>1, ClockAdvanced
  <2>2. CASE ~OwnTx
    <3>1. /\ txid' = txid /\ tgt' = tgt /\ stamp' = stamp + 1
          /\ StoreCheck(stamp + 1) /\ txActive' = TRUE /\ txActive
      BY <1>2, <2>2 DEF Enter, OwnTx
    <3>2. txActive' = txActive
      BY <3>1 DEF DataTyped
    <3> QED
      BY <3>1, <3>2, ClockAdvanced
  <2> QED
    BY <2>1, <2>2
<1>3. CASE InvokeRejected
  BY <1>3, ClockUnchanged DEF InvokeRejected, txVars
<1>4. CASE InvokeBadLocals
  BY <1>4, ClockAdvanced DEF InvokeBadLocals
<1>5. CASE Skip \/ RunActions \/ OpenCall \/ CloseCall \/ GoalFails
  BY <1>5, ClockUnchanged
     DEF Skip, RunActions, OpenCall, CloseCall, GoalFails, txVars
<1>6. CASE ActionsDone
  BY <1>6, ClockStamped DEF ActionsDone, txVars
<1>7. CASE GoalReturns
  BY <1>7, ClockStamped DEF GoalReturns, txVars
<1>8. CASE GoalCommits
  <2>1. /\ tgt' = Stamped(Top.goal) /\ txActive' = FALSE
        /\ UNCHANGED <<stamp, factStamp, txid>>
    BY <1>8 DEF GoalCommits, Commit
  <2>2. StampsBehindClock'
    BY <2>1, StampedFacts DEF ClockSound, StampsBehindClock
  <2>3. CommittedBehindClock'
    BY <2>1 DEF CommittedBehindClock
  <2> QED
    BY <2>2, <2>3 DEF ClockSound
<1>9. CASE GoalRollsBack
  <2>1. /\ tgt' = StampsRolledBack /\ txActive' = FALSE
        /\ UNCHANGED <<stamp, factStamp, txid>>
    BY <1>9 DEF GoalRollsBack, Rollback
  <2>2. ASSUME NEW t \in Targets
        PROVE  /\ tgt'[t].stamp <= stamp /\ tgt'[t].txid <= txid
               /\ tgt'[t].txstamp <= tgt'[t].stamp
    <3>1. /\ tgt[t] \in TargetStamp /\ stamp \in Nat
          /\ tgt[t].stamp <= stamp /\ tgt[t].txid <= txid
          /\ tgt[t].txstamp <= tgt[t].stamp
      BY DEF ClockSound, StampsBehindClock, DataTyped
    <3> QED
      BY <2>1, <3>1 DEF StampsRolledBack, TargetStamp
  <2>3. StampsBehindClock'
    BY <2>1, <2>2 DEF ClockSound, StampsBehindClock
  <2>4. CommittedBehindClock'
    BY <2>1 DEF CommittedBehindClock
  <2> QED
    BY <2>3, <2>4 DEF ClockSound
<1>10. ASSUME NEW s \in {"failure", "error"}, ActionsFail(s) PROVE ClockSound'
  BY <1>10, ClockUnchanged DEF ActionsFail, txVars
<1>11. ASSUME NEW f \in Facts, NEW v \in Values, Write(f, v) PROVE ClockSound'
  BY <1>11, ClockUnchanged DEF Write, txVars
<1>12. CASE UNCHANGED vars
  BY <1>12, ClockUnchanged DEF vars, txVars
<1>13. ASSUME NEW g \in Goals, NEW locals \in BOOLEAN, Invoke(g, locals)
       PROVE  ClockSound'
  BY <1>2, <1>13 DEF Invoke
<1>14. ASSUME NEW g \in Targets, CallResolve(g) PROVE ClockSound'
  BY <1>2, <1>14 DEF CallResolve
<1> QED
  BY <1>1, <1>3, <1>4, <1>5, <1>6, <1>7, <1>8, <1>9, <1>10, <1>11, <1>12,
     <1>13, <1>14 DEF Next, Resolving, Walking

-------------------------------------------------------------------------------
(* The inductive invariant. *)
LEMMA InitIInv == Init => IInv
<1> SUFFICES ASSUME Init PROVE IInv
  OBVIOUS
<1>1. DataTyped /\ StackSound
  BY InitSound
<1>2. StampsBehindClock /\ CommittedBehindClock
  BY DEF Init, StampsBehindClock, CommittedBehindClock
<1> QED
  BY <1>1, <1>2, TypeSplit DEF IInv, StackSound

LEMMA IInvSplit == IInv <=> DataTyped /\ StackSound /\ ClockSound
  BY DEF IInv, TypeOK, DataTyped, StackSound, ClockSound

LEMMA IInvStep == IInv /\ [Next]_vars => IInv'
<1> SUFFICES ASSUME IInv, [Next]_vars PROVE IInv'
  OBVIOUS
<1>1. DataTyped /\ StackSound /\ ClockSound
  BY IInvSplit
<1>2. DataTyped' /\ StackSound' /\ ClockSound'
  BY <1>1, DataTypedStep, StackStep, ClockStep
<1> QED
  BY <1>2 DEF IInv, TypeOK, DataTyped, StackSound, ClockSound

THEOREM Inductive == Spec => []IInv
  BY InitIInv, IInvStep, PTL DEF Spec

(* The variables keep their types, for every ruleset and every bound. *)
THEOREM TypeCorrect == Spec => []TypeOK
<1>1. IInv => TypeOK
  BY DEF IInv
<1> QED
  BY <1>1, Inductive, PTL

(* A transaction is active exactly while a goal is being resolved, and     *)
(* exactly the outermost dres_update_goal owns it, however deeply goals    *)
(* are resolved recursively and however they end (dres.c:521-529,556-565). *)
THEOREM OneOwner == Spec => []TransactionOwner
<1>1. IInv => TransactionOwner
  BY DEF IInv
<1> QED
  BY <1>1, Inductive, PTL

(* The local variable scopes pushed by push_locals and by method calls are *)
(* popped again whatever combination of successes, failures and            *)
(* exceptions ends the nested calls (dres.c:534,553; vm.h:629-633).        *)
THEOREM BalancedScopes == Spec => []ScopesBalanced
<1>1. IInv => ScopesBalanced
  BY DEF IInv
<1> QED
  BY <1>1, Inductive, PTL

(* No stamp, restored or not, is ever ahead of dres->stamp: what happens   *)
(* next is always younger than what has been seen.                         *)
THEOREM ClockAhead == Spec => []StampsBehindClock
<1>1. IInv => StampsBehindClock
  BY DEF IInv
<1> QED
  BY <1>1, Inductive, PTL

-------------------------------------------------------------------------------
(* Failures.                                                               *)

(* A failed transaction has nothing left to do: the innermost call is on   *)
(* its way out, with a status that its caller does not take for success.   *)
FailureSound ==
  frames # <<>> => /\ failed => Top.mode = "exit"
                   /\ Top.mode = "exit" => Top.status # "success"

LEMMA FrameInMode ==
  ASSUME NEW fr \in Frame, NEW m \in {"loop", "run", "call", "exit"}
  PROVE  [fr EXCEPT !.mode = m] \in Frame /\ [fr EXCEPT !.mode = m].mode = m
  BY DEF Frame

LEMMA FrameMoved ==
  ASSUME NEW fr \in Frame
  PROVE  [fr EXCEPT !.pos = @ + 1] \in Frame /\ [fr EXCEPT !.pos = @ + 1].mode = fr.mode
  BY DEF Frame

(* The innermost frame after each of the changes of the call stack. *)
LEMMA TopReplaced ==
  ASSUME StackSound, frames # <<>>, NEW fr \in Frame, frames' = Replace(fr)
  PROVE  Top' = fr
<1>1. /\ frames' \in Seq(Frame) /\ Len(frames') = Len(frames)
      /\ Len(frames) \in Nat \ {0}
      /\ \A i \in 1..Len(frames) :
           frames'[i] = IF i = Len(frames) THEN fr ELSE frames[i]
  BY ReplaceTop DEF StackSound, Replace
<1> QED
  BY <1>1 DEF Top

LEMMA TopPushed ==
  ASSUME NEW callers \in Seq(Frame), NEW fr \in Frame, frames' = Append(callers, fr)
  PROVE  Top' = fr
<1>1. PICK k \in Nat : k = Len(callers)
  OBVIOUS
<1>2. Len(frames') = k + 1 /\ frames'[k + 1] = fr
  BY <1>1, AppendProperties
<1> QED
  BY <1>2 DEF Top

LEMMA TopReturned ==
  ASSUME StackSound, frames # <<>>, ~Top.own, NEW s \in Status, Return(s)
  PROVE  Top'.mode = (IF s = "success" THEN "run" ELSE "exit")
         /\ (s # "success" => Top'.status = s)
<1> DEFINE n == Len(frames) - 1
           caller == frames[n]
           fr == Resumed(caller, s)
<1>1. /\ Len(frames) \in Nat \ {0} /\ frames \in Seq(Frame)
      /\ Popped \in Seq(Frame) /\ Len(Popped) = n
      /\ \A i \in 1..n : Popped[i] = frames[i]
  BY PopTop DEF StackSound
<1>2. Len(frames) # 1
  BY <1>1 DEF StackSound, TransactionOwner, Top
<1>3. n \in Nat \ {0} /\ n \in 1..Len(frames)
  <2>1. PICK k \in Nat \ {0} : k = Len(frames)
    BY <1>1
  <2>2. k - 1 \in Nat \ {0} /\ k - 1 \in 1..k
    BY <1>2, <2>1
  <2> QED
    BY <2>1, <2>2
<1>4. caller \in Frame
  BY <1>1, <1>3, ElementOfSeq
<1>5. /\ fr \in Frame
      /\ fr.mode = IF s = "success" THEN "run" ELSE "exit"
      /\ s # "success" => fr.status = s
  <2> HIDE DEF caller
  <2> QED
    BY <1>4 DEF Resumed, Frame
<1>6. frames' = [Popped EXCEPT ![Len(Popped)] = fr] /\ Popped # <<>>
  BY <1>1, <1>3, EmptySeq DEF Return
<1>7. Len(frames') = Len(Popped) /\ frames'[Len(Popped)] = fr
  <2> HIDE DEF fr
  <2>1. /\ Len(frames') = Len(Popped) /\ Len(Popped) \in Nat \ {0}
        /\ \A i \in 1..Len(Popped) :
             frames'[i] = IF i = Len(Popped) THEN fr ELSE Popped[i]
    BY <1>1, <1>5, <1>6, ReplaceTop
  <2> QED
    BY <2>1
<1> QED
  BY <1>5, <1>7 DEF Top

(* The outermost call is the only one left when it ends. *)
LEMMA NothingLeft ==
  ASSUME StackSound, frames # <<>>, Top.own, frames' = Popped
  PROVE  frames' = <<>>
<1>1. /\ Popped \in Seq(Frame) /\ Len(Popped) = Len(frames) - 1
      /\ Len(frames) \in Nat \ {0}
  BY PopTop DEF StackSound
<1>2. Len(frames) = 1
  BY <1>1 DEF StackSound, TransactionOwner, Top
<1> QED
  BY <1>1, <1>2, EmptySeq

LEMMA FailureStep ==
  StackSound /\ DataTyped /\ FailureSound /\ [Next]_vars => FailureSound'
<1> SUFFICES ASSUME StackSound, DataTyped, FailureSound, [Next]_vars PROVE FailureSound'
  OBVIOUS
<1>1. ASSUME frames' = frames, failed' = failed PROVE FailureSound'
  BY <1>1 DEF FailureSound, Top
<1>2. ASSUME frames' = <<>> PROVE FailureSound'
  BY <1>2 DEF FailureSound
<1>3. ASSUME NEW f \in Facts, NEW v \in Values, ExternalChange(f, v) \/ Write(f, v)
      PROVE  FailureSound'
  BY <1>1, <1>3 DEF ExternalChange, Write
<1>4. ASSUME NEW g \in Goals, NEW locals \in BOOLEAN, Invoke(g, locals)
      PROVE  FailureSound'
  <2> DEFINE fr == [goal |-> g, pos |-> 1, mode |-> "loop", own |-> TRUE,
                    locals |-> locals, base |-> IF locals THEN scope + 1 ELSE scope,
                    status |-> "success"]
  <2>1. frames = <<>> /\ OwnTx
    BY <1>4 DEF Invoke, StackSound, TransactionOwner, OwnTx
  <2>2. fr \in Frame /\ fr.mode = "loop"
    BY RulesetAssumption DEF Frame, Status, StackSound
  <2>3. failed' = FALSE /\ frames' = Append(<<>>, fr)
    BY <1>4, <2>1 DEF Invoke, Enter
  <2> HIDE DEF fr
  <2>4. Top' = fr
    BY <2>2, <2>3, TopPushed, EmptySeq
  <2> QED
    BY <2>2, <2>3, <2>4 DEF FailureSound
<1>5. CASE InvokeRejected \/ InvokeBadLocals
  BY <1>1, <1>5 DEF InvokeRejected, InvokeBadLocals, history
<1>6. ASSUME NEW mode \in {"loop", "run"}, NEW fr \in Frame, frames # <<>>, fr.mode = mode,
             Top.mode # "exit", frames' = Replace(fr), failed' = failed
      PROVE  FailureSound'
  <2>1. Top' = fr
    BY <1>6, TopReplaced
  <2> QED
    BY <1>6, <2>1 DEF FailureSound
<1>7. CASE Skip
  <2> DEFINE fr == [Top EXCEPT !.pos = @ + 1]
  <2>1. frames # <<>> /\ Top \in Frame /\ Top.mode = "loop"
    BY <1>7, TopFrame DEF Skip, More, InLoop, StackSound
  <2>2. fr \in Frame /\ fr.mode = "loop"
    BY <2>1 DEF Frame
  <2>3. frames' = Replace(fr) /\ failed' = failed
    BY <1>7 DEF Skip, history
  <2> HIDE DEF fr
  <2> QED
    BY <1>6, <2>1, <2>2, <2>3
<1>8. CASE RunActions
  <2> DEFINE fr == [Top EXCEPT !.mode = "run"]
  <2>1. frames # <<>> /\ Top \in Frame /\ Top.mode = "loop"
    BY <1>8, TopFrame DEF RunActions, More, InLoop, StackSound
  <2>2. fr \in Frame /\ fr.mode = "run"
    BY <2>1 DEF Frame
  <2>3. frames' = Replace(fr) /\ failed' = failed
    BY <1>8 DEF RunActions
  <2> HIDE DEF fr
  <2> QED
    BY <1>6, <2>1, <2>2, <2>3
<1>9. CASE ActionsDone
  <2> DEFINE fr == [Top EXCEPT !.mode = "loop", !.pos = @ + 1]
  <2>1. frames # <<>> /\ Top \in Frame /\ Top.mode = "run"
    BY <1>9, TopFrame DEF ActionsDone, Running, StackSound
  <2>2. fr \in Frame /\ fr.mode = "loop"
    <3>1. PICK m : m = [Top EXCEPT !.mode = "loop"]
      OBVIOUS
    <3>2. m \in Frame /\ m.mode = "loop"
      BY <2>1, <3>1, FrameInMode
    <3>3. fr = [m EXCEPT !.pos = @ + 1]
      BY <2>1, <3>1 DEF Frame
    <3> QED
      BY <3>2, <3>3, FrameMoved
  <2>3. frames' = Replace(fr) /\ failed' = failed
    BY <1>9 DEF ActionsDone
  <2> HIDE DEF fr
  <2> QED
    BY <1>6, <2>1, <2>2, <2>3
<1>10. CASE OpenCall \/ CloseCall
  BY <1>1, <1>10 DEF OpenCall, CloseCall, history
<1>11. CASE GoalCommits
  BY <1>2, <1>11, NothingLeft DEF GoalCommits, InLoop, ReturnOutermost
<1>12. CASE GoalRollsBack
  BY <1>2, <1>12, NothingLeft DEF GoalRollsBack, Exiting, ReturnOutermost
<1>13. CASE GoalReturns
  <2>1. ~failed /\ failed' = failed
    BY <1>13 DEF GoalReturns, InLoop, FailureSound, history
  <2>2. Top'.mode = "run"
    BY <1>13, TopReturned DEF GoalReturns, InLoop, Status
  <2> QED
    BY <2>1, <2>2 DEF FailureSound
<1>14. CASE GoalFails
  <2>1. frames # <<>> /\ Top \in Frame /\ Top.status # "success" /\ ~Top.own
    BY <1>14, TopFrame DEF GoalFails, Exiting, FailureSound, StackSound
  <2>2. Top'.mode = "exit" /\ Top'.status = Top.status
    BY <1>14, <2>1, TopReturned DEF GoalFails, Frame
  <2> QED
    BY <2>1, <2>2 DEF FailureSound
<1>15. ASSUME NEW s \in {"failure", "error"}, ActionsFail(s) PROVE FailureSound'
  <2> DEFINE fr == [Top EXCEPT !.mode = "exit", !.status = s]
  <2>1. frames # <<>> /\ Top \in Frame /\ s \in Status /\ s # "success"
    BY <1>15, TopFrame DEF ActionsFail, Running, StackSound, Status
  <2>2. fr \in Frame /\ fr.mode = "exit" /\ fr.status = s
    BY <2>1 DEF Frame
  <2>3. frames' = Replace(fr)
    BY <1>15 DEF ActionsFail
  <2> HIDE DEF fr
  <2>4. Top' = fr
    BY <2>1, <2>2, <2>3, TopReplaced
  <2> QED
    BY <2>1, <2>2, <2>4 DEF FailureSound
<1>16. ASSUME NEW g \in Targets, CallResolve(g) PROVE FailureSound'
  <2> DEFINE caller == [Top EXCEPT !.mode = "call"]
             fr == [goal |-> g, pos |-> 1, mode |-> "loop", own |-> FALSE,
                    locals |-> FALSE, base |-> scope, status |-> "success"]
  <2>1. frames # <<>> /\ Top \in Frame /\ Top.mode = "run" /\ txActive /\ ~failed
    BY <1>16, TopFrame
       DEF CallResolve, Running, StackSound, TransactionOwner, FailureSound
  <2>2. caller \in Frame
    BY <2>1 DEF Frame
  <2>3. fr \in Frame /\ fr.mode = "loop"
    BY DEF Frame, Status, StackSound
  <2>4. /\ frames' = Append(Replace(caller), fr)
        /\ failed' = failed
    BY <1>16, <2>1 DEF CallResolve, Enter, OwnTx
  <2> HIDE DEF fr, caller
  <2>5. Replace(caller) \in Seq(Frame)
    BY <2>1, <2>2, ReplaceTop DEF StackSound, Replace
  <2>6. Top' = fr
    BY <2>3, <2>4, <2>5, TopPushed
  <2> QED
    BY <2>1, <2>3, <2>4, <2>6 DEF FailureSound
<1>17. CASE UNCHANGED vars
  BY <1>1, <1>17 DEF vars, history
<1> QED
  BY <1>3, <1>4, <1>5, <1>7, <1>8, <1>9, <1>10, <1>11, <1>12, <1>13, <1>14, <1>15,
     <1>16, <1>17 DEF Next, Resolving, Walking

(* A transaction ends in a commit that no failure has preceded, or with a  *)
(* status that is no success.                                              *)
LEMMA TransactionEnds ==
  ASSUME StackSound, DataTyped, FailureSound, [Next]_vars, txActive, ~txActive'
  PROVE  \/ GoalCommits /\ ~failed
         \/ GoalRollsBack /\ Top.status # "success"
<1>1. ASSUME NEW g \in Targets, NEW locals, NEW callers, Enter(g, locals, callers) PROVE FALSE
  BY <1>1 DEF Enter
<1>2. frames # <<>>
  BY DEF StackSound, TransactionOwner
<1>3. \/ GoalCommits \/ GoalRollsBack
  <2>1. ASSUME NEW f \in Facts, NEW v \in Values PROVE ~ExternalChange(f, v) /\ ~Write(f, v)
    BY DEF ExternalChange, Write, txVars
  <2>2. \A g \in Goals, locals \in BOOLEAN : ~Invoke(g, locals)
    BY <1>2 DEF Invoke
  <2>3. ~InvokeRejected /\ ~InvokeBadLocals
    BY <1>2 DEF InvokeRejected, InvokeBadLocals
  <2>4. ~Skip /\ ~RunActions /\ ~ActionsDone /\ ~OpenCall /\ ~CloseCall
    BY DEF Skip, RunActions, ActionsDone, OpenCall, CloseCall, txVars
  <2>5. ~GoalReturns /\ ~GoalFails
    BY DEF GoalReturns, GoalFails, txVars
  <2>6. \A s \in {"failure", "error"} : ~ActionsFail(s)
    BY DEF ActionsFail, txVars
  <2>7. \A g \in Targets : ~CallResolve(g)
    BY <1>1 DEF CallResolve
  <2>8. UNCHANGED vars => txActive' = txActive
    BY DEF vars, txVars
  <2> QED
    BY <2>1, <2>2, <2>3, <2>4, <2>5, <2>6, <2>7, <2>8 DEF Next, Resolving, Walking
<1>4. ASSUME GoalCommits PROVE ~failed
  BY <1>4 DEF GoalCommits, InLoop, FailureSound
<1>5. ASSUME GoalRollsBack PROVE Top.status # "success"
  BY <1>5 DEF GoalRollsBack, Exiting, FailureSound
<1> QED
  BY <1>3, <1>4, <1>5

THEOREM FailureInductive == Spec => [](IInv /\ FailureSound)
<1>1. Init => FailureSound
  BY DEF Init, FailureSound
<1>2. IInv /\ FailureSound /\ [Next]_vars => FailureSound'
  BY IInvSplit, FailureStep
<1> QED
  BY <1>1, <1>2, InitIInv, IInvStep, PTL DEF Spec

(* No transaction in which an action failed is ever committed: the failure *)
(* of a nested goal ends the actions that have resolved it, and so on out  *)
(* to the call that rolls back (dres.c:539-565, vm_instr_call).            *)
THEOREM FailuresRollBack == Spec => NoCommitAfterFailure
<1>1. IInv /\ FailureSound /\ [Next]_vars
        => [txActive /\ ~txActive' /\ committed' => ~failed]_vars
  <2> SUFFICES ASSUME IInv, FailureSound, [Next]_vars, txActive, ~txActive', committed'
               PROVE  ~failed
    OBVIOUS
  <2>1. (GoalCommits /\ ~failed) \/ GoalRollsBack
    BY IInvSplit, TransactionEnds
  <2> QED
    BY <2>1 DEF GoalRollsBack, Rollback
<1> QED
  BY <1>1, FailureInductive, PTL DEF Spec, NoCommitAfterFailure

(* Were it not for the locals that push_locals rejects, a caller would be  *)
(* told of success exactly when its goal has been committed: there is no   *)
(* other way in which the returned status is wrong (dres.c:567-568).       *)
THEOREM StatusIsTrue == ~BadLocals => (Spec => []SuccessMeansCommitted)
<1> SUFFICES ASSUME ~BadLocals PROVE Spec => []SuccessMeansCommitted
  OBVIOUS
<1>1. Init => SuccessMeansCommitted
  BY DEF Init, SuccessMeansCommitted
<1>2. IInv /\ FailureSound /\ IInv' /\ SuccessMeansCommitted /\ [Next]_vars
        => SuccessMeansCommitted'
  <2> SUFFICES ASSUME IInv, FailureSound, IInv', SuccessMeansCommitted, [Next]_vars,
                      frames' = <<>>
               PROVE  returned' = "success" <=> committed'
    BY DEF SuccessMeansCommitted
  <2>1. ~txActive' /\ (txActive <=> frames # <<>>)
    BY DEF IInv, TransactionOwner
  <2>2. CASE txActive
    <3>1. GoalCommits \/ (GoalRollsBack /\ Top.status # "success")
      BY <2>1, <2>2, IInvSplit, TransactionEnds
    <3>2. CASE GoalCommits
      BY <3>2 DEF GoalCommits, Commit, ReturnOutermost
    <3>3. CASE GoalRollsBack /\ Top.status # "success"
      BY <3>3 DEF GoalRollsBack, Rollback, ReturnOutermost
    <3> QED
      BY <3>1, <3>2, <3>3
  <2>3. CASE ~txActive
    <3>1. frames = <<>>
      BY <2>1, <2>3
    <3>2. ~Resolving
      BY <3>1 DEF Resolving, Walking, Skip, RunActions, ActionsDone, OpenCall, CloseCall,
                  GoalCommits, GoalReturns, GoalFails, ActionsFail, CallResolve, Write,
                  GoalRollsBack, More, InLoop, Running, Exiting
    <3>3. \A g \in Goals, locals \in BOOLEAN : ~Invoke(g, locals)
      BY <2>1 DEF Invoke, Enter
    <3>4. ~InvokeBadLocals
      BY DEF InvokeBadLocals
    <3>5. \/ InvokeRejected
          \/ UNCHANGED <<returned, committed>>
      BY <3>2, <3>3, <3>4 DEF Next, ExternalChange, vars
    <3>6. CASE InvokeRejected
      <4>1. returned' = "error" /\ ~committed'
        BY <3>6 DEF InvokeRejected
      <4> QED
        BY <4>1
    <3>7. CASE UNCHANGED <<returned, committed>>
      <4>1. returned = "success" <=> committed
        BY <3>1 DEF SuccessMeansCommitted
      <4> QED
        BY <3>7, <4>1, Zenon
    <3> QED
      BY <3>5, <3>6, <3>7
  <2> QED
    BY <2>2, <2>3
<1> QED
  BY <1>1, <1>2, FailureInductive, PTL DEF Spec

-------------------------------------------------------------------------------
(* The resolver implements the atomic goals.                               *)

(* A step within a transaction that leaves the snapshot alone and at most  *)
(* stamps a target is not visible from outside.                            *)
LEMMA InvisibleStep ==
  ASSUME IInv, UNCHANGED <<saved, txActive, txid>>,
         txActive \/ UNCHANGED <<store, tgt>>,
         tgt' = tgt \/ (\E t : tgt' = Stamped(t))
  PROVE  UNCHANGED Atomic!vars
<1>1. DataTyped /\ StampsBehindClock
  BY IInvSplit DEF ClockSound
<1>2. \A u \in Targets : CommittedStamp(u)' = CommittedStamp(u)
  <2>1. CASE tgt' = tgt
    BY <2>1 DEF CommittedStamp
  <2>2. CASE txActive /\ \E t : tgt' = Stamped(t)
    BY <2>2, <1>1, StampedFacts DEF CommittedStamp, RestorableStamp
  <2> QED
    BY <2>1, <2>2
<1>3. (IF txActive THEN saved ELSE store)' = IF txActive THEN saved ELSE store
  OBVIOUS
<1>4. [t \in Targets |-> CommittedStamp(t)]' = [t \in Targets |-> CommittedStamp(t)]
  BY <1>2
<1> QED
  BY <1>3, <1>4 DEF Atomic!vars

LEMMA RefinementStep == IInv /\ [Next]_vars => [Atomic!Next]_(Atomic!vars)
<1> SUFFICES ASSUME IInv, [Next]_vars PROVE [Atomic!Next]_(Atomic!vars)
  OBVIOUS
<1>0. DataTyped /\ StackSound /\ StampsBehindClock /\ CommittedBehindClock
  BY IInvSplit DEF ClockSound
<1>1. ASSUME NEW f \in Facts, NEW v \in Values, ExternalChange(f, v)
      PROVE  Atomic!Change
  <2>1. /\ ~txActive /\ txActive' = txActive /\ tgt' = tgt /\ txid' = txid
        /\ store' = [store EXCEPT ![f] = v]
    BY <1>0, <1>1 DEF ExternalChange, StackSound, TransactionOwner, Assign, txVars
  <2>2. [t \in Targets |-> CommittedStamp(t)]' = [t \in Targets |-> CommittedStamp(t)]
    BY <2>1 DEF CommittedStamp
  <2>3. ~txActive'
    BY <2>1
  <2> QED
    BY <2>1, <2>2, <2>3 DEF Atomic!Change
<1>2. ASSUME NEW g \in Goals, NEW locals \in BOOLEAN, Invoke(g, locals)
      PROVE  Atomic!Begin
  <2>1. /\ ~txActive /\ OwnTx
    BY <1>0, <1>2 DEF Invoke, StackSound, TransactionOwner, OwnTx
  <2>2. /\ txActive' = TRUE /\ txid' = txid + 1 /\ saved' = store /\ tgt' = tgt
    BY <1>2, <2>1 DEF Invoke, Enter
  <2>3. \A t \in Targets : CommittedStamp(t)' = CommittedStamp(t)
    <3>1. \A t \in Targets : tgt[t].txid \in Nat /\ tgt[t].txid <= txid /\ txid \in Nat
      BY <1>0 DEF DataTyped, TargetStamp, StampsBehindClock
    <3> QED
      BY <2>1, <2>2, <3>1 DEF CommittedStamp
  <2>4. [t \in Targets |-> CommittedStamp(t)]' = [t \in Targets |-> CommittedStamp(t)]
    BY <2>3
  <2> QED
    BY <2>1, <2>2, <2>4 DEF Atomic!Begin
<1>3. CASE InvokeRejected
  BY <1>3, InvisibleStep DEF InvokeRejected, txVars
<1>4. CASE InvokeBadLocals
  <2>1. /\ ~txActive /\ txActive' = txActive /\ store' = store /\ tgt' = tgt
    BY <1>0, <1>4 DEF InvokeBadLocals, StackSound, TransactionOwner
  <2>2. [t \in Targets |-> CommittedStamp(t)]' = [t \in Targets |-> CommittedStamp(t)]
    BY <2>1 DEF CommittedStamp
  <2> QED
    BY <2>1, <2>2 DEF Atomic!vars
<1>5. CASE Skip \/ RunActions \/ OpenCall \/ CloseCall
  BY <1>5, InvisibleStep DEF Skip, RunActions, OpenCall, CloseCall, txVars
<1>6. CASE ActionsDone
  <2>1. txActive
    BY <1>0, <1>6 DEF ActionsDone, Running, StackSound, TransactionOwner
  <2> QED
    BY <1>6, <2>1, InvisibleStep DEF ActionsDone, txVars
<1>7. CASE GoalReturns
  <2>1. txActive
    BY <1>0, <1>7 DEF GoalReturns, InLoop, StackSound, TransactionOwner
  <2> QED
    BY <1>7, <2>1, InvisibleStep DEF GoalReturns, txVars
<1>8. CASE GoalFails
  BY <1>8, InvisibleStep DEF GoalFails, txVars
<1>9. CASE GoalCommits
  <2>1. txActive /\ \E g \in Targets : tgt' = Stamped(g)
    BY <1>0, <1>9, TopFrame
       DEF GoalCommits, Commit, InLoop, StackSound, TransactionOwner, Frame
  <2>2. PICK g \in Targets : tgt' = Stamped(g)
    BY <2>1
  <2>3. txActive' = FALSE /\ store' = store
    BY <1>9 DEF GoalCommits, Commit
  <2>4. ASSUME NEW t \in Targets
        PROVE  /\ CommittedStamp(t) = RestorableStamp(t)
               /\ CommittedStamp(t)' = Stamped(g)[t].stamp
               /\ Stamped(g)[t] \in TargetStamp
    BY <1>0, <2>1, <2>2, <2>3, StampedFacts DEF CommittedStamp, RestorableStamp
  <2>5. \A t \in Targets : CommittedStamp(t) <= CommittedStamp(t)'
    BY <1>0, <2>4, StampedFacts
  <2>6. CommittedStamp(g) < CommittedStamp(g)'
    <3>1. CommittedStamp(g) < stamp
      BY <1>0, <2>1 DEF CommittedBehindClock
    <3>2. Stamped(g)[g].stamp = stamp
      BY <1>0, StampedFacts
    <3> QED
      BY <2>4, <3>1, <3>2
  <2>7. \A t \in Targets : CommittedStamp(t)' \in Nat
    BY <2>4 DEF TargetStamp
  <2>8. Atomic!Commit
    <3>1. /\ [t \in Targets |-> CommittedStamp(t)]' \in [Targets -> Nat]
          /\ \A t \in Targets : /\ [u \in Targets |-> CommittedStamp(u)][t]
                                     = CommittedStamp(t)
                                /\ [u \in Targets |-> CommittedStamp(u)]'[t]
                                     = CommittedStamp(t)'
      BY <2>7
    <3>2. (IF txActive THEN saved ELSE store)' \in [Facts -> Values]
      BY <1>0, <2>3 DEF DataTyped
    <3> QED
      BY <2>1, <2>3, <2>5, <2>6, <3>1, <3>2 DEF Atomic!Commit
  <2> QED
    BY <2>8 DEF Atomic!Next
<1>10. CASE GoalRollsBack
  <2>1. txActive
    BY <1>0, <1>10 DEF GoalRollsBack, Exiting, StackSound, TransactionOwner
  <2>2. /\ tgt' = StampsRolledBack /\ txActive' = FALSE /\ store' = saved
        /\ txid' = txid
    BY <1>10 DEF GoalRollsBack, Rollback
  <2>3. ASSUME NEW t \in Targets PROVE CommittedStamp(t)' = CommittedStamp(t)
    <3>1. tgt[t] \in TargetStamp
      BY <1>0 DEF DataTyped
    <3>2. CommittedStamp(t)' = StampsRolledBack[t].stamp
      BY <2>2 DEF CommittedStamp
    <3> QED
      BY <2>1, <3>1, <3>2 DEF CommittedStamp, StampsRolledBack, TargetStamp
  <2>4. [t \in Targets |-> CommittedStamp(t)]' = [t \in Targets |-> CommittedStamp(t)]
    BY <2>3
  <2> QED
    BY <2>1, <2>2, <2>4 DEF Atomic!Abort, Atomic!Next
<1>11. ASSUME NEW s \in {"failure", "error"}, ActionsFail(s)
       PROVE  UNCHANGED Atomic!vars
  BY <1>11, InvisibleStep DEF ActionsFail, txVars
<1>12. ASSUME NEW f \in Facts, NEW v \in Values, Write(f, v)
       PROVE  UNCHANGED Atomic!vars
  <2>1. txActive
    BY <1>0, <1>12 DEF Write, Running, StackSound, TransactionOwner
  <2> QED
    BY <1>12, <2>1, InvisibleStep DEF Write, txVars
<1>13. ASSUME NEW g \in Targets, CallResolve(g) PROVE UNCHANGED Atomic!vars
  <2>1. txActive /\ ~OwnTx
    BY <1>0, <1>13 DEF CallResolve, Running, StackSound, TransactionOwner, OwnTx
  <2>2. /\ txActive' = TRUE /\ txid' = txid /\ saved' = saved /\ tgt' = tgt
    BY <1>13, <2>1 DEF CallResolve, Enter
  <2>3. txActive' = txActive
    BY <1>0, <2>1, <2>2 DEF DataTyped
  <2> QED
    BY <2>1, <2>2, <2>3, InvisibleStep
<1>14. CASE UNCHANGED vars
  BY <1>14, InvisibleStep DEF vars, txVars
<1> QED
  BY <1>1, <1>2, <1>3, <1>4, <1>5, <1>6, <1>7, <1>8, <1>9, <1>10, <1>11,
     <1>12, <1>13, <1>14 DEF Next, Resolving, Walking, Atomic!Next

LEMMA RefinementInit == Init => Atomic!Init
<1> SUFFICES ASSUME Init PROVE Atomic!Init
  OBVIOUS
<1>1. [t \in Targets |-> CommittedStamp(t)] = [t \in Targets |-> 0]
  BY DEF Init, CommittedStamp
<1> QED
  BY <1>1 DEF Init, Atomic!Init

(* Every resolution, with all the goals it resolves recursively, is one    *)
(* atomic step on the facts and the target stamps, or none at all: what    *)
(* the fact store transactions and the target stamps of dres.c and         *)
(* variables.c are for.                                                    *)
THEOREM Refinement == Spec => ImplementsAtomicGoals
  BY RefinementInit, RefinementStep, Inductive, PTL
     DEF Spec, ImplementsAtomicGoals, Atomic!Spec

-------------------------------------------------------------------------------
(* Changes.                                                                *)

(* The stamps that a rollback of the transaction would leave. *)
CommittedOf(p) == IF p \in Facts THEN factStamp[p] ELSE CommittedStamp(p)

SavedPending ==
  txActive => \A t \in Targets : \A p \in staleSaved[t] : CommittedOf(p) > CommittedStamp(t)

StaleArePrereqs ==
  \A t \in Targets : stale[t] \subseteq Prereqs[t] /\ staleSaved[t] \subseteq Prereqs[t]

Pending == NoMissedUpdate /\ SavedPending /\ StaleArePrereqs

-------------------------------------------------------------------------------
(* Stamps are numbers. *)
LEMMA StampTypes ==
  ASSUME DataTyped, NEW t \in Targets
  PROVE  /\ tgt[t].stamp \in Nat /\ tgt[t].txstamp \in Nat /\ tgt[t].txid \in Nat
         /\ CommittedStamp(t) \in Nat /\ stamp \in Nat /\ txid \in Nat
         /\ \A f \in Facts : factStamp[f] \in Nat
<1>1. tgt[t] \in TargetStamp
  BY DEF DataTyped
<1> QED
  BY <1>1 DEF DataTyped, TargetStamp, CommittedStamp

LEMMA PrereqTypes ==
  ASSUME DataTyped, StaleArePrereqs, NEW t \in Targets, NEW p \in stale[t] \cup staleSaved[t]
  PROVE  /\ p \in Prereqs[t] /\ (p \in Facts \/ p \in Targets) /\ ~(p \in Facts /\ p \in Targets)
         /\ StampOf(p) \in Nat /\ CommittedOf(p) \in Nat
<1>1. p \in Prereqs[t] /\ (p \in Facts \/ p \in Targets) /\ ~(p \in Facts /\ p \in Targets)
  BY RulesetAssumption DEF StaleArePrereqs
<1> QED
  BY <1>1, StampTypes DEF StampOf, CommittedOf

(* A fact gets a value: its change is in the view. *)
LEMMA AssignPending ==
  ASSUME DataTyped, Pending, NEW f \in Facts, NEW v, Assign(f, v),
         UNCHANGED <<tgt, factStamp, txActive, txid, staleSaved>>
  PROVE  Pending'
<1>1. /\ view' = view \cup ({f} \cap Tracked) /\ stale' = Changed(stale, f)
      /\ stale \in [Targets -> SUBSET (Targets \cup Facts)]
  BY DEF Assign, DataTyped
<1>2. ASSUME NEW t \in Targets PROVE stale'[t] = IF f \in Prereqs[t] THEN stale[t] \cup {f} ELSE stale[t]
  BY <1>1 DEF Changed
<1>3. ASSUME NEW t \in Targets, NEW p \in stale'[t] PROVE p \in view' \/ StampOf(p)' > tgt'[t].stamp
  <2>1. CASE p \in stale[t]
    <3>1. p \in view \/ StampOf(p) > tgt[t].stamp
      BY <2>1 DEF Pending, NoMissedUpdate
    <3> QED
      BY <1>1, <3>1 DEF StampOf
  <2>2. CASE p \notin stale[t]
    BY <1>1, <1>2, <1>3, <2>2 DEF Tracked
  <2> QED
    BY <2>1, <2>2
<1>4. NoMissedUpdate'
  BY <1>3 DEF NoMissedUpdate
<1>5. SavedPending'
  BY DEF Pending, SavedPending, CommittedOf, CommittedStamp
<1>6. StaleArePrereqs'
  BY <1>2 DEF Pending, StaleArePrereqs
<1> QED
  BY <1>4, <1>5, <1>6 DEF Pending

(* The clock advances: what was in the view is younger than every target. *)
LEMMA AdvancePending ==
  ASSUME DataTyped, StampsBehindClock, Pending, StoreCheck(stamp + 1),
         UNCHANGED <<tgt, stale>>,
         \/ UNCHANGED <<txActive, txid, staleSaved>>
         \/ txid' = txid + 1 /\ staleSaved' = stale
         \/ ~txActive' /\ staleSaved' = staleSaved
  PROVE  Pending'
<1>1. factStamp' = [f \in Facts |-> IF f \in view THEN stamp + 1 ELSE factStamp[f]]
  BY DEF StoreCheck
<1>2. stamp \in Nat /\ factStamp \in [Facts -> Nat] /\ view \subseteq Facts
  BY DEF DataTyped
<1>3. ASSUME NEW f \in Facts
      PROVE  factStamp'[f] \in Nat /\ factStamp'[f] >= factStamp[f] /\ (f \in view => factStamp'[f] > stamp)
  <2>1. factStamp[f] \in Nat /\ factStamp[f] <= stamp
    BY <1>2 DEF StampsBehindClock
  <2> QED
    BY <1>1, <1>2, <2>1
<1>4. ASSUME NEW t \in Targets, NEW p \in stale[t] PROVE StampOf(p)' \in Nat /\ StampOf(p)' > tgt[t].stamp
  <2>1. /\ p \in Facts \/ p \in Targets
        /\ StampOf(p) \in Nat /\ tgt[t].stamp \in Nat /\ tgt[t].stamp <= stamp
        /\ p \in view \/ StampOf(p) > tgt[t].stamp
    BY PrereqTypes, StampTypes DEF Pending, StampsBehindClock, NoMissedUpdate
  <2>2. CASE p \in Facts
    BY <1>2, <1>3, <2>1, <2>2 DEF StampOf
  <2>3. CASE p \notin Facts
    BY <1>2, <2>1, <2>3 DEF StampOf
  <2> QED
    BY <2>2, <2>3
<1>5. NoMissedUpdate'
  BY <1>4 DEF NoMissedUpdate
<1>6. SavedPending'
  <2>1. CASE UNCHANGED <<txActive, txid, staleSaved>>
    <3>1. ASSUME txActive, NEW t \in Targets, NEW p \in staleSaved[t]
          PROVE  CommittedOf(p)' > CommittedStamp(t)'
      <4>1. CommittedStamp(t)' = CommittedStamp(t) /\ CommittedStamp(t) \in Nat
        BY <2>1, StampTypes DEF CommittedStamp
      <4>2. CommittedOf(p) \in Nat /\ CommittedOf(p) > CommittedStamp(t)
        BY <3>1, PrereqTypes DEF Pending, SavedPending
      <4>3. CASE p \in Facts
        BY <1>2, <1>3, <4>1, <4>2, <4>3 DEF CommittedOf
      <4>4. CASE p \notin Facts
        BY <2>1, <4>1, <4>2, <4>4 DEF CommittedOf, CommittedStamp
      <4> QED
        BY <4>3, <4>4
    <3> QED
      BY <2>1, <3>1 DEF SavedPending
  <2>2. CASE txid' = txid + 1 /\ staleSaved' = stale
    <3>1. ASSUME NEW t \in Targets PROVE CommittedStamp(t)' = tgt[t].stamp
      <4>1. tgt[t].txid \in Nat /\ txid \in Nat /\ tgt[t].txid <= txid
        BY StampTypes DEF StampsBehindClock
      <4> QED
        BY <2>2, <4>1 DEF CommittedStamp
    <3>2. ASSUME NEW t \in Targets, NEW p \in stale[t] PROVE CommittedOf(p)' = StampOf(p)'
      <4>1. p \in Facts \/ p \in Targets
        BY PrereqTypes DEF Pending
      <4> QED
        BY <3>1, <4>1 DEF CommittedOf, StampOf
    <3> QED
      BY <1>4, <2>2, <3>1, <3>2 DEF SavedPending
  <2>3. CASE ~txActive'
    BY <2>3 DEF SavedPending
  <2> QED
    BY <2>1, <2>2, <2>3
<1>7. StaleArePrereqs'
  BY DEF Pending, StaleArePrereqs
<1> QED
  BY <1>5, <1>6, <1>7 DEF Pending

(* A target is stamped: it has seen what is not in the view, and what      *)
(* depends on it is older.                                                 *)
LEMMA StampedPending ==
  ASSUME DataTyped, StampsBehindClock, Pending, txActive,
         NEW c \in Targets, tgt' = Stamped(c), UNCHANGED <<view, factStamp, txid>>,
         \/ txActive' = TRUE /\ staleSaved' = staleSaved
         \/ txActive' = FALSE /\ staleSaved' = NothingStale,
         stale[c] \subseteq view,
         \/ stale' = stale
         \/ /\ stale' = Changed(stale, c)
            /\ \A t \in Targets : c \in Prereqs[t] => t # c /\ tgt[t].stamp # stamp
  PROVE  Pending'
<1>1. ASSUME NEW u \in Targets
      PROVE  tgt'[u].stamp = (IF u = c THEN stamp ELSE tgt[u].stamp)
  BY DEF Stamped, DataTyped
<1>2. ASSUME NEW u \in Targets, txActive' PROVE CommittedStamp(u)' = CommittedStamp(u)
  <2>1. PICK s : s = Stamped(c)[u]
    OBVIOUS
  <2>2. RestorableStamp(u) = IF s.txid = txid THEN s.txstamp ELSE s.stamp
    BY <2>1, StampedFacts
  <2>3. s.stamp = tgt'[u].stamp /\ s.txid = tgt'[u].txid /\ s.txstamp = tgt'[u].txstamp
    BY <2>1
  <2> QED
    BY <1>2, <2>2, <2>3 DEF CommittedStamp, RestorableStamp
<1>3. ASSUME NEW t \in Targets
      PROVE  stale'[t] = stale[t] \/ (stale'[t] = stale[t] \cup {c} /\ c \in Prereqs[t] /\ stale' # stale)
  <2>1. stale' = Changed(stale, c) =>
          stale'[t] = IF c \in Prereqs[t] THEN stale[t] \cup {c} ELSE stale[t]
    BY DEF Changed
  <2> QED
    BY <2>1
<1>4. ASSUME NEW t \in Targets, NEW p \in stale'[t]
      PROVE  p \in view \/ StampOf(p)' > tgt'[t].stamp
  <2>1. /\ stamp \in Nat /\ \A u \in Targets : tgt[u].stamp \in Nat /\ tgt[u].stamp <= stamp
    BY StampTypes DEF StampsBehindClock
  <2>2. CASE p \in stale[t] /\ t = c
    BY <2>2
  <2>3. CASE p \in stale[t] /\ t # c
    <3>1. /\ p \in Facts \/ p \in Targets
          /\ StampOf(p) \in Nat /\ (p \in view \/ StampOf(p) > tgt[t].stamp)
      BY <2>3, PrereqTypes DEF Pending, NoMissedUpdate
    <3>2. tgt'[t].stamp = tgt[t].stamp /\ tgt[t].stamp \in Nat
      BY <1>1, <2>1, <2>3
    <3>3. CASE p \in Facts
      <4>1. StampOf(p) = factStamp[p] /\ StampOf(p)' = factStamp'[p]
        BY <3>3 DEF StampOf
      <4> QED
        BY <3>1, <3>2, <4>1
    <3>4. CASE p \notin Facts
      <4>1. p \in Targets /\ StampOf(p) = tgt[p].stamp /\ StampOf(p)' = tgt'[p].stamp
        BY <3>1, <3>4 DEF StampOf
      <4>2. p \in view \/ tgt[p].stamp > tgt[t].stamp
        BY <3>1, <4>1
      <4>3. tgt'[p].stamp \in Nat /\ tgt'[p].stamp >= tgt[p].stamp /\ tgt[p].stamp \in Nat
        BY <1>1, <2>1, <4>1
      <4>4. p \in view \/ tgt'[p].stamp > tgt'[t].stamp
        BY <3>2, <4>2, <4>3
      <4> QED
        BY <4>1, <4>4
    <3> QED
      BY <3>3, <3>4
  <2>4. CASE p \notin stale[t]
    <3>1. p = c /\ t # c /\ tgt[t].stamp # stamp
      BY <1>3, <1>4, <2>4
    <3>2. c \notin Facts
      BY RulesetAssumption
    <3>3. StampOf(p)' = stamp /\ tgt'[t].stamp = tgt[t].stamp
      BY <1>1, <3>1, <3>2 DEF StampOf
    <3> QED
      BY <2>1, <3>1, <3>3
  <2> QED
    BY <2>2, <2>3, <2>4
<1>5. NoMissedUpdate'
  BY <1>4 DEF NoMissedUpdate
<1>6. SavedPending'
  <2>1. ASSUME txActive', NEW t \in Targets, NEW p \in staleSaved'[t]
        PROVE  CommittedOf(p)' > CommittedStamp(t)'
    <3>1. staleSaved' = staleSaved
      BY <2>1
    <3>2. p \in Facts \/ p \in Targets
      BY <2>1, <3>1, PrereqTypes DEF Pending
    <3>3. CommittedOf(p)' = CommittedOf(p)
      BY <1>2, <2>1, <3>2 DEF CommittedOf
    <3> QED
      BY <1>2, <2>1, <3>1, <3>3 DEF Pending, SavedPending
  <2> QED
    BY <2>1 DEF SavedPending
<1>7. StaleArePrereqs'
  <2>1. \A t \in Targets : staleSaved'[t] \subseteq Prereqs[t]
    BY DEF Pending, StaleArePrereqs, NothingStale
  <2>2. \A t \in Targets : stale'[t] \subseteq Prereqs[t]
    BY <1>3 DEF Pending, StaleArePrereqs
  <2> QED
    BY <2>1, <2>2 DEF StaleArePrereqs
<1> QED
  BY <1>5, <1>6, <1>7 DEF Pending

(* A rollback leaves pending what was when the transaction began. *)
LEMMA RollbackPending ==
  ASSUME DataTyped, Pending, txActive, Rollback, UNCHANGED <<factStamp, txid>>
  PROVE  Pending'
<1>1. tgt' = StampsRolledBack /\ txActive' = FALSE /\ stale' = staleSaved
      /\ staleSaved' = NothingStale
  BY DEF Rollback
<1>2. ASSUME NEW t \in Targets PROVE tgt'[t].stamp = CommittedStamp(t)
  <2>1. tgt[t] \in TargetStamp
    BY DEF DataTyped
  <2> QED
    BY <1>1, <2>1 DEF StampsRolledBack, CommittedStamp, TargetStamp
<1>3. ASSUME NEW t \in Targets, NEW p \in staleSaved[t] PROVE StampOf(p)' > tgt'[t].stamp
  <2>1. (p \in Facts \/ p \in Targets) /\ CommittedOf(p) > CommittedStamp(t)
    BY PrereqTypes DEF Pending, SavedPending
  <2>2. StampOf(p)' = CommittedOf(p)
    BY <1>2, <2>1 DEF StampOf, CommittedOf
  <2> QED
    BY <1>2, <2>1, <2>2
<1>4. NoMissedUpdate'
  BY <1>1, <1>3 DEF NoMissedUpdate
<1>5. SavedPending'
  BY <1>1 DEF SavedPending
<1>6. StaleArePrereqs'
  BY <1>1 DEF Pending, StaleArePrereqs, NothingStale
<1> QED
  BY <1>4, <1>5, <1>6 DEF Pending

(* What the actions of t read from now on is current. *)
LEMMA BegunPending ==
  ASSUME DataTyped, Pending, NEW c \in Targets, stale' = [stale EXCEPT ![c] = {}],
         UNCHANGED <<view, tgt, factStamp, txActive, txid, staleSaved>>
  PROVE  Pending'
<1>1. \A t \in Targets : stale'[t] = IF t = c THEN {} ELSE stale[t]
  BY DEF DataTyped
<1>2. NoMissedUpdate'
  <2>1. ASSUME NEW t \in Targets, NEW p \in stale'[t] PROVE p \in view \/ StampOf(p) > tgt[t].stamp
    BY <1>1, <2>1 DEF Pending, NoMissedUpdate
  <2> QED
    BY <2>1 DEF NoMissedUpdate, StampOf
<1>3. SavedPending'
  BY DEF Pending, SavedPending, CommittedOf, CommittedStamp
<1>4. StaleArePrereqs'
  BY <1>1 DEF Pending, StaleArePrereqs
<1> QED
  BY <1>2, <1>3, <1>4 DEF Pending

LEMMA UnchangedPending ==
  ASSUME Pending, UNCHANGED <<stale, view, tgt, factStamp, txActive, txid, staleSaved>>
  PROVE  Pending'
BY DEF Pending, NoMissedUpdate, SavedPending, StaleArePrereqs, StampOf, CommittedOf,
       CommittedStamp

-------------------------------------------------------------------------------
(* The call stack of an undisturbed ruleset.                               *)

(* The steps of a goal are targets, one after the other, after those they  *)
(* depend on.                                                              *)
LEMMA StepTargets ==
  ASSUME NEW g \in Targets
  PROVE  /\ Len(Steps(g)) \in Nat \ {0} /\ Steps(g)[Len(Steps(g))] = g
         /\ \A i \in 1..Len(Steps(g)) : Steps(g)[i] \in Targets
         /\ \A i, j \in 1..Len(Steps(g)) : Steps(g)[i] = Steps(g)[j] => i = j
         /\ \A i, j \in 1..Len(Steps(g)) : Steps(g)[j] \in Prereqs[Steps(g)[i]] => j < i
         /\ g \in Walked(g)
<1>1. Steps(g) \in Seq(Targets)
  <2>1. <<g>> \in Seq(Targets) /\ Order[g] \in Seq(Targets)
    BY RulesetAssumption
  <2> QED
    BY <2>1 DEF Steps
<1>2. /\ Len(Steps(g)) \in Nat /\ Len(Steps(g)) > 0 /\ Steps(g)[Len(Steps(g))] = g
      /\ \A i, j \in 1..Len(Steps(g)) : Steps(g)[i] = Steps(g)[j] => i = j
      /\ \A i \in 1..Len(Steps(g)) :
           Prereqs[Steps(g)[i]] \cap Targets \subseteq {Steps(g)[j] : j \in 1..(i-1)}
  BY <1>1, OrderAssumption, LenProperties
<1>3. \A i \in 1..Len(Steps(g)) : Steps(g)[i] \in Targets
  BY <1>1, ElementOfSeq
<1>4. ASSUME NEW i \in 1..Len(Steps(g)), NEW j \in 1..Len(Steps(g)),
             Steps(g)[j] \in Prereqs[Steps(g)[i]]
      PROVE  j < i
  <2>1. PICK k \in 1..(i-1) : Steps(g)[j] = Steps(g)[k]
    BY <1>2, <1>3, <1>4
  <2>2. k \in 1..Len(Steps(g))
    BY <1>2
  <2> QED
    BY <1>2, <2>1, <2>2
<1>5. g \in Walked(g)
  BY <1>2 DEF Walked
<1> QED
  BY <1>2, <1>3, <1>4, <1>5

(* The targets walked within the actions of t, and those within theirs.    *)
LEMMA InsideFacts ==
  ASSUME NEW t \in Targets
  PROVE  /\ \A g \in Resolves[t] : Walked(g) \subseteq Inside(t)
         /\ \A u \in Inside(t) : u \in Targets /\ Inside(u) \subseteq Inside(t)
<1>1. ASSUME NEW g \in Resolves[t], NEW u \in Walked(g) PROVE u \in Inside(t)
  <2>1. g \in Targets /\ u \in Targets
    BY StepTargets, RulesetAssumption DEF Walked
  <2>2. ASSUME NEW S \in SUBSET Targets,
               \A v \in S \cup {t} : \A h \in Resolves[v] : Walked(h) \subseteq S
        PROVE  u \in S
    BY <1>1, <2>2
  <2> QED
    BY <2>1, <2>2 DEF Inside
<1>2. ASSUME NEW u \in Inside(t), NEW w \in Inside(u) PROVE w \in Inside(t)
  <2>1. u \in Targets /\ w \in Targets
    BY DEF Inside
  <2>2. ASSUME NEW S \in SUBSET Targets,
               \A v \in S \cup {t} : \A h \in Resolves[v] : Walked(h) \subseteq S
        PROVE  w \in S
    <3>1. u \in S
      BY <2>2 DEF Inside
    <3>2. \A v \in S \cup {u} : \A h \in Resolves[v] : Walked(h) \subseteq S
      BY <2>2, <3>1
    <3> QED
      BY <3>2 DEF Inside
  <2> QED
    BY <2>1, <2>2 DEF Inside
<1> QED
  BY <1>1, <1>2 DEF Inside

At(fr) == Steps(fr.goal)[fr.pos]

(* What the actions of c have not read is in the view; if they resolve     *)
(* goals, there is no such thing.                                          *)
Seen(c) == stale[c] \subseteq view /\ (Resolves[c] # {} => stale[c] = {})

(* A call that waits for the goal its actions resolve. *)
Suspended(fr) ==
  /\ fr.mode = "call" /\ fr.pos <= Len(Steps(fr.goal)) /\ Resolves[At(fr)] # {}

CallersSound ==
  \A k \in 1..(Len(frames) - 1) :
    /\ Suspended(frames[k]) /\ stale[At(frames[k])] = {}
    /\ \A m \in (k+1)..Len(frames) : Walked(frames[m].goal) \subseteq Inside(At(frames[k]))

(* u has been walked by the call fr, or within one that it has made. *)
DoneBy(fr, u) ==
  \E i \in 1..Len(Steps(fr.goal)) :
    \/ i < fr.pos /\ u = Steps(fr.goal)[i]
    \/ i <= fr.pos /\ u \in Inside(Steps(fr.goal)[i])

StampedNow(fr) == \A u \in Targets : tgt[u].stamp = stamp => DoneBy(fr, u)

(* The innermost call: where it is, what its actions have yet to see, what *)
(* has been stamped since the clock last moved, and that its goal, once it *)
(* has been passed, has seen everything.                                   *)
WalkSound(fr) ==
  /\ fr.mode \in {"run", "call"} => fr.pos <= Len(Steps(fr.goal)) /\ Seen(At(fr))
  /\ fr.mode \in {"run", "loop"} => StampedNow(fr)
  /\ fr.mode = "loop" /\ fr.pos > Len(Steps(fr.goal)) => stale[fr.goal] \subseteq view

Positions ==
  \A k \in 1..Len(frames) :
    frames[k].pos \in Nat \ {0} /\ frames[k].pos <= Len(Steps(frames[k].goal)) + 1

WalksSound ==
  /\ Positions /\ CallersSound
  /\ frames # <<>> => Top.mode # "call" /\ WalkSound(Top)

(* The target that the innermost call is at. *)
LEMMA CurrentFacts ==
  ASSUME StackSound, Positions, frames # <<>>
  PROVE  /\ Len(frames) \in Nat \ {0} /\ Top \in Frame /\ Top.goal \in Targets
         /\ Top.pos \in Nat \ {0} /\ Top.pos <= Len(Steps(Top.goal)) + 1
         /\ Top.pos <= Len(Steps(Top.goal)) =>
              Top.pos \in 1..Len(Steps(Top.goal)) /\ At(Top) \in Targets /\ At(Top) \in Walked(Top.goal)
<1>1. Len(frames) \in Nat \ {0} /\ Top \in Frame
  BY TopFrame DEF StackSound
<1>2. Top.goal \in Targets
  BY <1>1 DEF Frame
<1>3. Len(frames) \in 1..Len(frames)
  BY <1>1
<1>4. Top.pos \in Nat \ {0} /\ Top.pos <= Len(Steps(Top.goal)) + 1
  BY <1>3 DEF Positions, Top
<1>5. ASSUME Top.pos <= Len(Steps(Top.goal))
      PROVE  Top.pos \in 1..Len(Steps(Top.goal)) /\ At(Top) \in Targets /\ At(Top) \in Walked(Top.goal)
  <2>1. Len(Steps(Top.goal)) \in Nat
    BY <1>2, StepTargets
  <2>2. Top.pos \in 1..Len(Steps(Top.goal))
    BY <1>4, <1>5, <2>1
  <2> QED
    BY <1>2, <2>2, StepTargets DEF At, Walked
<1> QED
  BY <1>1, <1>2, <1>4, <1>5

(* The frame below the innermost, and those below it, are calls that wait. *)
LEMMA CallerFacts ==
  ASSUME StackSound, WalksSound, NEW k \in 1..(Len(frames) - 1)
  PROVE  /\ k \in 1..Len(frames) /\ frames[k] \in Frame /\ frames[k].goal \in Targets
         /\ frames[k].pos \in 1..Len(Steps(frames[k].goal))
         /\ At(frames[k]) \in Targets /\ Resolves[At(frames[k])] # {} /\ stale[At(frames[k])] = {}
         /\ \A m \in (k+1)..Len(frames) : Walked(frames[m].goal) \subseteq Inside(At(frames[k]))
<1>1. Len(frames) \in Nat /\ frames \in Seq(Frame)
  BY LenProperties DEF StackSound
<1>2. k \in 1..Len(frames)
  BY <1>1
<1>3. frames[k] \in Frame
  BY <1>1, <1>2, ElementOfSeq
<1>4. frames[k].goal \in Targets
  BY <1>3 DEF Frame
<1>5. frames[k].pos \in Nat \ {0} /\ frames[k].pos <= Len(Steps(frames[k].goal))
  BY <1>2 DEF WalksSound, Positions, CallersSound, Suspended
<1>6. frames[k].pos \in 1..Len(Steps(frames[k].goal))
  BY <1>4, <1>5, StepTargets
<1>7. At(frames[k]) \in Targets
  BY <1>4, <1>6, StepTargets DEF At
<1> QED
  BY <1>2, <1>3, <1>4, <1>6, <1>7 DEF WalksSound, CallersSound, Suspended

(* Nothing that happens within the actions of a waiting call makes its     *)
(* target stale.                                                           *)
KeepsCallers ==
  \A c \in Targets : Resolves[c] # {} /\ stale[c] = {} /\ Walked(Top.goal) \subseteq Inside(c)
                       => stale'[c] = {}

(* The innermost call moves on. *)
LEMMA WalkMoved ==
  ASSUME StackSound, WalksSound, frames # <<>>, NEW fr \in Frame,
         fr.goal = Top.goal, fr.pos \in Nat \ {0}, fr.pos <= Len(Steps(fr.goal)) + 1,
         fr.mode # "call",
         (frames' = frames /\ fr = Top) \/ frames' = Replace(fr),
         WalkSound(fr)', KeepsCallers
  PROVE  WalksSound'
<1>1. Len(frames) \in Nat \ {0}
  BY TopFrame DEF StackSound
<1>2. /\ Len(frames') = Len(frames) /\ frames' # <<>>
      /\ \A i \in 1..Len(frames) : frames'[i] = IF i = Len(frames) THEN fr ELSE frames[i]
  BY ReplaceTop DEF StackSound, Replace, Top
<1>3. Len(frames) \in 1..Len(frames) /\ Top' = fr
  BY <1>1, <1>2 DEF Top
<1>4. Positions'
  BY <1>2 DEF WalksSound, Positions
<1>5. CallersSound'
  <2>1. ASSUME NEW k \in 1..(Len(frames) - 1)
        PROVE  /\ frames'[k] = frames[k]
               /\ Suspended(frames[k]) /\ stale'[At(frames[k])] = {}
               /\ \A m \in (k+1)..Len(frames) : Walked(frames'[m].goal) \subseteq Inside(At(frames[k]))
    <3>1. frames'[k] = frames[k]
      BY <1>1, <1>2
    <3>2. /\ Suspended(frames[k]) /\ At(frames[k]) \in Targets
          /\ Resolves[At(frames[k])] # {} /\ stale[At(frames[k])] = {}
          /\ \A m \in (k+1)..Len(frames) : Walked(frames[m].goal) \subseteq Inside(At(frames[k]))
      BY CallerFacts DEF WalksSound, CallersSound
    <3>3. Len(frames) \in (k+1)..Len(frames)
      BY <1>1
    <3>4. stale'[At(frames[k])] = {}
      BY <3>2, <3>3 DEF KeepsCallers, Top
    <3>5. \A m \in (k+1)..Len(frames) : frames'[m].goal = frames[m].goal
      BY <1>1, <1>2 DEF Top
    <3> QED
      BY <3>1, <3>2, <3>4, <3>5
  <2>2. ASSUME NEW k \in 1..(Len(frames') - 1)
        PROVE  /\ Suspended(frames'[k]) /\ stale'[At(frames'[k])] = {}
               /\ \A m \in (k+1)..Len(frames') : Walked(frames'[m].goal) \subseteq Inside(At(frames'[k]))
    BY <1>2, <2>1
  <2> QED
    BY <2>2 DEF CallersSound, At, Suspended
<1> QED
  BY <1>2, <1>3, <1>4, <1>5 DEF WalksSound

(* Nothing is stale that was not, and no call is active. *)
LEMMA WalksEnded == frames' = <<>> => WalksSound'
<1> SUFFICES ASSUME frames' = <<>> PROVE WalksSound'
  OBVIOUS
<1>1. Len(frames') = 0
  BY EmptySeq
<1> QED
  BY <1>1 DEF WalksSound, Positions, CallersSound

(* A goal begins to be resolved, with a new value of the clock: no target  *)
(* has been stamped with it.                                               *)
LEMMA NothingStampedYet ==
  ASSUME DataTyped, StampsBehindClock, NEW fr, fr.pos = 1, fr.mode = "loop", fr.goal \in Targets,
         stamp' = stamp + 1, tgt' = tgt
  PROVE  WalkSound(fr)'
<1>1. \A u \in Targets : tgt'[u].stamp # stamp'
  BY StampTypes DEF StampsBehindClock
<1>2. ~(1 > Len(Steps(fr.goal)))
  BY StepTargets
<1> QED
  BY <1>1, <1>2 DEF WalkSound, StampedNow

LEMMA WalkBegun ==
  ASSUME DataTyped, StampsBehindClock, NEW fr \in Frame, fr.pos = 1, fr.mode = "loop",
         frames' = Append(<<>>, fr), stamp' = stamp + 1, tgt' = tgt
  PROVE  WalksSound'
<1>1. Len(frames') = 1 /\ frames'[1] = fr
  BY EmptySeq, AppendProperties
<1>2. Top' = fr /\ fr.goal \in Targets
  BY <1>1 DEF Top, Frame
<1>3. WalkSound(fr)'
  BY <1>2, NothingStampedYet
<1>4. Positions'
  <2>1. 1 <= Len(Steps(fr.goal)) + 1
    BY <1>2, StepTargets
  <2> QED
    BY <1>1, <2>1 DEF Positions
<1>5. CallersSound'
  BY <1>1 DEF CallersSound
<1> QED
  BY <1>2, <1>3, <1>4, <1>5 DEF WalksSound

(* The actions of the current target resolve g. *)
LEMMA WalkPushed ==
  ASSUME Undisturbed, DataTyped, StampsBehindClock, StackSound, WalksSound, Running,
         NEW g \in Resolves[Current], NEW caller \in Frame,
         caller.goal = Top.goal, caller.pos = Top.pos, caller.mode = "call",
         NEW fr \in Frame, fr.goal = g, fr.pos = 1, fr.mode = "loop",
         frames' = Append(Replace(caller), fr), stamp' = stamp + 1, tgt' = tgt, stale' = stale
  PROVE  WalksSound'
<1> DEFINE n == Len(frames)
<1>1. /\ frames # <<>> /\ n \in Nat \ {0} /\ Current = At(Top)
      /\ Top.pos \in 1..Len(Steps(Top.goal)) /\ Current \in Targets /\ Current \in Walked(Top.goal)
      /\ stale[Current] = {} /\ Top.pos <= Len(Steps(Top.goal))
  BY CurrentFacts DEF Running, WalksSound, WalkSound, Seen, Current, At
<1>2. /\ Replace(caller) \in Seq(Frame) /\ Len(Replace(caller)) = n
      /\ \A i \in 1..n : Replace(caller)[i] = IF i = n THEN caller ELSE frames[i]
  BY <1>1, ReplaceTop DEF StackSound, Replace
<1>3. /\ Len(frames') = n + 1 /\ frames'[n + 1] = fr
      /\ \A i \in 1..n : frames'[i] = IF i = n THEN caller ELSE frames[i]
  BY <1>1, <1>2, AppendProperties
<1> HIDE DEF n
<1>4. Top' = fr
  BY <1>1, <1>3 DEF Top
<1>5. g \in Targets /\ WalkSound(fr)'
  BY <1>1, RulesetAssumption, NothingStampedYet
<1>6. Positions'
  <2>1. 1 <= Len(Steps(g)) + 1 /\ Len(Steps(Top.goal)) \in Nat
    BY <1>1, <1>5, StepTargets, CurrentFacts DEF WalksSound
  <2>2. ASSUME NEW k \in 1..(n + 1)
        PROVE  frames'[k].pos \in Nat \ {0} /\ frames'[k].pos <= Len(Steps(frames'[k].goal)) + 1
    <3>1. CASE k = n + 1
      BY <1>3, <2>1, <3>1
    <3>2. CASE k = n
      BY <1>1, <1>3, <2>1, <3>2
    <3>3. CASE k # n + 1 /\ k # n
      <4>1. k \in 1..n
        BY <1>1, <3>3
      <4> QED
        BY <1>3, <3>3, <4>1 DEF WalksSound, Positions, n
    <3> QED
      BY <3>1, <3>2, <3>3
  <2> QED
    BY <1>3, <2>2 DEF Positions
<1>7. ASSUME NEW k \in 1..n
      PROVE  /\ Suspended(frames'[k]) /\ stale'[At(frames'[k])] = {}
             /\ \A m \in (k+1)..(n+1) : Walked(frames'[m].goal) \subseteq Inside(At(frames'[k]))
  <2>1. Walked(g) \subseteq Inside(Current)
    BY <1>1, InsideFacts
  <2>2. CASE k = n
    <3>1. frames'[k] = caller /\ At(caller) = Current
      BY <1>3, <2>2 DEF At, Current
    <3>2. \A m \in (k+1)..(n+1) : frames'[m] = fr
      BY <1>1, <1>3, <2>2
    <3>3. Suspended(caller)
      BY <1>1, <3>1 DEF Suspended
    <3> QED
      BY <1>1, <2>1, <3>1, <3>2, <3>3
  <2>3. CASE k # n
    <3>1. k \in 1..(Len(frames) - 1)
      BY <1>1, <2>3 DEF n
    <3>2. /\ frames'[k] = frames[k] /\ Suspended(frames[k]) /\ stale[At(frames[k])] = {}
          /\ At(frames[k]) \in Targets
          /\ \A m \in (k+1)..n : Walked(frames[m].goal) \subseteq Inside(At(frames[k]))
      BY <1>3, <2>3, <3>1, CallerFacts DEF WalksSound, CallersSound, n
    <3>3. Current \in Inside(At(frames[k]))
      <4>1. n \in (k+1)..n /\ frames[n] = Top
        BY <1>1, <2>3 DEF Top, n
      <4> QED
        BY <1>1, <3>2, <4>1
    <3>4. Walked(g) \subseteq Inside(At(frames[k]))
      BY <2>1, <3>2, <3>3, InsideFacts
    <3>5. ASSUME NEW m \in (k+1)..(n+1) PROVE Walked(frames'[m].goal) \subseteq Inside(At(frames[k]))
      <4>1. CASE m = n + 1
        BY <1>3, <3>4, <4>1
      <4>2. CASE m # n + 1
        <5>1. m \in (k+1)..n /\ m \in 1..n
          BY <1>1, <4>2
        <5>2. frames'[m].goal = frames[m].goal
          BY <1>3, <5>1 DEF Top, n
        <5> QED
          BY <3>2, <5>1, <5>2
      <4> QED
        BY <4>1, <4>2
    <3> QED
      BY <3>2, <3>5
  <2> QED
    BY <2>2, <2>3
<1>8. CallersSound'
  <2>1. Len(frames') - 1 = n /\ Len(frames') = n + 1
    BY <1>1, <1>3
  <2>2. ASSUME NEW k \in 1..(Len(frames') - 1)
        PROVE  /\ Suspended(frames'[k]) /\ stale'[At(frames'[k])] = {}
               /\ \A m \in (k+1)..Len(frames') : Walked(frames'[m].goal) \subseteq Inside(At(frames'[k]))
    BY <1>7, <2>1
  <2> QED
    BY <2>2 DEF CallersSound, At, Suspended
<1> QED
  BY <1>4, <1>5, <1>6, <1>8 DEF WalksSound

(* The innermost call returns, after all that it has stamped. *)
LEMMA WalkReturned ==
  ASSUME DataTyped, StampsBehindClock, StackSound, WalksSound, frames # <<>>, ~Top.own,
         NEW s \in Status, Return(s), stale' = stale, UNCHANGED stamp,
         s = "success" => Top.mode = "loop" /\ tgt' = Stamped(Top.goal)
  PROVE  WalksSound'
<1> DEFINE n == Len(frames) - 1
           caller == frames[n]
<1>1. /\ Len(frames) \in Nat \ {0} /\ Popped \in Seq(Frame) /\ Len(Popped) = n
      /\ \A i \in 1..n : Popped[i] = frames[i]
  BY PopTop DEF StackSound
<1>2. n \in Nat \ {0} /\ n \in 1..n /\ Len(frames) = n + 1
  <2>1. Len(frames) # 1
    BY <1>1 DEF StackSound, TransactionOwner, Top
  <2> QED
    BY <1>1, <2>1
<1>3. /\ caller \in Frame /\ caller.goal \in Targets /\ caller.pos \in 1..Len(Steps(caller.goal))
      /\ At(caller) \in Targets /\ Resolves[At(caller)] # {} /\ stale[At(caller)] = {}
      /\ Walked(Top.goal) \subseteq Inside(At(caller))
  <2>1. n \in 1..(Len(frames) - 1) /\ Len(frames) \in (n+1)..Len(frames)
    BY <1>1, <1>2
  <2> QED
    BY <2>1, CallerFacts DEF Top
<1> HIDE DEF caller
<1>4. PICK fr \in Frame :
        /\ fr = Resumed(caller, s) /\ fr.goal = caller.goal /\ fr.pos = caller.pos
        /\ fr.mode = IF s = "success" THEN "run" ELSE "exit"
  <2>1. PICK fr : fr = Resumed(caller, s)
    OBVIOUS
  <2>2. /\ fr \in Frame /\ fr.goal = caller.goal /\ fr.pos = caller.pos
        /\ fr.mode = IF s = "success" THEN "run" ELSE "exit"
    BY <1>3, <2>1 DEF Resumed, Frame
  <2> QED
    BY <2>1, <2>2
<1> HIDE DEF n
<1>5. frames' = [Popped EXCEPT ![n] = fr] /\ Popped # <<>>
  BY <1>1, <1>2, <1>4, EmptySeq DEF Return, n, caller
<1>6. /\ frames' # <<>> /\ Len(frames') = n
      /\ \A i \in 1..n : frames'[i] = IF i = n THEN fr ELSE frames[i]
  BY <1>1, <1>4, <1>5, ReplaceTop
<1>7. Top' = fr
  BY <1>2, <1>6 DEF Top
<1>8. \A i \in 1..n : frames'[i].goal = frames[i].goal /\ frames'[i].pos = frames[i].pos
  BY <1>4, <1>6 DEF caller
<1>9. Positions'
  BY <1>2, <1>6, <1>8 DEF WalksSound, Positions
<1>10. CallersSound'
  <2>1. ASSUME NEW k \in 1..(n - 1)
        PROVE  /\ frames'[k] = frames[k] /\ Suspended(frames[k]) /\ stale[At(frames[k])] = {}
               /\ \A m \in (k+1)..n : Walked(frames'[m].goal) \subseteq Inside(At(frames[k]))
    <3>1. k \in 1..(Len(frames) - 1) /\ k \in 1..n /\ k # n
      BY <1>2
    <3>2. \A m \in (k+1)..n : m \in (k+1)..Len(frames) /\ m \in 1..n
      BY <1>2
    <3> QED
      BY <1>6, <1>8, <3>1, <3>2 DEF WalksSound, CallersSound
  <2>2. ASSUME NEW k \in 1..(Len(frames') - 1)
        PROVE  /\ Suspended(frames'[k]) /\ stale'[At(frames'[k])] = {}
               /\ \A m \in (k+1)..Len(frames') : Walked(frames'[m].goal) \subseteq Inside(At(frames'[k]))
    BY <1>6, <2>1
  <2> QED
    BY <2>2 DEF CallersSound, At, Suspended
<1>11. WalkSound(fr)'
  <2>1. CASE s # "success"
    BY <1>4, <2>1 DEF WalkSound
  <2>2. CASE s = "success"
    <3>1. At(fr) = At(caller) /\ fr.mode = "run"
      BY <1>4, <2>2 DEF At
    <3>2. fr.pos <= Len(Steps(fr.goal)) /\ Seen(At(fr))'
      BY <1>3, <1>4, <3>1, StepTargets DEF Seen
    <3>3. ASSUME NEW u \in Targets, tgt'[u].stamp = stamp PROVE DoneBy(fr, u)
      <4>1. u = Top.goal \/ DoneBy(Top, u)
        <5>1. u # Top.goal => tgt'[u].stamp = tgt[u].stamp
          BY <2>2 DEF Stamped, DataTyped
        <5> QED
          BY <2>2, <3>3, <5>1 DEF WalksSound, WalkSound, StampedNow
      <4>2. Top.goal \in Targets
        BY CurrentFacts DEF WalksSound
      <4>3. u \in Inside(At(caller))
        <5>1. CASE u = Top.goal
          BY <1>3, <4>2, <5>1, StepTargets
        <5>2. CASE DoneBy(Top, u)
          <6>1. PICK i \in 1..Len(Steps(Top.goal)) :
                  u = Steps(Top.goal)[i] \/ u \in Inside(Steps(Top.goal)[i])
            BY <5>2 DEF DoneBy
          <6>2. Steps(Top.goal)[i] \in Inside(At(caller))
            BY <1>3 DEF Walked
          <6> QED
            BY <1>3, <6>1, <6>2, InsideFacts
        <5> QED
          BY <4>1, <5>1, <5>2
      <4>4. fr.pos \in 1..Len(Steps(fr.goal)) /\ fr.pos <= fr.pos
        BY <1>3, <1>4
      <4> QED
        BY <3>1, <4>3, <4>4 DEF DoneBy, At
    <3>4. StampedNow(fr)'
      BY <3>3 DEF StampedNow
    <3> QED
      BY <3>1, <3>2, <3>4 DEF WalkSound
  <2> QED
    BY <2>1, <2>2
<1>12. fr.mode # "call"
  BY <1>4
<1> QED
  BY <1>6, <1>7, <1>9, <1>10, <1>11, <1>12 DEF WalksSound

-------------------------------------------------------------------------------
(* The steps of an undisturbed ruleset.                                    *)

(* What is skipped has seen everything. *)
LEMMA SkippedHasSeen ==
  ASSUME DataTyped, Pending, NEW t \in Targets, UpToDate(t)
  PROVE  stale[t] \subseteq view
<1>1. ASSUME NEW p \in stale[t] PROVE p \in view
  <2>1. p \in Prereqs[t] /\ StampOf(p) \in Nat /\ tgt[t].stamp \in Nat
    BY PrereqTypes, StampTypes DEF Pending
  <2>2. StampOf(p) <= tgt[t].stamp
    BY <2>1 DEF UpToDate
  <2>3. p \in view \/ StampOf(p) > tgt[t].stamp
    BY DEF Pending, NoMissedUpdate
  <2> QED
    BY <2>1, <2>2, <2>3
<1> QED
  BY <1>1

(* A walk that goes on to the next target has done what it had done. *)
LEMMA DoneStays ==
  ASSUME NEW fr, NEW next, next.goal = fr.goal, fr.pos \in Nat, next.pos \in {fr.pos, fr.pos + 1},
         NEW u, DoneBy(fr, u), fr.goal \in Targets
  PROVE  DoneBy(next, u)
<1>1. PICK i \in 1..Len(Steps(fr.goal)) :
        \/ i < fr.pos /\ u = Steps(fr.goal)[i]
        \/ i <= fr.pos /\ u \in Inside(Steps(fr.goal)[i])
  BY DEF DoneBy
<1>2. i \in Nat /\ (i < fr.pos => i < next.pos) /\ (i <= fr.pos => i <= next.pos)
  BY StepTargets
<1> QED
  BY <1>1, <1>2 DEF DoneBy

(* The current target is stamped after all that depends on nothing of it:  *)
(* what depends on it has not been stamped since the clock last moved.     *)
LEMMA DependentsWait ==
  ASSUME Undisturbed, StackSound, WalksSound, frames # <<>>, Top.mode = "run",
         NEW t \in Targets, At(Top) \in Prereqs[t]
  PROVE  t # At(Top) /\ tgt[t].stamp # stamp
<1>1. /\ Top.goal \in Targets /\ Top.pos \in 1..Len(Steps(Top.goal))
  BY CurrentFacts DEF WalksSound, WalkSound
<1>2. t # At(Top)
  BY <1>1, StepTargets DEF At
<1>3. ASSUME tgt[t].stamp = stamp PROVE FALSE
  <2>1. PICK i \in 1..Len(Steps(Top.goal)) :
          \/ i < Top.pos /\ t = Steps(Top.goal)[i]
          \/ i <= Top.pos /\ t \in Inside(Steps(Top.goal)[i])
    BY <1>3 DEF WalksSound, WalkSound, StampedNow, DoneBy
  <2>2. CASE i < Top.pos /\ t = Steps(Top.goal)[i]
    <3>1. Top.pos < i
      BY <1>1, <2>2, StepTargets DEF At
    <3> QED
      BY <1>1, <2>2, <3>1
  <2>3. CASE i <= Top.pos /\ t \in Inside(Steps(Top.goal)[i])
    BY <1>1, <2>3 DEF Undisturbed, At
  <2> QED
    BY <2>1, <2>2, <2>3
<1> QED
  BY <1>2, <1>3

LEMMA SkipKeeps ==
  ASSUME IInv, Pending, WalksSound, Skip
  PROVE  Pending' /\ WalksSound'
<1>0. DataTyped /\ StackSound
  BY IInvSplit
<1>1. /\ frames # <<>> /\ Top \in Frame /\ Top.mode = "loop" /\ Top.pos \in Nat \ {0}
      /\ Top.goal \in Targets /\ Top.pos <= Len(Steps(Top.goal))
      /\ At(Top) \in Targets /\ UpToDate(At(Top))
  BY <1>0, CurrentFacts DEF Skip, More, InLoop, WalksSound, Current, At
<1>2. UNCHANGED <<stale, view, tgt, factStamp, stamp, txActive, txid, staleSaved>>
  BY DEF Skip, txVars, history
<1>3. Pending'
  BY <1>2, UnchangedPending
<1>4. PICK fr : fr = [Top EXCEPT !.pos = @ + 1]
  OBVIOUS
<1>5. /\ fr \in Frame /\ fr.goal = Top.goal /\ fr.pos = Top.pos + 1 /\ fr.mode = "loop"
  BY <1>1, <1>4 DEF Frame
<1>6. frames' = Replace(fr)
  BY <1>4 DEF Skip
<1>7. fr.pos \in Nat \ {0} /\ fr.pos <= Len(Steps(fr.goal)) + 1
  BY <1>1, <1>5, StepTargets
<1>8. StampedNow(fr)'
  <2>1. \A u \in Targets : tgt[u].stamp = stamp => DoneBy(Top, u)
    BY <1>1 DEF WalksSound, WalkSound, StampedNow
  <2>2. \A u \in Targets : tgt[u].stamp = stamp => DoneBy(fr, u)
    BY <1>1, <1>5, <2>1, DoneStays
  <2> QED
    BY <1>2, <2>2 DEF StampedNow
<1>9. fr.pos > Len(Steps(fr.goal)) => stale'[fr.goal] \subseteq view'
  <2> SUFFICES ASSUME fr.pos > Len(Steps(fr.goal)) PROVE stale[fr.goal] \subseteq view
    BY <1>2
  <2>1. At(Top) = fr.goal
    <3>1. Len(Steps(Top.goal)) \in Nat /\ Top.pos + 1 > Len(Steps(Top.goal))
      BY <1>1, <1>5, StepTargets
    <3>2. Top.pos = Len(Steps(Top.goal))
      BY <1>1, <3>1
    <3> QED
      BY <1>1, <1>5, <3>2, StepTargets DEF At
  <2> QED
    BY <1>0, <1>1, <2>1, SkippedHasSeen
<1>10. WalkSound(fr)'
  BY <1>5, <1>8, <1>9 DEF WalkSound
<1>11. KeepsCallers
  BY <1>2 DEF KeepsCallers
<1> QED
  BY <1>0, <1>1, <1>3, <1>5, <1>6, <1>7, <1>10, <1>11, WalkMoved

LEMMA RunKeeps ==
  ASSUME IInv, Pending, WalksSound, RunActions
  PROVE  Pending' /\ WalksSound'
<1>0. DataTyped /\ StackSound
  BY IInvSplit
<1>1. /\ frames # <<>> /\ Top \in Frame /\ Top.mode = "loop" /\ Top.pos \in Nat \ {0}
      /\ Top.goal \in Targets /\ Top.pos <= Len(Steps(Top.goal))
      /\ At(Top) \in Targets /\ At(Top) = Current
  BY <1>0, CurrentFacts DEF RunActions, More, InLoop, WalksSound, Current, At
<1>2. /\ UNCHANGED <<view, tgt, factStamp, stamp, txActive, txid, staleSaved>>
      /\ stale' = [stale EXCEPT ![At(Top)] = {}]
  BY <1>1 DEF RunActions, txVars
<1>3. Pending'
  BY <1>0, <1>1, <1>2, BegunPending
<1>4. PICK fr : fr = [Top EXCEPT !.mode = "run"]
  OBVIOUS
<1>5. /\ fr \in Frame /\ fr.goal = Top.goal /\ fr.pos = Top.pos /\ fr.mode = "run"
  BY <1>1, <1>4 DEF Frame
<1>6. frames' = Replace(fr) /\ At(fr) = At(Top)
  BY <1>4, <1>5 DEF RunActions, At
<1>7. fr.pos <= Len(Steps(fr.goal)) + 1
  BY <1>1, <1>5, CurrentFacts, <1>0 DEF WalksSound
<1>8. StampedNow(fr)'
  <2>1. \A u \in Targets : tgt[u].stamp = stamp => DoneBy(Top, u)
    BY <1>1 DEF WalksSound, WalkSound, StampedNow
  <2>2. \A u \in Targets : tgt[u].stamp = stamp => DoneBy(fr, u)
    BY <1>1, <1>5, <2>1, DoneStays
  <2> QED
    BY <1>2, <2>2 DEF StampedNow
<1>9. stale'[At(fr)] = {} /\ \A c \in Targets : stale[c] = {} => stale'[c] = {}
  BY <1>0, <1>1, <1>2, <1>6 DEF DataTyped
<1>10. WalkSound(fr)'
  BY <1>1, <1>5, <1>8, <1>9 DEF WalkSound, Seen
<1>11. KeepsCallers
  BY <1>9 DEF KeepsCallers
<1> QED
  BY <1>0, <1>1, <1>3, <1>5, <1>6, <1>7, <1>10, <1>11, WalkMoved

LEMMA DoneKeeps ==
  ASSUME Undisturbed, IInv, Pending, WalksSound, ActionsDone
  PROVE  Pending' /\ WalksSound'
<1>0. DataTyped /\ StackSound /\ StampsBehindClock /\ TransactionOwner
  BY IInvSplit DEF ClockSound, StackSound
<1>1. /\ frames # <<>> /\ Top \in Frame /\ Top.mode = "run" /\ Top.pos \in Nat \ {0}
      /\ Top.goal \in Targets /\ Top.pos <= Len(Steps(Top.goal))
      /\ At(Top) \in Targets /\ At(Top) \in Walked(Top.goal) /\ At(Top) = Current
      /\ Seen(At(Top)) /\ Top.pos \in 1..Len(Steps(Top.goal))
  BY <1>0, CurrentFacts DEF ActionsDone, Running, WalksSound, WalkSound, Current, At
<1>2. /\ UNCHANGED <<view, factStamp, stamp, txActive, txid, staleSaved>>
      /\ tgt' = Stamped(At(Top)) /\ stale' = Changed(stale, At(Top))
  BY <1>1 DEF ActionsDone, txVars
<1>3. \A t \in Targets : At(Top) \in Prereqs[t] => t # At(Top) /\ tgt[t].stamp # stamp
  BY <1>0, <1>1, DependentsWait
<1>4. Pending'
  <2>1. txActive /\ txActive' = TRUE
    BY <1>0, <1>1, <1>2 DEF TransactionOwner, DataTyped
  <2> QED
    BY <1>0, <1>1, <1>2, <1>3, <2>1, StampedPending DEF Seen
<1>5. PICK fr : fr = [Top EXCEPT !.mode = "loop", !.pos = @ + 1]
  OBVIOUS
<1>6. /\ fr \in Frame /\ fr.goal = Top.goal /\ fr.pos = Top.pos + 1 /\ fr.mode = "loop"
  <2>1. PICK m : m = [Top EXCEPT !.mode = "loop"]
    OBVIOUS
  <2>2. m \in Frame /\ m.goal = Top.goal /\ m.pos = Top.pos /\ m.mode = "loop"
    BY <1>1, <2>1 DEF Frame
  <2>3. fr = [m EXCEPT !.pos = @ + 1]
    BY <1>1, <1>5, <2>1 DEF Frame
  <2> QED
    BY <2>2, <2>3 DEF Frame
<1>7. frames' = Replace(fr)
  BY <1>5 DEF ActionsDone
<1>8. fr.pos \in Nat \ {0} /\ fr.pos <= Len(Steps(fr.goal)) + 1
  BY <1>1, <1>6, StepTargets
<1>9. StampedNow(fr)'
  <2>1. \A u \in Targets : tgt[u].stamp = stamp => DoneBy(Top, u)
    BY <1>1 DEF WalksSound, WalkSound, StampedNow
  <2>2. ASSUME NEW u \in Targets, tgt'[u].stamp = stamp PROVE DoneBy(fr, u)
    <3>1. CASE u = At(Top)
      <4>1. Top.pos < fr.pos
        BY <1>1, <1>6
      <4> QED
        BY <1>1, <1>6, <3>1, <4>1 DEF DoneBy, At
    <3>2. CASE u # At(Top)
      <4>1. tgt'[u] = tgt[u]
        BY <1>0, <1>2, <3>2 DEF Stamped, DataTyped
      <4> QED
        BY <1>1, <1>6, <2>1, <2>2, <4>1, DoneStays
    <3> QED
      BY <3>1, <3>2
  <2> QED
    BY <1>2, <2>2 DEF StampedNow
<1>10. \A t \in Targets : At(Top) \notin Prereqs[t] => stale'[t] = stale[t]
  BY <1>2 DEF Changed
<1>11. fr.pos > Len(Steps(fr.goal)) => stale'[fr.goal] \subseteq view'
  <2> SUFFICES ASSUME fr.pos > Len(Steps(fr.goal)) PROVE stale'[fr.goal] \subseteq view
    BY <1>2
  <2>1. At(Top) = fr.goal
    <3>1. Len(Steps(Top.goal)) \in Nat /\ Top.pos + 1 > Len(Steps(Top.goal))
      BY <1>1, <1>6, StepTargets
    <3>2. Top.pos = Len(Steps(Top.goal))
      BY <1>1, <3>1
    <3> QED
      BY <1>1, <1>6, <3>2, StepTargets DEF At
  <2>2. At(Top) \notin Prereqs[At(Top)]
    BY <1>1, <1>3
  <2> QED
    BY <1>1, <1>10, <2>1, <2>2 DEF Seen
<1>12. WalkSound(fr)'
  BY <1>6, <1>9, <1>11 DEF WalkSound
<1>13. KeepsCallers
  <2>1. ASSUME NEW c \in Targets, Resolves[c] # {}, stale[c] = {}, Walked(Top.goal) \subseteq Inside(c)
        PROVE  stale'[c] = {}
    <3>1. At(Top) \notin Prereqs[c]
      BY <1>1, <2>1 DEF Undisturbed
    <3> QED
      BY <1>10, <2>1, <3>1
  <2> QED
    BY <2>1 DEF KeepsCallers
<1> QED
  BY <1>0, <1>1, <1>4, <1>6, <1>7, <1>8, <1>12, <1>13, WalkMoved

LEMMA WriteKeeps ==
  ASSUME Undisturbed, IInv, Pending, WalksSound, NEW f \in Facts, NEW v \in Values, Write(f, v)
  PROVE  Pending' /\ WalksSound'
<1>0. DataTyped /\ StackSound
  BY IInvSplit
<1>1. /\ frames # <<>> /\ Top \in Frame /\ Top.mode = "run" /\ Top.pos \in Nat \ {0}
      /\ Top.goal \in Targets /\ Top.pos <= Len(Steps(Top.goal))
      /\ At(Top) \in Targets /\ At(Top) \in Walked(Top.goal) /\ f \in Writes[At(Top)]
      /\ Seen(At(Top)) /\ Top.pos <= Len(Steps(Top.goal)) + 1
  BY <1>0, CurrentFacts DEF Write, Running, WalksSound, WalkSound, Current, At
<1>2. /\ UNCHANGED <<tgt, factStamp, stamp, txActive, txid, staleSaved, frames>>
      /\ Assign(f, v)
  BY DEF Write, txVars
<1>3. Pending'
  BY <1>0, <1>2, AssignPending
<1>4. \A t \in Targets :
        /\ f \notin Prereqs[t] => stale'[t] = stale[t]
        /\ f \in Prereqs[t] => stale'[t] = stale[t] \cup {f} /\ f \in view'
  BY <1>2 DEF Assign, Changed, Tracked
<1>5. view \subseteq view'
  BY <1>2 DEF Assign
<1>6. PICK fr : fr = Top
  OBVIOUS
<1>7. Seen(At(fr))'
  <2>1. stale'[At(Top)] \subseteq view'
    BY <1>1, <1>4, <1>5 DEF Seen
  <2>2. ASSUME Resolves[At(Top)] # {} PROVE stale'[At(Top)] = {}
    <3>1. f \notin Prereqs[At(Top)]
      BY <1>1, <2>2 DEF Undisturbed
    <3> QED
      BY <1>1, <1>4, <2>2, <3>1 DEF Seen
  <2> QED
    BY <1>6, <2>1, <2>2 DEF Seen
<1>8. StampedNow(fr)'
  BY <1>1, <1>2, <1>6 DEF WalksSound, WalkSound, StampedNow
<1>9. WalkSound(fr)'
  BY <1>1, <1>6, <1>7, <1>8 DEF WalkSound
<1>10. KeepsCallers
  <2>1. ASSUME NEW c \in Targets, Resolves[c] # {}, stale[c] = {}, Walked(Top.goal) \subseteq Inside(c)
        PROVE  stale'[c] = {}
    <3>1. f \notin Prereqs[c]
      BY <1>1, <2>1 DEF Undisturbed
    <3> QED
      BY <1>4, <2>1, <3>1
  <2> QED
    BY <2>1 DEF KeepsCallers
<1> QED
  BY <1>0, <1>1, <1>2, <1>3, <1>6, <1>9, <1>10, WalkMoved

LEMMA ScopesKeep ==
  ASSUME IInv, Pending, WalksSound, OpenCall \/ CloseCall
  PROVE  Pending' /\ WalksSound'
<1>1. /\ frames # <<>> /\ Top.mode = "run" /\ frames' = frames
      /\ UNCHANGED <<stale, view, tgt, factStamp, stamp, txActive, txid, staleSaved>>
  BY DEF OpenCall, CloseCall, Running, txVars, history
<1>2. Pending'
  BY <1>1, UnchangedPending
<1>3. WalksSound'
  BY <1>1 DEF WalksSound, WalkSound, Positions, CallersSound, Suspended, Seen, StampedNow,
              DoneBy, At, Top
<1> QED
  BY <1>2, <1>3

LEMMA FailKeeps ==
  ASSUME IInv, Pending, WalksSound, NEW s \in {"failure", "error"}, ActionsFail(s)
  PROVE  Pending' /\ WalksSound'
<1>0. StackSound
  BY IInvSplit
<1>1. /\ frames # <<>> /\ Top \in Frame /\ Top.pos \in Nat \ {0}
      /\ Top.pos <= Len(Steps(Top.goal)) + 1 /\ s \in Status
  BY <1>0, CurrentFacts DEF ActionsFail, Running, WalksSound, Status
<1>2. UNCHANGED <<stale, view, tgt, factStamp, stamp, txActive, txid, staleSaved>>
  BY DEF ActionsFail, txVars
<1>3. Pending'
  BY <1>2, UnchangedPending
<1>4. PICK fr : fr = [Top EXCEPT !.mode = "exit", !.status = s]
  OBVIOUS
<1>5. /\ fr \in Frame /\ fr.goal = Top.goal /\ fr.pos = Top.pos /\ fr.mode = "exit"
  BY <1>1, <1>4 DEF Frame
<1>6. frames' = Replace(fr)
  BY <1>4 DEF ActionsFail
<1>7. WalkSound(fr)'
  BY <1>5 DEF WalkSound
<1>8. KeepsCallers
  BY <1>2 DEF KeepsCallers
<1> QED
  BY <1>0, <1>1, <1>3, <1>5, <1>6, <1>7, <1>8, WalkMoved

LEMMA CallKeeps ==
  ASSUME Undisturbed, IInv, Pending, WalksSound, NEW g \in Targets, CallResolve(g)
  PROVE  Pending' /\ WalksSound'
<1>0. DataTyped /\ StackSound /\ StampsBehindClock /\ TransactionOwner
  BY IInvSplit DEF ClockSound, StackSound
<1>1. /\ frames # <<>> /\ Top \in Frame /\ txActive /\ ~OwnTx /\ g \in Resolves[Current] /\ Running
      /\ scope \in Nat
  BY <1>0, TopFrame DEF CallResolve, Running, StackSound, TransactionOwner, OwnTx
<1>2. /\ stamp' = stamp + 1 /\ StoreCheck(stamp + 1) /\ txActive' = TRUE
      /\ UNCHANGED <<tgt, stale, txid, staleSaved>>
  BY <1>1 DEF CallResolve, Enter
<1>3. Pending'
  <2>1. txActive' = txActive
    BY <1>0, <1>1, <1>2 DEF DataTyped
  <2> QED
    BY <1>0, <1>2, <2>1, AdvancePending
<1>4. PICK caller : caller = [Top EXCEPT !.mode = "call"]
  OBVIOUS
<1>5. PICK fr : fr = [goal |-> g, pos |-> 1, mode |-> "loop", own |-> FALSE,
                      locals |-> FALSE, base |-> scope, status |-> "success"]
  OBVIOUS
<1>6. /\ caller \in Frame /\ caller.goal = Top.goal /\ caller.pos = Top.pos /\ caller.mode = "call"
  BY <1>1, <1>4 DEF Frame
<1>7. fr \in Frame /\ fr.goal = g /\ fr.pos = 1 /\ fr.mode = "loop"
  BY <1>1, <1>5 DEF Frame, Status
<1>8. frames' = Append(Replace(caller), fr)
  BY <1>0, <1>1, <1>4, <1>5 DEF CallResolve, Enter, OwnTx, DataTyped
<1>9. WalksSound'
  BY <1>0, <1>1, <1>2, <1>6, <1>7, <1>8, WalkPushed
<1> QED
  BY <1>3, <1>9

LEMMA InvokeKeeps ==
  ASSUME IInv, Pending, WalksSound, NEW g \in Goals, NEW locals \in BOOLEAN, Invoke(g, locals)
  PROVE  Pending' /\ WalksSound'
<1>0. DataTyped /\ StackSound /\ StampsBehindClock /\ TransactionOwner
  BY IInvSplit DEF ClockSound, StackSound
<1>1. OwnTx /\ g \in Targets /\ scope \in Nat
  BY <1>0, RulesetAssumption DEF Invoke, StackSound, TransactionOwner, OwnTx
<1>2. /\ stamp' = stamp + 1 /\ StoreCheck(stamp + 1) /\ txid' = txid + 1 /\ staleSaved' = stale
      /\ UNCHANGED <<tgt, stale>>
  BY <1>1 DEF Invoke, Enter
<1>3. Pending'
  BY <1>0, <1>2, AdvancePending
<1>4. PICK base : base = IF locals THEN scope + 1 ELSE scope
  OBVIOUS
<1>5. PICK fr : fr = [goal |-> g, pos |-> 1, mode |-> "loop", own |-> TRUE,
                      locals |-> locals, base |-> base, status |-> "success"]
  OBVIOUS
<1>6. fr \in Frame /\ fr.pos = 1 /\ fr.mode = "loop"
  <2>1. base \in Nat
    BY <1>1, <1>4
  <2> QED
    BY <1>1, <1>5, <2>1 DEF Frame, Status
<1>7. frames' = Append(<<>>, fr)
  BY <1>1, <1>4, <1>5 DEF Invoke, Enter
<1>8. WalksSound'
  BY <1>0, <1>2, <1>6, <1>7, WalkBegun
<1> QED
  BY <1>3, <1>8

LEMMA CommitKeeps ==
  ASSUME IInv, Pending, WalksSound, GoalCommits
  PROVE  Pending' /\ WalksSound'
<1>0. DataTyped /\ StackSound /\ StampsBehindClock /\ TransactionOwner
  BY IInvSplit DEF ClockSound, StackSound
<1>1. /\ frames # <<>> /\ Top.own /\ Top.mode = "loop" /\ Top.goal \in Targets
      /\ Top.pos > Len(Steps(Top.goal))
  <2>1. frames # <<>> /\ Top.own /\ Top.mode = "loop" /\ ~(Top.pos <= Len(Steps(Top.goal)))
    BY DEF GoalCommits, InLoop, More
  <2>2. Top.goal \in Targets /\ Top.pos \in Nat /\ Len(Steps(Top.goal)) \in Nat
    BY <1>0, <2>1, CurrentFacts, StepTargets DEF WalksSound
  <2> QED
    BY <2>1, <2>2
<1>2. /\ tgt' = Stamped(Top.goal) /\ txActive' = FALSE /\ staleSaved' = NothingStale
      /\ UNCHANGED <<stale, view, factStamp, txid>>
  BY DEF GoalCommits, Commit
<1>3. stale[Top.goal] \subseteq view
  BY <1>1 DEF WalksSound, WalkSound
<1>4. txActive
  BY <1>0, <1>1 DEF TransactionOwner
<1>5. Pending'
  BY <1>0, <1>1, <1>2, <1>3, <1>4, StampedPending
<1>6. frames' = <<>>
  BY <1>0, <1>1, NothingLeft DEF GoalCommits, ReturnOutermost
<1> QED
  BY <1>5, <1>6, WalksEnded

LEMMA ReturnKeeps ==
  ASSUME IInv, Pending, WalksSound, GoalReturns
  PROVE  Pending' /\ WalksSound'
<1>0. DataTyped /\ StackSound /\ StampsBehindClock /\ TransactionOwner
  BY IInvSplit DEF ClockSound, StackSound
<1>1. /\ frames # <<>> /\ ~Top.own /\ Top.mode = "loop" /\ Top.goal \in Targets
      /\ Top.pos > Len(Steps(Top.goal))
  <2>1. frames # <<>> /\ ~Top.own /\ Top.mode = "loop" /\ ~(Top.pos <= Len(Steps(Top.goal)))
    BY DEF GoalReturns, InLoop, More
  <2>2. Top.goal \in Targets /\ Top.pos \in Nat /\ Len(Steps(Top.goal)) \in Nat
    BY <1>0, <2>1, CurrentFacts, StepTargets DEF WalksSound
  <2> QED
    BY <2>1, <2>2
<1>2. /\ tgt' = Stamped(Top.goal) /\ Return("success")
      /\ UNCHANGED <<stale, view, factStamp, stamp, txActive, txid, staleSaved>>
  BY DEF GoalReturns, txVars, history
<1>3. stale[Top.goal] \subseteq view
  BY <1>1 DEF WalksSound, WalkSound
<1>4. txActive /\ txActive' = TRUE
  BY <1>0, <1>1, <1>2 DEF TransactionOwner, DataTyped
<1>5. Pending'
  BY <1>0, <1>1, <1>2, <1>3, <1>4, StampedPending
<1>6. WalksSound'
  BY <1>0, <1>1, <1>2, WalkReturned DEF Status
<1> QED
  BY <1>5, <1>6

LEMMA EndKeeps ==
  ASSUME IInv, FailureSound, Pending, WalksSound, GoalRollsBack \/ GoalFails
  PROVE  Pending' /\ WalksSound'
<1>0. DataTyped /\ StackSound /\ StampsBehindClock /\ TransactionOwner
  BY IInvSplit DEF ClockSound, StackSound
<1>1. frames # <<>> /\ Top \in Frame /\ Top.mode = "exit" /\ txActive
  BY <1>0, TopFrame DEF GoalRollsBack, GoalFails, Exiting, StackSound, TransactionOwner
<1>2. CASE GoalRollsBack
  <2>1. Rollback /\ UNCHANGED <<factStamp, txid>> /\ Top.own /\ frames' = Popped
    BY <1>2 DEF GoalRollsBack, ReturnOutermost
  <2>2. frames' = <<>>
    BY <1>0, <1>1, <2>1, NothingLeft
  <2> QED
    BY <1>0, <1>1, <2>1, <2>2, RollbackPending, WalksEnded
<1>3. CASE GoalFails
  <2>1. /\ ~Top.own /\ Return(Top.status)
        /\ UNCHANGED <<stale, view, tgt, factStamp, stamp, txActive, txid, staleSaved>>
    BY <1>3 DEF GoalFails, txVars, history
  <2>2. Pending'
    BY <2>1, UnchangedPending
  <2>3. Top.status \in Status /\ Top.status # "success"
    BY <1>1 DEF Frame, FailureSound
  <2> QED
    BY <1>0, <1>1, <2>1, <2>2, <2>3, WalkReturned
<1> QED
  BY <1>2, <1>3

LEMMA UpdatesStep ==
  Undisturbed /\ IInv /\ FailureSound /\ Pending /\ WalksSound /\ [Next]_vars
    => Pending' /\ WalksSound'
<1> SUFFICES ASSUME Undisturbed, IInv, FailureSound, Pending, WalksSound, [Next]_vars
             PROVE  Pending' /\ WalksSound'
  OBVIOUS
<1>0. DataTyped /\ StackSound /\ StampsBehindClock /\ TransactionOwner
  BY IInvSplit DEF ClockSound, StackSound
<1>1. ASSUME frames = <<>>, frames' = frames PROVE WalksSound'
  BY <1>1, WalksEnded
<1>2. ASSUME NEW f \in Facts, NEW v \in Values, ExternalChange(f, v)
      PROVE  Pending' /\ WalksSound'
  <2>1. frames = <<>> /\ frames' = frames /\ Assign(f, v)
        /\ UNCHANGED <<tgt, factStamp, txActive, txid, staleSaved>>
    BY <1>2 DEF ExternalChange, txVars
  <2> QED
    BY <1>0, <1>1, <2>1, AssignPending
<1>3. CASE InvokeRejected
  <2>1. frames = <<>> /\ frames' = frames
        /\ UNCHANGED <<stale, view, tgt, factStamp, txActive, txid, staleSaved>>
    BY <1>3 DEF InvokeRejected, txVars, history
  <2> QED
    BY <1>1, <2>1, UnchangedPending
<1>4. CASE InvokeBadLocals
  <2>1. /\ frames = <<>> /\ frames' = frames /\ stamp' = stamp + 1 /\ StoreCheck(stamp + 1)
        /\ UNCHANGED <<tgt, stale, staleSaved, txActive>>
    BY <1>4 DEF InvokeBadLocals, history
  <2>2. ~txActive'
    BY <1>0, <2>1, EmptySeq DEF TransactionOwner
  <2> QED
    BY <1>0, <1>1, <2>1, <2>2, AdvancePending
<1>5. CASE UNCHANGED vars
  <2>1. UNCHANGED <<frames, stamp, stale, view, tgt, factStamp, txActive, txid, staleSaved>>
    BY <1>5 DEF vars, txVars, history
  <2>2. WalksSound'
    BY <2>1 DEF WalksSound, WalkSound, Positions, CallersSound, Suspended, Seen, StampedNow,
                DoneBy, At, Top
  <2> QED
    BY <2>1, <2>2, UnchangedPending
<1> QED
  BY <1>2, <1>3, <1>4, <1>5, SkipKeeps, RunKeeps, DoneKeeps, WriteKeeps, ScopesKeep, FailKeeps,
     CallKeeps, InvokeKeeps, CommitKeeps, ReturnKeeps, EndKeeps DEF Next, Resolving, Walking

THEOREM UpdatesInductive ==
  Undisturbed => (Spec => [](IInv /\ FailureSound /\ Pending /\ WalksSound))
<1> SUFFICES ASSUME Undisturbed PROVE Spec => [](IInv /\ FailureSound /\ Pending /\ WalksSound)
  OBVIOUS
<1>1. Init => Pending /\ WalksSound
  <2> SUFFICES ASSUME Init PROVE Pending /\ WalksSound
    OBVIOUS
  <2>1. \A t \in Targets : stale[t] = {} /\ staleSaved[t] = {}
    BY DEF Init, NothingStale
  <2>2. Pending
    BY <2>1 DEF Pending, NoMissedUpdate, SavedPending, StaleArePrereqs
  <2>3. frames = <<>> /\ Len(frames) = 0
    BY EmptySeq DEF Init
  <2>4. WalksSound
    BY <2>3 DEF WalksSound, Positions, CallersSound
  <2> QED
    BY <2>2, <2>4
<1>2. IInv /\ FailureSound /\ Pending /\ WalksSound /\ [Next]_vars => Pending' /\ WalksSound'
  BY UpdatesStep
<1> QED
  BY <1>1, <1>2, FailureInductive, InitIInv, PTL DEF Spec

(* Whatever is resolved within the actions of a target and however it      *)
(* ends, no change is forgotten: it is in the view, or younger than every  *)
(* target that depends on it and has not seen it, unless actions disturb   *)
(* what they depend on (dres.c:515-565, target.c:147-195, variables.c).    *)
THEOREM NoUpdateMissed == Undisturbed => (Spec => []NoMissedUpdate)
<1> SUFFICES ASSUME Undisturbed PROVE Spec => []NoMissedUpdate
  OBVIOUS
<1>1. Pending => NoMissedUpdate
  BY DEF Pending
<1> QED
  BY <1>1, UpdatesInductive, PTL

-------------------------------------------------------------------------------
(* What the outermost call has passed has seen everything.                 *)

Outer == frames[1]

AllSeen(g, t) == stale[t] \subseteq view /\ (Recurses(g) => stale[t] = {})

OuterSeen ==
  frames # <<>> =>
    /\ Outer.goal \in Goals
    /\ Recurses(Outer.goal) => \A t \in Walked(Outer.goal) : view \cap Prereqs[t] = {}
    /\ Outer.mode # "exit" =>
         \A i \in 1..Len(Steps(Outer.goal)) :
           i < Outer.pos => AllSeen(Outer.goal, Steps(Outer.goal)[i])

(* The outermost call is the innermost, or it waits for what is walked     *)
(* within the actions it is at.                                            *)
LEMMA OuterFacts ==
  ASSUME StackSound, WalksSound, frames # <<>>
  PROVE  /\ Len(frames) \in Nat \ {0} /\ Outer \in Frame /\ Outer.goal \in Targets
         /\ Outer.pos \in Nat \ {0} /\ Len(Steps(Outer.goal)) \in Nat \ {0}
         /\ Len(frames) = 1 => Outer = Top
         /\ Len(frames) # 1 =>
              /\ Outer.mode = "call" /\ Outer.pos \in 1..Len(Steps(Outer.goal))
              /\ Recurses(Outer.goal) /\ Walked(Top.goal) \subseteq Inside(At(Outer))
<1>1. Len(frames) \in Nat \ {0} /\ frames \in Seq(Frame)
  BY TopFrame DEF StackSound
<1>2. 1 \in 1..Len(frames)
  BY <1>1
<1>3. PICK fr \in Frame : fr = frames[1]
  BY <1>1, <1>2, ElementOfSeq
<1>4. fr.goal \in Targets /\ fr.pos \in Nat \ {0}
  BY <1>2, <1>3 DEF Frame, WalksSound, Positions
<1>5. Len(Steps(fr.goal)) \in Nat \ {0}
  BY <1>4, StepTargets
<1>6. ASSUME Len(frames) # 1
      PROVE  /\ fr.mode = "call" /\ fr.pos \in 1..Len(Steps(fr.goal))
             /\ Recurses(fr.goal) /\ Walked(Top.goal) \subseteq Inside(At(fr))
  <2>1. 1 \in 1..(Len(frames) - 1) /\ Len(frames) \in (1+1)..Len(frames)
    <3>1. PICK n \in Nat \ {0} : n = Len(frames) /\ n # 1
      BY <1>1, <1>6
    <3>2. 1 \in 1..(n - 1) /\ n \in (1+1)..n
      BY <3>1
    <3> QED
      BY <3>1, <3>2
  <2>2. /\ fr.pos \in 1..Len(Steps(fr.goal)) /\ Resolves[At(fr)] # {}
        /\ Walked(Top.goal) \subseteq Inside(At(fr))
    BY <1>3, <2>1, CallerFacts DEF Top
  <2>3. fr.mode = "call"
    BY <1>3, <2>1 DEF WalksSound, CallersSound, Suspended
  <2> QED
    BY <2>2, <2>3 DEF Recurses, At
<1> QED
  BY <1>1, <1>3, <1>4, <1>5, <1>6 DEF Outer, Top

(* What the innermost call is at is walked within what the outermost is at. *)
LEMMA CurrentWithin ==
  ASSUME StackSound, WalksSound, frames # <<>>, Top.pos <= Len(Steps(Top.goal))
  PROVE  /\ Outer.pos \in 1..Len(Steps(Outer.goal)) /\ At(Top) \in Within(At(Outer))
         /\ At(Top) \in Targets /\ (Len(frames) # 1 => At(Top) \in Inside(At(Outer)))
<1>1. At(Top) \in Targets /\ At(Top) \in Walked(Top.goal) /\ Top.pos \in 1..Len(Steps(Top.goal))
  BY CurrentFacts DEF WalksSound
<1> QED
  BY <1>1, OuterFacts DEF Within

(* The outermost call stays where it is or fails. *)
LEMMA OuterStays ==
  ASSUME OuterSeen, frames # <<>>, NEW g, g = Outer.goal, NEW fr, fr.goal = g,
         fr.pos = Outer.pos, Outer.mode # "exit" \/ fr.mode = "exit", frames'[1] = fr,
         Recurses(g) => \A t \in Walked(g) : view' \cap Prereqs[t] = {},
         \A i \in 1..Len(Steps(g)) :
           i < Outer.pos /\ AllSeen(g, Steps(g)[i]) => AllSeen(g, Steps(g)[i])'
  PROVE  OuterSeen'
<1>1. g \in Goals
  BY DEF OuterSeen
<1>2. ASSUME fr.mode # "exit", NEW i \in 1..Len(Steps(g)), i < fr.pos
      PROVE  AllSeen(g, Steps(g)[i])'
  <2>1. AllSeen(g, Steps(g)[i])
    BY <1>2 DEF OuterSeen
  <2> QED
    BY <1>2, <2>1
<1>3. Outer' = fr
  BY DEF Outer
<1> QED
  BY <1>1, <1>2, <1>3 DEF OuterSeen, AllSeen

(* stale and view stay as they are, and so does the outermost call, unless *)
(* it fails.                                                               *)
LEMMA SameSeen ==
  ASSUME OuterSeen, frames # <<>>, UNCHANGED <<stale, view>>, NEW fr, fr.goal = Outer.goal,
         fr.pos = Outer.pos, Outer.mode # "exit" \/ fr.mode = "exit", frames'[1] = fr
  PROVE  OuterSeen'
<1>1. PICK g : g = Outer.goal
  OBVIOUS
<1>2. Recurses(g) => \A t \in Walked(g) : view' \cap Prereqs[t] = {}
  BY <1>1 DEF OuterSeen
<1>3. \A i \in 1..Len(Steps(g)) : AllSeen(g, Steps(g)[i]) => AllSeen(g, Steps(g)[i])'
  BY DEF AllSeen
<1> QED
  BY <1>1, <1>2, <1>3, OuterStays

(* The innermost call is replaced, which may be the outermost. *)
LEMMA OuterReplaced ==
  ASSUME StackSound, frames # <<>>, NEW fr \in Frame, frames' = Replace(fr)
  PROVE  frames'[1] = IF Len(frames) = 1 THEN fr ELSE Outer
<1>1. /\ Len(frames) \in Nat \ {0}
      /\ \A i \in 1..Len(frames) : frames'[i] = IF i = Len(frames) THEN fr ELSE frames[i]
  BY ReplaceTop DEF StackSound, Replace
<1>2. 1 \in 1..Len(frames)
  BY <1>1
<1> QED
  BY <1>1, <1>2 DEF Outer

LEMMA SkipSeen ==
  ASSUME IInv, Pending, WalksSound, OuterSeen, Skip
  PROVE  OuterSeen'
<1>0. DataTyped /\ StackSound
  BY IInvSplit
<1>1. /\ frames # <<>> /\ Top.mode = "loop" /\ Top.pos <= Len(Steps(Top.goal))
      /\ UpToDate(At(Top)) /\ UNCHANGED <<stale, view>>
  BY DEF Skip, More, InLoop, history, Current, At
<1>2. /\ Top \in Frame /\ Top.goal \in Targets /\ Top.pos \in 1..Len(Steps(Top.goal))
      /\ At(Top) \in Targets /\ At(Top) \in Walked(Top.goal)
  BY <1>0, <1>1, CurrentFacts DEF WalksSound
<1>3. PICK top : top = Top
  OBVIOUS
<1>4. PICK fr : fr = [top EXCEPT !.pos = @ + 1]
  OBVIOUS
<1>5. fr \in Frame /\ fr.goal = top.goal /\ fr.pos = top.pos + 1 /\ fr.mode = top.mode
  BY <1>2, <1>3, <1>4 DEF Frame
<1>6. frames'[1] = IF Len(frames) = 1 THEN fr ELSE Outer
  BY <1>0, <1>1, <1>3, <1>4, <1>5, OuterReplaced DEF Skip
<1>7. CASE Len(frames) # 1
  <2>1. PICK out : out = Outer /\ out.mode = "call"
    BY <1>0, <1>1, <1>7, OuterFacts
  <2> QED
    BY <1>1, <1>6, <1>7, <2>1, SameSeen
<1>8. CASE Len(frames) = 1
  <2>1. Outer = top /\ frames'[1] = fr
    BY <1>0, <1>1, <1>3, <1>6, <1>8, OuterFacts
  <2>2. AllSeen(top.goal, At(top))
    <3>1. stale[At(top)] \subseteq view
      BY <1>0, <1>1, <1>2, <1>3, SkippedHasSeen
    <3>2. stale[At(top)] \subseteq Prereqs[At(top)]
      BY <1>2, <1>3 DEF Pending, StaleArePrereqs
    <3>3. Recurses(top.goal) => view \cap Prereqs[At(top)] = {}
      BY <1>1, <1>2, <1>3, <2>1 DEF OuterSeen
    <3> QED
      BY <3>1, <3>2, <3>3 DEF AllSeen
  <2>3. ASSUME NEW i \in 1..Len(Steps(top.goal)), i < fr.pos
        PROVE  AllSeen(top.goal, Steps(top.goal)[i])'
    <3>1. i < top.pos \/ i = top.pos
      BY <1>2, <1>3, <1>5, <2>3
    <3>2. AllSeen(top.goal, Steps(top.goal)[i])
      BY <1>1, <1>3, <2>1, <2>2, <3>1 DEF OuterSeen, At
    <3> QED
      BY <1>1, <3>2 DEF AllSeen
  <2>4. Outer' = fr /\ fr.goal = top.goal
    BY <1>5, <2>1 DEF Outer
  <2> QED
    BY <1>1, <1>3, <2>1, <2>3, <2>4 DEF OuterSeen, AllSeen
<1> QED
  BY <1>7, <1>8

LEMMA RunSeen ==
  ASSUME IInv, WalksSound, OuterSeen, RunActions
  PROVE  OuterSeen'
<1>0. DataTyped /\ StackSound
  BY IInvSplit
<1>1. /\ frames # <<>> /\ Top.mode = "loop" /\ view' = view
      /\ stale' = [stale EXCEPT ![Current] = {}]
  BY DEF RunActions, More, InLoop
<1>2. Top \in Frame
  BY <1>0, <1>1, CurrentFacts DEF WalksSound
<1>3. PICK top : top = Top
  OBVIOUS
<1>4. PICK fr : fr = [top EXCEPT !.mode = "run"]
  OBVIOUS
<1>5. fr \in Frame /\ fr.goal = top.goal /\ fr.pos = top.pos /\ fr.mode = "run"
  BY <1>2, <1>3, <1>4 DEF Frame
<1>6. frames'[1] = IF Len(frames) = 1 THEN fr ELSE Outer
  BY <1>0, <1>1, <1>3, <1>4, <1>5, OuterReplaced DEF RunActions
<1>7. Outer \in Frame /\ Outer.goal \in Targets /\ (Len(frames) = 1 => Outer = top)
      /\ Outer.mode # "exit"
  BY <1>0, <1>1, <1>3, OuterFacts
<1>8. PICK g \in Targets : g = Outer.goal
  BY <1>7
<1>9. \A i \in 1..Len(Steps(g)) : Steps(g)[i] \in Targets
  BY StepTargets
<1>10. \A t \in Targets : stale'[t] \subseteq stale[t]
  BY <1>0, <1>1 DEF DataTyped
<1>11. \A i \in 1..Len(Steps(g)) : AllSeen(g, Steps(g)[i]) => AllSeen(g, Steps(g)[i])'
  BY <1>1, <1>9, <1>10 DEF AllSeen
<1>12. PICK to : to = frames'[1] /\ to.goal = g /\ to.pos = Outer.pos
  BY <1>5, <1>6, <1>7, <1>8
<1>13. Recurses(g) => \A t \in Walked(g) : view' \cap Prereqs[t] = {}
  BY <1>1, <1>8 DEF OuterSeen
<1> QED
  BY <1>1, <1>7, <1>8, <1>11, <1>12, <1>13, OuterStays

LEMMA DoneSeen ==
  ASSUME Steady, IInv, Pending, WalksSound, OuterSeen, ActionsDone
  PROVE  OuterSeen'
<1>0. DataTyped /\ StackSound
  BY IInvSplit
<1>1. frames # <<>> /\ Top.mode = "run" /\ view' = view /\ stale' = Changed(stale, At(Top))
  BY DEF ActionsDone, Running, Current, At
<1>2. /\ Top \in Frame /\ Top.goal \in Targets /\ Top.pos \in 1..Len(Steps(Top.goal))
      /\ Top.pos <= Len(Steps(Top.goal)) /\ At(Top) \in Targets
      /\ At(Top) \in Walked(Top.goal) /\ Seen(At(Top))
  BY <1>0, <1>1, CurrentFacts DEF WalksSound, WalkSound
<1>3. PICK top : top = Top
  OBVIOUS
<1>4. PICK fr : fr = [top EXCEPT !.mode = "loop", !.pos = @ + 1]
  OBVIOUS
<1>5. fr \in Frame /\ fr.goal = top.goal /\ fr.pos = top.pos + 1 /\ fr.mode = "loop"
  <2>1. PICK m : m = [top EXCEPT !.mode = "loop"]
    OBVIOUS
  <2>2. m \in Frame /\ m.goal = top.goal /\ m.pos = top.pos /\ m.mode = "loop"
    BY <1>2, <1>3, <2>1 DEF Frame
  <2>3. fr = [m EXCEPT !.pos = @ + 1]
    BY <1>2, <1>3, <1>4, <2>1 DEF Frame
  <2> QED
    BY <2>2, <2>3 DEF Frame
<1>6. frames'[1] = IF Len(frames) = 1 THEN fr ELSE Outer
  BY <1>0, <1>1, <1>3, <1>4, <1>5, OuterReplaced DEF ActionsDone
<1>7. \A t \in Targets : At(top) \notin Prereqs[t] => stale'[t] = stale[t]
  BY <1>1, <1>3 DEF Changed
<1>8. PICK g \in Targets : g = Outer.goal
  BY <1>0, <1>1, OuterFacts
<1>9. g \in Goals /\ (Recurses(g) => \A t \in Walked(g) : view \cap Prereqs[t] = {})
      /\ \A i \in 1..Len(Steps(g)) : Steps(g)[i] \in Targets /\ Steps(g)[i] \in Walked(g)
  BY <1>1, <1>8, StepTargets DEF OuterSeen, Walked
<1>10. CASE Len(frames) # 1
  <2>1. /\ Outer.mode = "call" /\ Outer.pos \in 1..Len(Steps(g)) /\ Recurses(g)
        /\ At(top) \in Inside(Steps(g)[Outer.pos])
    BY <1>0, <1>1, <1>2, <1>3, <1>8, <1>10, OuterFacts DEF At
  <2>2. ASSUME NEW i \in 1..Len(Steps(g)), i < Outer.pos, AllSeen(g, Steps(g)[i])
        PROVE  AllSeen(g, Steps(g)[i])'
    <3>1. i <= Outer.pos
      BY <2>1, <2>2
    <3>2. At(top) \notin Prereqs[Steps(g)[i]]
      BY <1>9, <2>1, <3>1 DEF Steady
    <3>3. stale'[Steps(g)[i]] = stale[Steps(g)[i]]
      BY <1>7, <1>9, <3>2
    <3> QED
      BY <1>1, <2>2, <3>3 DEF AllSeen
  <2>3. PICK out : out = Outer
    OBVIOUS
  <2> QED
    BY <1>1, <1>6, <1>8, <1>9, <1>10, <2>1, <2>2, <2>3, OuterStays
<1>11. CASE Len(frames) = 1
  <2>1. Outer = top /\ frames'[1] = fr /\ top.goal = g
    BY <1>0, <1>1, <1>3, <1>6, <1>8, <1>11, OuterFacts
  <2>2. AllSeen(g, At(top))
    <3>1. stale[At(top)] \subseteq view /\ stale[At(top)] \subseteq Prereqs[At(top)]
      BY <1>2, <1>3 DEF Seen, Pending, StaleArePrereqs
    <3>2. Recurses(g) => view \cap Prereqs[At(top)] = {}
      BY <1>2, <1>3, <1>9, <2>1
    <3> QED
      BY <3>1, <3>2 DEF AllSeen
  <2>3. ASSUME NEW i \in 1..Len(Steps(g)), i < fr.pos PROVE AllSeen(g, Steps(g)[i])'
    <3>1. i < top.pos \/ i = top.pos
      BY <1>2, <1>3, <1>5, <2>3
    <3>2. AllSeen(g, Steps(g)[i])
      BY <1>1, <1>3, <2>1, <2>2, <3>1 DEF OuterSeen, At
    <3>3. ~(top.pos < i)
      BY <1>2, <1>3, <3>1
    <3>4. At(top) \notin Prereqs[Steps(g)[i]]
      BY <1>2, <1>3, <2>1, <3>3, StepTargets DEF At
    <3>5. stale'[Steps(g)[i]] = stale[Steps(g)[i]]
      BY <1>7, <1>9, <3>4
    <3> QED
      BY <1>1, <3>2, <3>5 DEF AllSeen
  <2>4. Outer' = fr /\ fr.goal = g
    BY <1>5, <2>1 DEF Outer
  <2> QED
    BY <1>1, <1>9, <2>3, <2>4 DEF OuterSeen, AllSeen
<1> QED
  BY <1>10, <1>11

LEMMA WriteSeen ==
  ASSUME Steady, IInv, WalksSound, OuterSeen, NEW f \in Facts, NEW v \in Values, Write(f, v)
  PROVE  OuterSeen'
<1>0. DataTyped /\ StackSound
  BY IInvSplit
<1>1. /\ frames # <<>> /\ frames' = frames /\ Assign(f, v) /\ Top.mode = "run"
      /\ Top.pos <= Len(Steps(Top.goal)) /\ f \in Writes[At(Top)]
  BY DEF Write, Running, WalksSound, WalkSound, Current, At
<1>2. view' = view \cup ({f} \cap Tracked) /\ stale' = Changed(stale, f)
  BY <1>1 DEF Assign
<1>3. PICK g \in Targets : g = Outer.goal
  BY <1>0, <1>1, OuterFacts
<1>4. g \in Goals /\ (Recurses(g) => \A t \in Walked(g) : view \cap Prereqs[t] = {})
      /\ \A i \in 1..Len(Steps(g)) : Steps(g)[i] \in Targets
  BY <1>1, <1>3, StepTargets DEF OuterSeen
<1>5. Outer.pos \in 1..Len(Steps(g)) /\ At(Top) \in Within(Steps(g)[Outer.pos])
  BY <1>0, <1>1, <1>3, CurrentWithin DEF At
<1>6. ASSUME Recurses(g), NEW i \in 1..Len(Steps(g)) PROVE f \notin Prereqs[Steps(g)[i]]
  BY <1>1, <1>4, <1>5, <1>6 DEF Steady
<1>7. Recurses(g) => \A t \in Walked(g) : view' \cap Prereqs[t] = {}
  BY <1>2, <1>4, <1>6 DEF Walked
<1>8. ASSUME NEW i \in 1..Len(Steps(g)), AllSeen(g, Steps(g)[i]) PROVE AllSeen(g, Steps(g)[i])'
  <2>1. PICK t \in Targets : t = Steps(g)[i]
    BY <1>4
  <2>2. stale'[t] = IF f \in Prereqs[t] THEN stale[t] \cup {f} ELSE stale[t]
    BY <1>2 DEF Changed
  <2>3. stale[t] \subseteq view /\ (Recurses(g) => stale[t] = {} /\ f \notin Prereqs[t])
    BY <1>6, <1>8, <2>1 DEF AllSeen
  <2>4. f \in Prereqs[t] => f \in view'
    BY <1>2 DEF Tracked
  <2>5. AllSeen(g, t)'
    BY <1>2, <2>2, <2>3, <2>4 DEF AllSeen
  <2> QED
    BY <2>1, <2>5
<1>9. PICK fr : fr = Outer
  OBVIOUS
<1>10. fr.goal = g /\ fr.pos = Outer.pos /\ (Outer.mode # "exit" \/ fr.mode = "exit")
       /\ frames'[1] = fr
  BY <1>1, <1>3, <1>9 DEF Outer
<1> QED
  BY <1>1, <1>3, <1>7, <1>8, <1>10, OuterStays

LEMMA FailSeen ==
  ASSUME IInv, WalksSound, OuterSeen, NEW s \in {"failure", "error"}, ActionsFail(s)
  PROVE  OuterSeen'
<1>0. StackSound
  BY IInvSplit
<1>1. frames # <<>> /\ Top.mode = "run" /\ UNCHANGED <<stale, view>> /\ s \in Status
  BY DEF ActionsFail, Running, Status
<1>2. Top \in Frame
  BY <1>0, <1>1, CurrentFacts DEF WalksSound
<1>3. PICK top : top = Top
  OBVIOUS
<1>4. PICK fr : fr = [top EXCEPT !.mode = "exit", !.status = s]
  OBVIOUS
<1>5. fr \in Frame /\ fr.goal = top.goal /\ fr.pos = top.pos /\ fr.mode = "exit"
  BY <1>1, <1>2, <1>3, <1>4 DEF Frame
<1>6. frames'[1] = IF Len(frames) = 1 THEN fr ELSE Outer
  BY <1>0, <1>1, <1>3, <1>4, <1>5, OuterReplaced DEF ActionsFail
<1>7. Len(frames) = 1 => Outer = top
  BY <1>0, <1>1, <1>3, OuterFacts
<1> QED
  BY <1>1, <1>5, <1>6, <1>7, SameSeen

LEMMA CallSeen ==
  ASSUME IInv, WalksSound, OuterSeen, NEW g \in Targets, CallResolve(g)
  PROVE  OuterSeen'
<1>0. DataTyped /\ StackSound /\ TransactionOwner
  BY IInvSplit DEF StackSound
<1>1. /\ frames # <<>> /\ Top.mode = "run" /\ ~OwnTx /\ g \in Resolves[At(Top)]
      /\ Top.pos <= Len(Steps(Top.goal))
  BY <1>0 DEF CallResolve, Running, TransactionOwner, OwnTx, WalksSound, WalkSound, Current, At
<1>2. StoreCheck(stamp + 1) /\ stale' = stale
  BY DEF CallResolve, Enter
<1>3. Top \in Frame /\ Top.pos \in 1..Len(Steps(Top.goal)) /\ scope \in Nat
  BY <1>0, <1>1, CurrentFacts DEF WalksSound, StackSound
<1>4. PICK top : top = Top
  OBVIOUS
<1>5. PICK caller : caller = [top EXCEPT !.mode = "call"]
  OBVIOUS
<1>6. caller \in Frame /\ caller.goal = top.goal /\ caller.pos = top.pos /\ caller.mode = "call"
  BY <1>3, <1>4, <1>5 DEF Frame
<1>7. PICK fr : fr = [goal |-> g, pos |-> 1, mode |-> "loop", own |-> FALSE,
                      locals |-> FALSE, base |-> scope, status |-> "success"]
  OBVIOUS
<1>8. frames' = Append(Replace(caller), fr)
  BY <1>0, <1>1, <1>4, <1>5, <1>7 DEF CallResolve, Enter, OwnTx, DataTyped
<1>9. frames'[1] = IF Len(frames) = 1 THEN caller ELSE Outer
  <2>1. /\ Replace(caller) \in Seq(Frame) /\ Len(Replace(caller)) = Len(frames)
        /\ Len(frames) \in Nat \ {0}
        /\ \A i \in 1..Len(frames) : Replace(caller)[i] = IF i = Len(frames) THEN caller ELSE frames[i]
    BY <1>0, <1>1, <1>6, ReplaceTop DEF StackSound, Replace
  <2>2. 1 \in 1..Len(frames)
    BY <2>1
  <2>3. frames'[1] = Replace(caller)[1]
    BY <1>8, <2>1, <2>2, AppendProperties
  <2> QED
    BY <2>1, <2>2, <2>3 DEF Outer
<1>10. /\ Len(frames) = 1 => Outer = top
       /\ Recurses(Outer.goal) /\ Outer.mode # "exit"
  BY <1>0, <1>1, <1>3, <1>4, OuterFacts DEF Recurses, At
<1>11. view' = {}
  BY <1>2 DEF StoreCheck
<1>12. PICK out : out = Outer.goal /\ Recurses(out)
  BY <1>10
<1>13. \A i \in 1..Len(Steps(out)) : AllSeen(out, Steps(out)[i]) => AllSeen(out, Steps(out)[i])'
  BY <1>2, <1>11, <1>12 DEF AllSeen
<1>14. PICK to : to = frames'[1] /\ to.goal = out /\ to.pos = Outer.pos
  BY <1>6, <1>9, <1>10, <1>12
<1> QED
  BY <1>1, <1>10, <1>11, <1>12, <1>13, <1>14, OuterStays

LEMMA InvokeSeen ==
  ASSUME IInv, NEW g \in Goals, NEW locals \in BOOLEAN, Invoke(g, locals)
  PROVE  OuterSeen'
<1>0. StackSound /\ TransactionOwner
  BY IInvSplit DEF StackSound
<1>1. OwnTx /\ g \in Targets /\ scope \in Nat
  BY <1>0, RulesetAssumption, EmptySeq DEF Invoke, StackSound, TransactionOwner, OwnTx
<1>2. PICK base : base = IF locals THEN scope + 1 ELSE scope
  OBVIOUS
<1>3. PICK fr : fr = [goal |-> g, pos |-> 1, mode |-> "loop", own |-> TRUE,
                      locals |-> locals, base |-> base, status |-> "success"]
  OBVIOUS
<1>4. frames' = Append(<<>>, fr) /\ StoreCheck(stamp + 1)
  BY <1>1, <1>2, <1>3 DEF Invoke, Enter
<1>5. Outer' = fr /\ fr.goal = g /\ fr.pos = 1
  BY <1>3, <1>4, EmptySeq, AppendProperties DEF Outer
<1>6. view' = {}
  BY <1>4 DEF StoreCheck
<1>7. \A i \in 1..Len(Steps(g)) : ~(i < 1)
  BY <1>1, StepTargets
<1> QED
  BY <1>5, <1>6, <1>7 DEF OuterSeen

LEMMA ReturnSeen ==
  ASSUME IInv, WalksSound, OuterSeen, frames # <<>>, ~Top.own, NEW s, Return(s),
         UNCHANGED <<stale, view>>
  PROVE  OuterSeen'
<1>0. StackSound
  BY IInvSplit
<1>1. /\ Len(frames) \in Nat \ {0} /\ Popped \in Seq(Frame) /\ Len(Popped) = Len(frames) - 1
      /\ \A i \in 1..(Len(frames) - 1) : Popped[i] = frames[i]
  BY <1>0, PopTop DEF StackSound
<1>2. Len(frames) # 1
  BY <1>0, <1>1 DEF StackSound, TransactionOwner, Top
<1>3. PICK n \in Nat \ {0} : n = Len(frames) - 1
  BY <1>1, <1>2
<1>4. 1 \in 1..n /\ n \in 1..n
  BY <1>3
<1>5. PICK fr : fr = Resumed(frames[n], s)
  OBVIOUS
<1>6. frames' = [Popped EXCEPT ![n] = fr]
  BY <1>3, <1>5 DEF Return
<1>7. Outer \in Frame /\ Outer.mode = "call"
  BY <1>0, <1>2, OuterFacts
<1>8. n \in DOMAIN Popped /\ 1 \in DOMAIN Popped /\ Popped[1] = Outer
  BY <1>1, <1>3, <1>4, LenProperties DEF Outer
<1>9. CASE n # 1
  <2>1. frames'[1] = Outer
    BY <1>6, <1>8, <1>9
  <2> QED
    BY <1>7, <2>1, SameSeen
<1>10. CASE n = 1
  <2>1. frames'[1] = fr /\ fr = Resumed(Outer, s)
    BY <1>5, <1>6, <1>8, <1>10 DEF Outer
  <2>2. fr.goal = Outer.goal /\ fr.pos = Outer.pos
    BY <1>7, <2>1 DEF Resumed, Frame
  <2> QED
    BY <1>7, <2>1, <2>2, SameSeen
<1> QED
  BY <1>9, <1>10

LEMMA SeenStep ==
  ASSUME Steady, IInv, Pending, WalksSound, OuterSeen, [Next]_vars
  PROVE  OuterSeen'
<1>0. StackSound
  BY IInvSplit
<1>1. ASSUME UNCHANGED <<frames, stale, view>> PROVE OuterSeen'
  BY <1>1 DEF OuterSeen, Outer, AllSeen
<1>2. ASSUME frames' = <<>> PROVE OuterSeen'
  BY <1>2 DEF OuterSeen
<1>3. ASSUME NEW f \in Facts, NEW v \in Values, ExternalChange(f, v) PROVE OuterSeen'
  BY <1>2, <1>3 DEF ExternalChange
<1>4. CASE InvokeRejected \/ InvokeBadLocals
  BY <1>2, <1>4 DEF InvokeRejected, InvokeBadLocals
<1>5. CASE OpenCall \/ CloseCall
  BY <1>1, <1>5 DEF OpenCall, CloseCall, history
<1>6. CASE GoalCommits \/ GoalRollsBack
  <2>1. frames # <<>> /\ Top.own /\ frames' = Popped
    BY <1>6 DEF GoalCommits, GoalRollsBack, InLoop, Exiting, ReturnOutermost
  <2> QED
    BY <1>0, <1>2, <2>1, NothingLeft
<1>7. CASE GoalReturns \/ GoalFails
  <2>1. frames # <<>> /\ ~Top.own /\ UNCHANGED <<stale, view>> /\ \E s : Return(s)
    BY <1>7 DEF GoalReturns, GoalFails, InLoop, Exiting, history
  <2> QED
    BY <2>1, ReturnSeen
<1>8. CASE UNCHANGED vars
  BY <1>1, <1>8 DEF vars, history
<1> QED
  BY <1>3, <1>4, <1>5, <1>6, <1>7, <1>8, SkipSeen, RunSeen, DoneSeen, WriteSeen, FailSeen,
     CallSeen, InvokeSeen DEF Next, Resolving, Walking

(* Make-like resolution is complete: when a goal commits, all that was     *)
(* walked for it has seen every change but those that this very resolution *)
(* has made and left in the view for the next one (dres.c:536-553), unless *)
(* a goal resolved on the way takes them from the view.                    *)
THEOREM GoalsAreUpToDate == Undisturbed /\ Steady => (Spec => GoalIsUpToDate)
<1> SUFFICES ASSUME Undisturbed, Steady PROVE Spec => GoalIsUpToDate
  OBVIOUS
<1>1. Init => OuterSeen
  BY DEF Init, OuterSeen
<1>2. IInv /\ Pending /\ WalksSound /\ OuterSeen /\ [Next]_vars => OuterSeen'
  BY SeenStep
<1>3. IInv /\ WalksSound /\ OuterSeen
        => [\A t \in Targets :
              GoalCommits /\ t \in Walked(Top.goal) => stale[t] \subseteq view]_vars
  <2> SUFFICES ASSUME IInv, WalksSound, OuterSeen, NEW t \in Targets, GoalCommits,
                      t \in Walked(Top.goal)
               PROVE  stale[t] \subseteq view
    OBVIOUS
  <2>1. frames # <<>> /\ Top.own /\ Top.mode = "loop" /\ ~(Top.pos <= Len(Steps(Top.goal)))
    BY DEF GoalCommits, InLoop, More
  <2>2. StackSound
    BY IInvSplit
  <2>3. Len(frames) \in Nat \ {0}
    BY <2>1, <2>2, OuterFacts
  <2>4. Len(frames) \in 1..Len(frames)
    BY <2>3
  <2>5. frames[Len(frames)].own <=> Len(frames) = 1
    BY <2>2, <2>4 DEF StackSound, TransactionOwner
  <2>6. Outer = Top
    BY <2>1, <2>2, <2>5, OuterFacts DEF Top
  <2>7. Top.goal \in Targets /\ Top.pos \in Nat
    BY <2>1, <2>2, CurrentFacts DEF WalksSound
  <2>8. PICK i \in 1..Len(Steps(Top.goal)) : t = Steps(Top.goal)[i]
    BY DEF Walked
  <2>9. i < Top.pos
    BY <2>1, <2>7, StepTargets
  <2> QED
    BY <2>1, <2>6, <2>8, <2>9 DEF OuterSeen, AllSeen
<1>4. Spec => [](IInv /\ FailureSound /\ Pending /\ WalksSound)
  BY UpdatesInductive
<1> QED
  BY <1>1, <1>2, <1>3, <1>4, PTL DEF Spec, GoalIsUpToDate

(* Where nothing is resolved recursively. *)
NothingNested == \A t \in Targets : Resolves[t] = {}

LEMMA NothingInside == NothingNested => Undisturbed /\ Steady
<1> SUFFICES ASSUME NothingNested PROVE Undisturbed /\ Steady
  OBVIOUS
<1>1. \A t \in Targets : Inside(t) = {}
  <2> SUFFICES ASSUME NEW t \in Targets, NEW u \in Inside(t) PROVE FALSE
    OBVIOUS
  <2>1. {} \in SUBSET Targets /\ \A v \in {} \cup {t} : \A g \in Resolves[v] : Walked(g) \subseteq {}
    BY DEF NothingNested
  <2> QED
    BY <2>1 DEF Inside
<1>2. \A g \in Targets : \A i \in 1..Len(Steps(g)) : Steps(g)[i] \in Targets
  BY StepTargets
<1>3. Undisturbed
  BY <1>1, <1>2 DEF Undisturbed, NothingNested
<1>4. \A g \in Goals : ~Recurses(g)
  BY <1>2, RulesetAssumption DEF Recurses, NothingNested
<1> QED
  BY <1>3, <1>4 DEF Steady

(* No assumption on what actions assign is needed then. *)
COROLLARY FlatGoalsAreUpToDate == NothingNested => (Spec => GoalIsUpToDate)
BY NothingInside, GoalsAreUpToDate

-------------------------------------------------------------------------------
(* What is updated has a reason.                                           *)

(* The call fr is at a target of a goal that somebody resolves. *)
Placed(fr) ==
  /\ fr.goal \in Resolved /\ fr.pos \in 1..(Len(Steps(fr.goal)) + 1)
  /\ fr.mode # "loop" => fr.pos <= Len(Steps(fr.goal))

(* The callers wait within actions, inside which the calls above them walk. *)
CallersWait ==
  \A k \in 1..(Len(frames) - 1) :
    /\ frames[k].mode = "call"
    /\ \A m \in (k+1)..Len(frames) : Walked(frames[m].goal) \subseteq Inside(At(frames[k]))

Places ==
  /\ \A k \in 1..Len(frames) : Placed(frames[k])
  /\ CallersWait /\ (frames # <<>> => Top.mode # "call")

(* The actions of t have begun in a call below the innermost one, in any.  *)
Below(t) == \E k \in 1..(Len(frames) - 1) : At(frames[k]) = t
Busy(t) == Below(t) \/ (frames # <<>> /\ Top.mode # "loop" /\ At(Top) = t)

LEMMA ResolvedAre == Resolved \subseteq Targets
BY RulesetAssumption DEF Resolved

LEMMA PlacedAt ==
  ASSUME NEW fr, Placed(fr)
  PROVE  /\ fr.goal \in Targets /\ Len(Steps(fr.goal)) \in Nat \ {0} /\ fr.pos \in Nat \ {0}
         /\ fr.pos <= Len(Steps(fr.goal)) =>
              fr.pos \in 1..Len(Steps(fr.goal)) /\ At(fr) \in Targets /\ At(fr) \in Walked(fr.goal)
<1>1. fr.goal \in Targets
  BY ResolvedAre DEF Placed
<1>2. Len(Steps(fr.goal)) \in Nat \ {0}
  BY <1>1, StepTargets
<1>3. fr.pos \in Nat \ {0} /\ (fr.pos <= Len(Steps(fr.goal)) => fr.pos \in 1..Len(Steps(fr.goal)))
  BY <1>2 DEF Placed
<1> QED
  BY <1>1, <1>2, <1>3, StepTargets DEF At, Walked

LEMMA TopPlaced ==
  ASSUME StackSound, Places, frames # <<>>
  PROVE  Len(frames) \in Nat \ {0} /\ Top \in Frame /\ Placed(Top)
<1>1. Len(frames) \in Nat \ {0} /\ Top \in Frame
  BY TopFrame DEF StackSound
<1>2. Len(frames) \in 1..Len(frames)
  BY <1>1
<1> QED
  BY <1>1, <1>2 DEF Places, Top

(* What the innermost call walks is inside of every target that waits.     *)
LEMMA WalkedInside ==
  ASSUME StackSound, Places, frames # <<>>, NEW t, Below(t)
  PROVE  t \in Targets /\ Walked(Top.goal) \subseteq Inside(t)
<1>1. Len(frames) \in Nat \ {0}
  BY TopPlaced
<1>2. PICK k \in 1..(Len(frames) - 1) : At(frames[k]) = t
  BY DEF Below
<1>3. k \in 1..Len(frames) /\ Len(frames) \in (k+1)..Len(frames)
  BY <1>1
<1>4. Placed(frames[k]) /\ frames[k].mode = "call" /\ Walked(Top.goal) \subseteq Inside(t)
  BY <1>2, <1>3 DEF Places, CallersWait, Top
<1>5. frames[k].pos <= Len(Steps(frames[k].goal))
  BY <1>4 DEF Placed
<1> QED
  BY <1>2, <1>4, <1>5, PlacedAt

(* The innermost call moves on. *)
LEMMA MovedPlaces ==
  ASSUME StackSound, Places, frames # <<>>, NEW fr \in Frame, fr.goal = Top.goal,
         Placed(fr), fr.mode # "call", frames' = Replace(fr)
  PROVE  /\ Places' /\ frames' # <<>> /\ Top' = fr
         /\ \A t : Below(t)' <=> Below(t)
<1>1. Len(frames) \in Nat \ {0}
  BY TopFrame DEF StackSound
<1>2. /\ Len(frames') = Len(frames) /\ frames' # <<>>
      /\ \A i \in 1..Len(frames) : frames'[i] = IF i = Len(frames) THEN fr ELSE frames[i]
  BY ReplaceTop DEF StackSound, Replace
<1>3. Top' = fr
  <2>1. Len(frames) \in 1..Len(frames)
    BY <1>1
  <2> QED
    BY <1>2, <2>1 DEF Top
<1>4. \A k \in 1..(Len(frames) - 1) : k \in 1..Len(frames) /\ frames'[k] = frames[k]
  BY <1>1, <1>2
<1>5. \A k \in 1..Len(frames) : frames'[k].goal = frames[k].goal
  BY <1>2 DEF Top
<1>6. CallersWait'
  <2>1. ASSUME NEW k \in 1..(Len(frames) - 1)
        PROVE  /\ frames'[k].mode = "call"
               /\ \A m \in (k+1)..Len(frames) : Walked(frames'[m].goal) \subseteq Inside(At(frames'[k]))
    <3>1. \A m \in (k+1)..Len(frames) : m \in 1..Len(frames)
      BY <1>1
    <3> QED
      BY <1>4, <1>5, <3>1 DEF Places, CallersWait
  <2>2. \A k \in 1..(Len(frames') - 1) :
          /\ frames'[k].mode = "call"
          /\ \A m \in (k+1)..Len(frames') : Walked(frames'[m].goal) \subseteq Inside(At(frames'[k]))
    BY <1>2, <2>1
  <2> QED
    BY <2>2 DEF CallersWait, At
<1>7. \A k \in 1..Len(frames') : Placed(frames'[k])
  BY <1>2 DEF Places
<1>8. Places'
  BY <1>2, <1>3, <1>6, <1>7 DEF Places, Placed
<1>9. \A t : Below(t)' <=> Below(t)
  BY <1>2, <1>4 DEF Below, At
<1> QED
  BY <1>2, <1>3, <1>8, <1>9

(* A goal begins to be resolved. *)
LEMMA BegunPlaces ==
  ASSUME NEW fr \in Frame, Placed(fr), fr.mode = "loop", frames' = Append(<<>>, fr)
  PROVE  Places' /\ frames' # <<>> /\ Top' = fr /\ \A t : ~Busy(t)'
<1>1. Len(frames') = 1 /\ frames'[1] = fr /\ frames' # <<>>
  BY EmptySeq, AppendProperties
<1>2. Top' = fr
  BY <1>1 DEF Top
<1>3. Places'
  BY <1>1, <1>2 DEF Places, CallersWait, Placed
<1>4. \A t : ~Busy(t)'
  BY <1>1, <1>2 DEF Busy, Below
<1> QED
  BY <1>1, <1>2, <1>3, <1>4

(* The actions of the current target resolve a goal. *)
LEMMA PushedPlaces ==
  ASSUME StackSound, Places, frames # <<>>, Top.mode = "run",
         NEW caller \in Frame, caller.goal = Top.goal, caller.pos = Top.pos, caller.mode = "call",
         NEW fr \in Frame, fr.goal \in Resolves[At(Top)], Placed(fr), fr.mode = "loop",
         frames' = Append(Replace(caller), fr)
  PROVE  /\ Places' /\ frames' # <<>> /\ Top' = fr
         /\ \A t : Busy(t)' <=> Busy(t)
<1>1. Len(frames) \in Nat \ {0} /\ Placed(Top) /\ Placed(caller)
  BY TopPlaced DEF Placed
<1>2. PICK n \in Nat \ {0} : n = Len(frames)
  BY <1>1
<1>3. /\ Replace(caller) \in Seq(Frame) /\ Len(Replace(caller)) = n
      /\ \A i \in 1..n : Replace(caller)[i] = IF i = n THEN caller ELSE frames[i]
  BY <1>2, ReplaceTop DEF StackSound, Replace
<1>4. /\ Len(frames') = n + 1 /\ frames'[n + 1] = fr
      /\ \A i \in 1..n : frames'[i] = IF i = n THEN caller ELSE frames[i]
  BY <1>2, <1>3, AppendProperties
<1>5. frames' # <<>> /\ Top' = fr
  BY <1>2, <1>4, EmptySeq DEF Top
<1>6. \A k \in 1..(n + 1) : Placed(frames'[k])
  <2> SUFFICES ASSUME NEW k \in 1..(n + 1) PROVE Placed(frames'[k])
    OBVIOUS
  <2>1. k = n + 1 \/ k = n \/ (k # n /\ k \in 1..n)
    BY <1>2
  <2>2. n \in 1..n
    BY <1>2
  <2> QED
    BY <1>1, <1>2, <1>4, <2>1, <2>2 DEF Places
<1>7. At(caller) = At(Top) /\ At(Top) \in Targets /\ At(Top) \in Walked(Top.goal)
  BY <1>1, PlacedAt DEF At, Placed
<1>8. Walked(fr.goal) \subseteq Inside(At(Top))
  BY <1>7, InsideFacts
<1>9. \A k \in 1..(n - 1) : k \in 1..n /\ k # n /\ frames'[k] = frames[k]
  BY <1>2, <1>4
<1>10. ASSUME NEW k \in 1..n
       PROVE  /\ frames'[k].mode = "call"
              /\ \A m \in (k+1)..(n+1) : Walked(frames'[m].goal) \subseteq Inside(At(frames'[k]))
  <2>1. CASE k = n
    <3>1. frames'[k] = caller /\ \A m \in (k+1)..(n+1) : m = n + 1
      BY <1>2, <1>4, <2>1
    <3> QED
      BY <1>4, <1>7, <1>8, <3>1
  <2>2. CASE k # n
    <3>1. k \in 1..(n - 1) /\ n \in (k+1)..n
      BY <1>2, <2>2
    <3>2. /\ frames'[k] = frames[k] /\ frames[k].mode = "call"
          /\ \A m \in (k+1)..n : Walked(frames[m].goal) \subseteq Inside(At(frames[k]))
      BY <1>2, <1>9, <3>1 DEF Places, CallersWait
    <3>3. Below(At(frames[k]))
      BY <1>2, <3>1 DEF Below
    <3>4. At(frames[k]) \in Targets /\ At(Top) \in Inside(At(frames[k]))
      BY <1>7, <3>3, WalkedInside
    <3>5. Walked(fr.goal) \subseteq Inside(At(frames[k]))
      BY <1>8, <3>4, InsideFacts
    <3>6. ASSUME NEW m \in (k+1)..(n+1) PROVE Walked(frames'[m].goal) \subseteq Inside(At(frames[k]))
      <4>1. m = n + 1 \/ (m \in (k+1)..n /\ m \in 1..n)
        BY <1>2
      <4>2. m \in 1..n => frames'[m].goal = frames[m].goal
        BY <1>2, <1>4 DEF Top
      <4> QED
        BY <1>4, <3>2, <3>5, <4>1, <4>2
    <3> QED
      BY <3>2, <3>6
  <2> QED
    BY <2>1, <2>2
<1>11. Len(frames') - 1 = n
  BY <1>2, <1>4
<1>12. CallersWait'
  BY <1>4, <1>10, <1>11 DEF CallersWait, At
<1>13. Places'
  BY <1>4, <1>5, <1>6, <1>12 DEF Places, Placed
<1>14. ASSUME NEW t PROVE Busy(t)' <=> Busy(t)
  <2>1. Below(t)' <=> \E k \in 1..n : At(frames'[k]) = t
    BY <1>11 DEF Below, At
  <2>2. \A k \in 1..n : k = n \/ k \in 1..(n - 1)
    BY <1>2
  <2>3. n \in 1..n /\ frames'[n] = caller
    BY <1>2, <1>4
  <2>4. (\E k \in 1..n : At(frames'[k]) = t) <=> (\E k \in 1..(n-1) : At(frames[k]) = t) \/ At(Top) = t
    BY <1>7, <1>9, <2>2, <2>3
  <2> QED
    BY <1>2, <1>5, <2>1, <2>4 DEF Busy, Below
<1> QED
  BY <1>5, <1>13, <1>14

(* The innermost call returns to one that waits for it. *)
LEMMA ReturnedPlaces ==
  ASSUME StackSound, Places, frames # <<>>, ~Top.own, NEW s \in Status, Return(s)
  PROVE  /\ Places' /\ frames' # <<>> /\ Top'.mode = (IF s = "success" THEN "run" ELSE "exit")
         /\ Placed(Top)' /\ Walked(Top.goal) \subseteq Inside(At(Top)')
         /\ \A t : Busy(t)' <=> Below(t)
<1>1. /\ Len(frames) \in Nat \ {0} /\ Popped \in Seq(Frame) /\ Len(Popped) = Len(frames) - 1
      /\ \A i \in 1..(Len(frames) - 1) : Popped[i] = frames[i]
  BY PopTop DEF StackSound
<1>2. Len(frames) # 1
  BY <1>1 DEF StackSound, TransactionOwner, Top
<1>3. PICK n \in Nat \ {0} : n = Len(frames) - 1
  BY <1>1, <1>2
<1>4. Len(frames) = n + 1 /\ n \in 1..n /\ n \in 1..(Len(frames) - 1) /\ n \in 1..Len(frames)
  BY <1>1, <1>3
<1>5. PICK caller \in Frame : caller = frames[n]
  BY <1>4, ElementOfSeq DEF StackSound
<1>6. Placed(caller) /\ caller.mode = "call" /\ Walked(Top.goal) \subseteq Inside(At(caller))
  <2>1. Len(frames) \in (n+1)..Len(frames)
    BY <1>4
  <2> QED
    BY <1>4, <1>5, <2>1 DEF Places, CallersWait, Top
<1>7. PICK fr \in Frame :
        /\ fr = Resumed(caller, s) /\ fr.goal = caller.goal /\ fr.pos = caller.pos
        /\ fr.mode = IF s = "success" THEN "run" ELSE "exit"
  <2>1. PICK fr : fr = Resumed(caller, s)
    OBVIOUS
  <2>2. /\ fr \in Frame /\ fr.goal = caller.goal /\ fr.pos = caller.pos
        /\ fr.mode = IF s = "success" THEN "run" ELSE "exit"
    BY <2>1 DEF Resumed, Frame
  <2> QED
    BY <2>1, <2>2
<1>8. Placed(fr) /\ At(fr) = At(caller)
  BY <1>6, <1>7 DEF Placed, At
<1>9. frames' = [Popped EXCEPT ![n] = fr] /\ Popped # <<>>
  BY <1>1, <1>3, <1>5, <1>7, EmptySeq DEF Return
<1>10. /\ frames' # <<>> /\ Len(frames') = n
       /\ \A i \in 1..n : frames'[i] = IF i = n THEN fr ELSE frames[i]
  BY <1>1, <1>3, <1>9, ReplaceTop
<1>11. Top' = fr
  BY <1>4, <1>10 DEF Top
<1>12. \A i \in 1..n : frames'[i].goal = frames[i].goal /\ At(frames'[i]) = At(frames[i])
  BY <1>5, <1>7, <1>8, <1>10
<1>13. CallersWait'
  <2>1. ASSUME NEW k \in 1..(n - 1)
        PROVE  /\ frames'[k].mode = "call"
               /\ \A m \in (k+1)..n : Walked(frames'[m].goal) \subseteq Inside(At(frames'[k]))
    <3>1. k \in 1..(Len(frames) - 1) /\ k \in 1..n /\ k # n
      BY <1>3, <1>4
    <3>2. \A m \in (k+1)..n : m \in (k+1)..Len(frames) /\ m \in 1..n
      BY <1>4
    <3> QED
      BY <1>10, <1>12, <3>1, <3>2 DEF Places, CallersWait
  <2> QED
    BY <1>10, <2>1 DEF CallersWait, At
<1>14. Places'
  <2>1. \A k \in 1..n : Placed(frames'[k])
    <3> SUFFICES ASSUME NEW k \in 1..n PROVE Placed(frames'[k])
      OBVIOUS
    <3>1. k \in 1..Len(frames)
      BY <1>4
    <3> QED
      BY <1>8, <1>10, <3>1 DEF Places
  <2> QED
    BY <1>7, <1>10, <1>11, <1>13, <2>1 DEF Places, Placed
<1>15. ASSUME NEW t PROVE Busy(t)' <=> Below(t)
  <2>1. Below(t)' <=> \E k \in 1..(n - 1) : At(frames'[k]) = t
    BY <1>10 DEF Below, At
  <2>2. Busy(t)' <=> Below(t)' \/ At(fr) = t
    BY <1>7, <1>10, <1>11 DEF Busy, At
  <2>3. Below(t) <=> \E k \in 1..n : At(frames[k]) = t
    BY <1>3 DEF Below
  <2>4. \A k \in 1..n : k = n \/ k \in 1..(n - 1)
    BY <1>3
  <2>5. \A k \in 1..(n - 1) : k \in 1..n
    BY <1>3
  <2> QED
    BY <1>4, <1>5, <1>8, <1>12, <2>1, <2>2, <2>3, <2>4, <2>5
<1>16. Placed(Top)' /\ At(Top)' = At(fr)
  BY <1>8, <1>11 DEF Placed, At
<1> QED
  BY <1>6, <1>7, <1>8, <1>10, <1>11, <1>14, <1>15, <1>16

-------------------------------------------------------------------------------
(* A younger prerequisite is one that has changed since the actions of t   *)
(* began.                                                                  *)
YoungerChanged(t) ==
  \A p \in Prereqs[t] : StampOf(p) > tgt[t].stamp => p \in stale[t]

(* So is one that the view reports. *)
ViewChanged(t) == view \cap Prereqs[t] \subseteq stale[t]

(* What the view reports is from targets that the innermost call has       *)
(* passed, or from within their actions.                                   *)
ViewWritten(fr) ==
  \A f \in view : \E i \in 1..Len(Steps(fr.goal)) :
    /\ i <= fr.pos /\ (fr.mode = "loop" => i # fr.pos)
    /\ \E u \in Within(Steps(fr.goal)[i]) : f \in Writes[u]

(* A goal without prerequisites has been updated before it is stamped.     *)
GoalChanged(fr) ==
  fr.mode = "loop" /\ Prereqs[fr.goal] = {} /\ fr.pos # 1 =>
    \A u \in Targets : fr.goal \in Prereqs[u] => fr.goal \in stale[u]

Exits == frames # <<>> /\ Top.mode = "exit"

(* What a rollback would leave.  Actions that may fail assign no fact that *)
(* is looked at.                                                           *)
RestorableChanged ==
  Fails # {} /\ txActive =>
    /\ view = {} /\ \A f \in Tracked : store[f] = saved[f]
    /\ \A t \in Targets : \A p \in Prereqs[t] :
         CommittedOf(p) > CommittedStamp(t) => p \in staleSaved[t]

Justified ==
  /\ Places
  /\ Exits \/ \A t \in Targets : Busy(t) \/ YoungerChanged(t)
  /\ \A t \in Targets : ViewChanged(t)
  /\ frames # <<>> => ViewWritten(Top) /\ GoalChanged(Top)
  /\ RestorableChanged
  /\ Fails = {} => ~Exits

LEMMA PrereqStamps ==
  ASSUME DataTyped, StampsBehindClock, NEW t \in Targets, NEW p \in Prereqs[t]
  PROVE  /\ p \in Facts \/ p \in Targets
         /\ ~(p \in Facts /\ p \in Targets)
         /\ StampOf(p) \in Nat /\ StampOf(p) <= stamp /\ stamp \in Nat
         /\ tgt[t].stamp \in Nat /\ tgt[t].stamp <= stamp
<1>1. (p \in Facts \/ p \in Targets) /\ ~(p \in Facts /\ p \in Targets)
  BY RulesetAssumption
<1>2. \A u \in Targets : tgt[u].stamp \in Nat /\ tgt[u].stamp <= stamp
  BY StampTypes DEF StampsBehindClock
<1> QED
  BY <1>1, <1>2, StampTypes DEF StampOf, StampsBehindClock

(* c is stamped: what depends on it has become stale. *)
LEMMA StampedYounger ==
  ASSUME DataTyped, StampsBehindClock, NEW c \in Targets, tgt' = Stamped(c), factStamp' = factStamp,
         NEW t \in Targets, t = c \/ YoungerChanged(t), stale[t] \subseteq stale'[t],
         c \in Prereqs[t] => c \in stale'[t]
  PROVE  YoungerChanged(t)'
<1>1. \A u \in Targets : tgt'[u].stamp = IF u = c THEN stamp ELSE tgt[u].stamp
  BY DEF Stamped, DataTyped
<1>2. ASSUME NEW p \in Prereqs[t], StampOf(p)' > tgt'[t].stamp PROVE p \in stale'[t]
  <2>1. /\ p \in Facts \/ p \in Targets
        /\ ~(p \in Facts /\ p \in Targets)
        /\ StampOf(p) \in Nat /\ StampOf(p) <= stamp /\ stamp \in Nat
        /\ tgt[t].stamp \in Nat /\ tgt[t].stamp <= stamp
    BY PrereqStamps
  <2>2. CASE p = c
    BY <1>2, <2>2
  <2>3. CASE p # c
    <3>1. StampOf(p)' = StampOf(p)
      BY <1>1, <2>1, <2>3 DEF StampOf
    <3>2. t # c
      BY <1>1, <1>2, <2>1, <3>1
    <3>3. tgt'[t].stamp = tgt[t].stamp
      BY <1>1, <3>2
    <3> QED
      BY <1>2, <3>1, <3>2, <3>3 DEF YoungerChanged
  <2> QED
    BY <2>2, <2>3
<1> QED
  BY <1>2 DEF YoungerChanged

LEMMA StampedRestorable ==
  ASSUME DataTyped, StampsBehindClock, RestorableChanged, NEW c \in Targets, tgt' = Stamped(c),
         UNCHANGED <<factStamp, txid>>,
         ~txActive' \/ UNCHANGED <<txActive, staleSaved, view, store, saved>>
  PROVE  RestorableChanged'
<1> SUFFICES ASSUME Fails # {}, txActive'
             PROVE  /\ view' = {} /\ \A f \in Tracked : store'[f] = saved'[f]
                    /\ \A t \in Targets : \A p \in Prereqs[t] :
                         CommittedOf(p)' > CommittedStamp(t)' => p \in staleSaved'[t]
  BY DEF RestorableChanged, Tracked
<1>1. txActive /\ UNCHANGED <<txActive, staleSaved, view, store, saved>>
  OBVIOUS
<1>2. ASSUME NEW u \in Targets PROVE CommittedStamp(u)' = CommittedStamp(u)
  <2>1. PICK s : s = Stamped(c)[u]
    OBVIOUS
  <2>2. RestorableStamp(u) = IF s.txid = txid THEN s.txstamp ELSE s.stamp
    BY <2>1, StampedFacts
  <2>3. s.stamp = tgt'[u].stamp /\ s.txid = tgt'[u].txid /\ s.txstamp = tgt'[u].txstamp
    BY <2>1
  <2> QED
    BY <1>1, <2>2, <2>3 DEF CommittedStamp, RestorableStamp
<1>3. \A p \in Facts \cup Targets : CommittedOf(p)' = CommittedOf(p)
  BY <1>2 DEF CommittedOf
<1>4. \A t \in Targets : Prereqs[t] \subseteq Facts \cup Targets
  BY RulesetAssumption
<1> QED
  BY <1>1, <1>2, <1>3, <1>4 DEF RestorableChanged

LEMMA SameRestorable ==
  ASSUME RestorableChanged, UNCHANGED <<tgt, factStamp, txid, txActive, staleSaved, saved>>,
         Fails # {} => view' = view /\ \A f \in Tracked : store'[f] = store[f]
  PROVE  RestorableChanged'
BY DEF RestorableChanged, CommittedOf, CommittedStamp, Tracked

(* Nothing is stamped and nothing gets less stale. *)
LEMMA SameYounger ==
  ASSUME NEW t, YoungerChanged(t), UNCHANGED <<tgt, factStamp>>, stale[t] \subseteq stale'[t]
  PROVE  YoungerChanged(t)'
BY DEF YoungerChanged, StampOf

(* The facts in the view are stamped and the view is emptied. *)
LEMMA CheckedYounger ==
  ASSUME DataTyped, StampsBehindClock, StoreCheck(stamp + 1), UNCHANGED <<tgt, stale>>,
         NEW t \in Targets, YoungerChanged(t), ViewChanged(t)
  PROVE  YoungerChanged(t)'
<1>1. ASSUME NEW p \in Prereqs[t], p \notin view PROVE StampOf(p)' = StampOf(p)
  BY <1>1 DEF StampOf, StoreCheck
<1> QED
  BY <1>1 DEF YoungerChanged, ViewChanged

(* A fact gets a value: all that depend on it are stale. *)
LEMMA AssignChanged ==
  ASSUME DataTyped, NEW f \in Facts, NEW v, Assign(f, v), NEW t \in Targets
  PROVE  /\ stale[t] \subseteq stale'[t]
         /\ ViewChanged(t) => ViewChanged(t)'
<1>1. view' = view \cup ({f} \cap Tracked) /\ stale' = Changed(stale, f)
  BY DEF Assign
<1>2. stale'[t] = IF f \in Prereqs[t] THEN stale[t] \cup {f} ELSE stale[t]
  BY <1>1 DEF Changed
<1> QED
  BY <1>1, <1>2 DEF ViewChanged

(* An assignment within actions of a ruleset in which some may fail is to  *)
(* a fact that is not looked at.                                           *)
LEMMA AssignRestorable ==
  ASSUME DataTyped, Economical, RestorableChanged, NEW t \in Targets, NEW f \in Writes[t], NEW v,
         Assign(f, v), UNCHANGED <<tgt, factStamp, txid, txActive, staleSaved, saved>>
  PROVE  RestorableChanged'
<1>1. ASSUME Fails # {} PROVE view' = view /\ \A g \in Tracked : store'[g] = store[g]
  <2>1. f \notin Tracked
    BY <1>1 DEF Economical
  <2>2. view' = view \cup ({f} \cap Tracked) /\ store' = [store EXCEPT ![f] = v]
    BY DEF Assign
  <2>3. Tracked \subseteq Facts /\ store \in [Facts -> Values]
    BY DEF Tracked, DataTyped
  <2> QED
    BY <2>1, <2>2, <2>3
<1> QED
  BY <1>1, SameRestorable

(* The innermost call stays where it is or moves on: what it has passed it *)
(* has still passed.                                                       *)
LEMMA StillWritten ==
  ASSUME NEW fr, NEW to, ViewWritten(fr), to.goal = fr.goal, fr.pos \in Nat, view' = view,
         \/ to.pos = fr.pos /\ (to.mode # "loop" \/ fr.mode = "loop")
         \/ to.pos = fr.pos + 1
  PROVE  ViewWritten(to)'
<1> SUFFICES ASSUME NEW f \in view
             PROVE  \E i \in 1..Len(Steps(to.goal)) :
                      /\ i <= to.pos /\ (to.mode = "loop" => i # to.pos)
                      /\ \E u \in Within(Steps(to.goal)[i]) : f \in Writes[u]
  BY DEF ViewWritten
<1>1. PICK i \in 1..Len(Steps(fr.goal)) :
        /\ i <= fr.pos /\ (fr.mode = "loop" => i # fr.pos)
        /\ \E u \in Within(Steps(fr.goal)[i]) : f \in Writes[u]
  BY DEF ViewWritten
<1>2. i <= to.pos /\ (to.mode = "loop" => i # to.pos)
  <2>1. i \in Int
    OBVIOUS
  <2> QED
    BY <1>1, <2>1
<1> QED
  BY <1>1, <1>2

(* What was written within the actions that a caller waits for. *)
LEMMA WrittenInside ==
  ASSUME NEW fr, NEW to, Placed(fr), Placed(to), to.mode # "loop", ViewWritten(fr), view' = view,
         Walked(fr.goal) \subseteq Inside(At(to))
  PROVE  ViewWritten(to)'
<1>1. to.pos \in 1..Len(Steps(to.goal)) /\ At(to) \in Targets
  BY PlacedAt DEF Placed
<1> SUFFICES ASSUME NEW f \in view
             PROVE  \E i \in 1..Len(Steps(to.goal)) :
                      /\ i <= to.pos /\ (to.mode = "loop" => i # to.pos)
                      /\ \E u \in Within(Steps(to.goal)[i]) : f \in Writes[u]
  BY DEF ViewWritten
<1>2. PICK i \in 1..Len(Steps(fr.goal)) : \E u \in Within(Steps(fr.goal)[i]) : f \in Writes[u]
  BY DEF ViewWritten
<1>3. PICK u \in Within(Steps(fr.goal)[i]) : f \in Writes[u]
  BY <1>2
<1>4. Steps(fr.goal)[i] \in Inside(At(to))
  BY DEF Walked
<1>5. u \in Within(At(to))
  BY <1>1, <1>3, <1>4, InsideFacts DEF Within
<1>6. to.pos <= to.pos
  BY <1>1
<1> QED
  BY <1>1, <1>3, <1>5, <1>6 DEF At

-------------------------------------------------------------------------------
(* The steps of an economical ruleset.                                     *)

LEMMA TopJustified ==
  ASSUME IInv, Justified, frames # <<>>
  PROVE  /\ DataTyped /\ StackSound /\ StampsBehindClock
         /\ Top \in Frame /\ Placed(Top) /\ ViewWritten(Top) /\ GoalChanged(Top)
         /\ Top.goal \in Targets /\ Top.pos \in Nat \ {0} /\ Len(Steps(Top.goal)) \in Nat \ {0}
         /\ Top.pos <= Len(Steps(Top.goal)) =>
              /\ Top.pos \in 1..Len(Steps(Top.goal)) /\ At(Top) \in Targets
              /\ At(Top) \in Walked(Top.goal)
         /\ Current = At(Top)
<1>1. DataTyped /\ StackSound /\ StampsBehindClock
  BY IInvSplit DEF ClockSound
<1>2. Top \in Frame /\ Placed(Top)
  BY <1>1, TopPlaced DEF Justified
<1>3. PICK fr : fr = Top
  OBVIOUS
<1>4. /\ fr.goal \in Targets /\ Len(Steps(fr.goal)) \in Nat \ {0} /\ fr.pos \in Nat \ {0}
      /\ fr.pos <= Len(Steps(fr.goal)) =>
           fr.pos \in 1..Len(Steps(fr.goal)) /\ At(fr) \in Targets /\ At(fr) \in Walked(fr.goal)
  BY <1>2, <1>3, PlacedAt
<1> QED
  BY <1>1, <1>2, <1>3, <1>4 DEF Justified, Current, At

(* A goal without prerequisites is all that is walked for it. *)
LEMMA AloneWalked ==
  ASSUME NEW g \in Targets, Prereqs[g] = {}
  PROVE  Len(Steps(g)) = 1 /\ Steps(g)[1] = g
BY DEF Steps

LEMMA SkipJustified ==
  ASSUME IInv, Justified, Skip
  PROVE  Justified'
<1>1. /\ frames # <<>> /\ Top.mode = "loop" /\ Top.pos <= Len(Steps(Top.goal))
      /\ UpToDate(At(Top)) /\ Prereqs[At(Top)] # {}
      /\ UNCHANGED <<stale, view, tgt, factStamp, txid, txActive, staleSaved, saved, store>>
  BY DEF Skip, More, InLoop, history, txVars, Current, At, UpToDate
<1>2. /\ StackSound /\ Top \in Frame /\ Placed(Top) /\ ViewWritten(Top)
      /\ Top.goal \in Targets /\ Top.pos \in 1..Len(Steps(Top.goal))
      /\ Len(Steps(Top.goal)) \in Nat
  BY <1>1, TopJustified
<1>3. PICK top : top = Top
  OBVIOUS
<1>4. PICK fr : fr = [top EXCEPT !.pos = @ + 1]
  OBVIOUS
<1>5. fr \in Frame /\ fr.goal = top.goal /\ fr.pos = top.pos + 1 /\ fr.mode = "loop"
  BY <1>1, <1>2, <1>3, <1>4 DEF Frame
<1>6. frames' = Replace(fr)
  BY <1>3, <1>4 DEF Skip
<1>7. Placed(fr)
  <2>1. fr.pos \in 1..(Len(Steps(fr.goal)) + 1)
    BY <1>2, <1>3, <1>5
  <2> QED
    BY <1>2, <1>3, <1>5, <2>1 DEF Placed
<1>8. Places' /\ frames' # <<>> /\ Top' = fr /\ \A t : Below(t)' <=> Below(t)
  BY <1>1, <1>2, <1>3, <1>5, <1>6, <1>7, MovedPlaces DEF Justified
<1>9. ViewWritten(fr)'
  BY <1>1, <1>2, <1>3, <1>5, StillWritten
<1>10. GoalChanged(fr)'
  <2>1. Prereqs[top.goal] # {}
    <3>1. Prereqs[top.goal] = {} => At(top) = top.goal
      BY <1>2, <1>3, AloneWalked DEF At
    <3> QED
      BY <1>1, <1>3, <3>1
  <2> QED
    BY <1>5, <2>1 DEF GoalChanged
<1>11. \A t \in Targets : (Busy(t)' <=> Busy(t)) /\ (ViewChanged(t)' <=> ViewChanged(t))
                          /\ (YoungerChanged(t)' <=> YoungerChanged(t))
  BY <1>1, <1>5, <1>8 DEF Busy, ViewChanged, YoungerChanged, StampOf
<1>12. ~Exits' /\ ~Exits
  BY <1>1, <1>5, <1>8 DEF Exits
<1>13. RestorableChanged'
  BY <1>1, SameRestorable DEF Justified
<1> QED
  BY <1>8, <1>9, <1>10, <1>11, <1>12, <1>13 DEF Justified

LEMMA RunJustified ==
  ASSUME Economical, IInv, Justified, RunActions
  PROVE  Justified'
<1>1. /\ frames # <<>> /\ Top.mode = "loop" /\ Top.pos <= Len(Steps(Top.goal))
      /\ UNCHANGED <<view, tgt, factStamp, txid, txActive, staleSaved, saved, store>>
  BY DEF RunActions, More, InLoop, txVars
<1>2. /\ DataTyped /\ StackSound /\ Top \in Frame /\ Placed(Top) /\ ViewWritten(Top)
      /\ Top.goal \in Targets /\ Top.pos \in 1..Len(Steps(Top.goal)) /\ At(Top) \in Targets
      /\ Current = At(Top)
  BY <1>1, TopJustified
<1>3. PICK top : top = Top
  OBVIOUS
<1>4. PICK fr : fr = [top EXCEPT !.mode = "run"]
  OBVIOUS
<1>5. fr \in Frame /\ fr.goal = top.goal /\ fr.pos = top.pos /\ fr.mode = "run"
  BY <1>2, <1>3, <1>4 DEF Frame
<1>6. frames' = Replace(fr)
  BY <1>3, <1>4 DEF RunActions
<1>7. Placed(fr)
  BY <1>1, <1>2, <1>3, <1>5 DEF Placed
<1>8. Places' /\ frames' # <<>> /\ Top' = fr /\ \A t : Below(t)' <=> Below(t)
  BY <1>1, <1>2, <1>3, <1>5, <1>6, <1>7, MovedPlaces DEF Justified
<1>9. ViewWritten(fr)'
  BY <1>1, <1>2, <1>3, <1>5, StillWritten
<1>10. GoalChanged(fr)'
  BY <1>5 DEF GoalChanged
<1>11. \A t \in Targets : stale'[t] = IF t = At(top) THEN {} ELSE stale[t]
  <2>1. stale' = [stale EXCEPT ![At(top)] = {}]
    BY <1>2, <1>3 DEF RunActions
  <2> QED
    BY <1>2, <2>1 DEF DataTyped
<1>12. ASSUME NEW t \in Targets PROVE Busy(t)' \/ YoungerChanged(t)'
  <2>1. CASE t = At(top)
    <3>1. At(fr) = t
      BY <1>5, <2>1 DEF At
    <3> QED
      BY <1>5, <1>8, <3>1 DEF Busy, At
  <2>2. CASE t # At(top)
    <3>1. stale'[t] = stale[t]
      BY <1>11, <2>2
    <3>2. Busy(t) => Busy(t)'
      BY <1>1, <1>8 DEF Busy
    <3>3. Busy(t) \/ YoungerChanged(t)
      BY <1>1 DEF Justified, Exits
    <3> QED
      BY <1>1, <3>1, <3>2, <3>3, SameYounger
  <2> QED
    BY <2>1, <2>2
<1>13. ASSUME NEW t \in Targets PROVE ViewChanged(t)'
  <2>1. ViewChanged(t)
    BY DEF Justified
  <2>2. CASE t # At(top)
    BY <1>1, <1>11, <2>1, <2>2 DEF ViewChanged
  <2>3. CASE t = At(top)
    <3>1. ASSUME NEW f \in view, f \in Prereqs[t] PROVE FALSE
      <4>1. PICK i \in 1..Len(Steps(top.goal)) :
              /\ i <= top.pos /\ i # top.pos
              /\ \E u \in Within(Steps(top.goal)[i]) : f \in Writes[u]
        BY <1>1, <1>2, <1>3 DEF ViewWritten
      <4>2. i < top.pos
        BY <1>2, <1>3, <4>1
      <4>3. \A u \in Within(Steps(top.goal)[i]) : Prereqs[Steps(top.goal)[top.pos]] \cap Writes[u] = {}
        BY <1>2, <1>3, <4>2 DEF Economical
      <4> QED
        BY <2>3, <3>1, <4>1, <4>3 DEF At
    <3> QED
      BY <1>1, <3>1 DEF ViewChanged
  <2> QED
    BY <2>2, <2>3
<1>14. ~Exits'
  BY <1>5, <1>8 DEF Exits
<1>15. RestorableChanged'
  BY <1>1, SameRestorable DEF Justified
<1> QED
  BY <1>8, <1>9, <1>10, <1>12, <1>13, <1>14, <1>15 DEF Justified

LEMMA DoneJustified ==
  ASSUME IInv, Justified, ActionsDone
  PROVE  Justified'
<1>1. /\ frames # <<>> /\ Top.mode = "run"
      /\ UNCHANGED <<view, factStamp, txid, txActive, staleSaved, saved, store>>
  BY DEF ActionsDone, Running, txVars
<1>2. /\ DataTyped /\ StackSound /\ StampsBehindClock /\ Top \in Frame /\ Placed(Top)
      /\ ViewWritten(Top) /\ Top.goal \in Targets /\ Len(Steps(Top.goal)) \in Nat
      /\ Top.pos <= Len(Steps(Top.goal)) /\ Top.pos \in 1..Len(Steps(Top.goal))
      /\ At(Top) \in Targets /\ Current = At(Top)
  BY <1>1, TopJustified DEF Placed
<1>3. PICK top : top = Top
  OBVIOUS
<1>4. PICK fr : fr = [top EXCEPT !.mode = "loop", !.pos = @ + 1]
  OBVIOUS
<1>5. /\ fr \in Frame /\ fr.goal = top.goal /\ fr.pos = top.pos + 1 /\ fr.mode = "loop"
  <2>1. PICK m : m = [top EXCEPT !.mode = "loop"]
    OBVIOUS
  <2>2. m \in Frame /\ m.goal = top.goal /\ m.pos = top.pos /\ m.mode = "loop"
    BY <1>2, <1>3, <2>1 DEF Frame
  <2>3. fr = [m EXCEPT !.pos = @ + 1]
    BY <1>2, <1>3, <1>4, <2>1 DEF Frame
  <2> QED
    BY <2>2, <2>3 DEF Frame
<1>6. frames' = Replace(fr)
  BY <1>3, <1>4 DEF ActionsDone
<1>7. Placed(fr)
  <2>1. fr.pos \in 1..(Len(Steps(fr.goal)) + 1)
    BY <1>2, <1>3, <1>5
  <2> QED
    BY <1>2, <1>3, <1>5, <2>1 DEF Placed
<1>8. Places' /\ frames' # <<>> /\ Top' = fr /\ \A t : Below(t)' <=> Below(t)
  BY <1>1, <1>2, <1>3, <1>5, <1>6, <1>7, MovedPlaces DEF Justified
<1>9. ViewWritten(fr)'
  BY <1>1, <1>2, <1>3, <1>5, StillWritten
<1>10. PICK c \in Targets : c = At(Top)
  BY <1>2
<1>11. tgt' = Stamped(c) /\ stale' = Changed(stale, c)
  BY <1>2, <1>10 DEF ActionsDone
<1>12. \A t \in Targets : stale[t] \subseteq stale'[t] /\ (c \in Prereqs[t] => c \in stale'[t])
  BY <1>11 DEF Changed
<1>13. GoalChanged(fr)'
  <2>1. Prereqs[top.goal] = {} => c = top.goal
    BY <1>2, <1>3, <1>10, AloneWalked DEF At
  <2> QED
    BY <1>5, <1>12, <2>1 DEF GoalChanged
<1>14. ASSUME NEW t \in Targets PROVE Busy(t)' \/ YoungerChanged(t)'
  <2>1. Busy(t) \/ YoungerChanged(t)
    BY <1>1 DEF Justified, Exits
  <2>2. Busy(t) => Busy(t)' \/ t = c
    BY <1>8, <1>10 DEF Busy
  <2>3. t = c \/ YoungerChanged(t) => YoungerChanged(t)'
    BY <1>1, <1>2, <1>11, <1>12, StampedYounger
  <2> QED
    BY <2>1, <2>2, <2>3
<1>15. \A t \in Targets : ViewChanged(t)'
  BY <1>1, <1>12 DEF Justified, ViewChanged
<1>16. ~Exits'
  BY <1>5, <1>8 DEF Exits
<1>17. RestorableChanged'
  BY <1>1, <1>2, <1>11, StampedRestorable DEF Justified
<1> QED
  BY <1>8, <1>9, <1>13, <1>14, <1>15, <1>16, <1>17 DEF Justified

(* What happens within actions and leaves the call stack as it is. *)
LEMMA SameCall ==
  ASSUME Places, frames' = frames
  PROVE  Places' /\ (Exits' <=> Exits) /\ Top' = Top /\ \A t : Busy(t)' <=> Busy(t)
BY DEF Places, CallersWait, Placed, At, Top, Exits, Busy, Below

LEMMA WriteJustified ==
  ASSUME Economical, IInv, Justified, NEW f \in Facts, NEW v \in Values, Write(f, v)
  PROVE  Justified'
<1>1. /\ frames # <<>> /\ Top.mode = "run" /\ frames' = frames /\ Assign(f, v)
      /\ UNCHANGED <<tgt, factStamp, txid, txActive, staleSaved, saved>>
  BY DEF Write, Running, txVars
<1>2. /\ DataTyped /\ Placed(Top) /\ ViewWritten(Top) /\ At(Top) \in Targets
      /\ Top.pos \in 1..Len(Steps(Top.goal)) /\ f \in Writes[At(Top)]
  BY <1>1, TopJustified DEF Placed, Write
<1>3. Places' /\ ~Exits' /\ Top' = Top /\ \A t : Busy(t)' <=> Busy(t)
  BY <1>1, SameCall DEF Justified, Exits
<1>4. PICK c \in Targets : c = At(Top)
  BY <1>2
<1>5. ASSUME NEW t \in Targets PROVE stale[t] \subseteq stale'[t] /\ ViewChanged(t)'
  BY <1>1, <1>2, AssignChanged DEF Justified
<1>6. ASSUME NEW t \in Targets PROVE Busy(t)' \/ YoungerChanged(t)'
  <2>1. Busy(t) \/ YoungerChanged(t)
    BY <1>1 DEF Justified, Exits
  <2>2. YoungerChanged(t) => YoungerChanged(t)'
    BY <1>1, <1>5, SameYounger
  <2> QED
    BY <1>3, <2>1, <2>2
<1>7. PICK top : top = Top
  OBVIOUS
<1>8. ViewWritten(top)'
  <2>1. ASSUME NEW g \in view'
        PROVE  \E i \in 1..Len(Steps(top.goal)) :
                 /\ i <= top.pos /\ (top.mode = "loop" => i # top.pos)
                 /\ \E u \in Within(Steps(top.goal)[i]) : g \in Writes[u]
    <3>1. g \in view \/ g = f
      BY <1>1 DEF Assign
    <3>2. CASE g \in view
      BY <1>2, <1>7, <3>2 DEF ViewWritten
    <3>3. CASE g = f
      <4>1. At(top) \in Within(At(top)) /\ top.pos <= top.pos
        BY <1>2, <1>7 DEF Within
      <4> QED
        BY <1>1, <1>2, <1>7, <3>3, <4>1 DEF At
    <3> QED
      BY <3>1, <3>2, <3>3
  <2> QED
    BY <2>1 DEF ViewWritten
<1>9. GoalChanged(top)'
  BY <1>1, <1>7 DEF GoalChanged
<1>10. RestorableChanged'
  BY <1>1, <1>2, <1>4, AssignRestorable DEF Justified
<1> QED
  BY <1>3, <1>5, <1>6, <1>7, <1>8, <1>9, <1>10 DEF Justified

LEMMA FailJustified ==
  ASSUME IInv, Justified, NEW s \in {"failure", "error"}, ActionsFail(s)
  PROVE  Justified'
<1>1. /\ frames # <<>> /\ Top.mode = "run" /\ Fails # {}
      /\ UNCHANGED <<stale, view, tgt, factStamp, txid, txActive, staleSaved, saved, store>>
  BY DEF ActionsFail, Running, txVars
<1>2. /\ StackSound /\ Top \in Frame /\ Placed(Top) /\ ViewWritten(Top) /\ Top.pos \in Nat
  BY <1>1, TopJustified
<1>3. PICK top : top = Top
  OBVIOUS
<1>4. PICK fr : fr = [top EXCEPT !.mode = "exit", !.status = s]
  OBVIOUS
<1>5. fr \in Frame /\ fr.goal = top.goal /\ fr.pos = top.pos /\ fr.mode = "exit"
  BY <1>2, <1>3, <1>4 DEF Frame, Status
<1>6. frames' = Replace(fr)
  BY <1>3, <1>4 DEF ActionsFail
<1>7. Placed(fr)
  BY <1>1, <1>2, <1>3, <1>5 DEF Placed
<1>8. Places' /\ frames' # <<>> /\ Top' = fr
  BY <1>1, <1>2, <1>3, <1>5, <1>6, <1>7, MovedPlaces DEF Justified
<1>9. ViewWritten(fr)'
  BY <1>1, <1>2, <1>3, <1>5, StillWritten
<1>10. GoalChanged(fr)' /\ Exits'
  BY <1>5, <1>8 DEF GoalChanged, Exits
<1>11. \A t \in Targets : ViewChanged(t)'
  BY <1>1 DEF Justified, ViewChanged
<1>12. RestorableChanged'
  BY <1>1, SameRestorable DEF Justified
<1> QED
  BY <1>1, <1>8, <1>9, <1>10, <1>11, <1>12 DEF Justified

LEMMA ScopesJustified ==
  ASSUME IInv, Justified, OpenCall \/ CloseCall
  PROVE  Justified'
<1>1. /\ frames # <<>> /\ frames' = frames
      /\ UNCHANGED <<stale, view, tgt, factStamp, txid, txActive, staleSaved, saved, store>>
  BY DEF OpenCall, CloseCall, Running, txVars, history
<1>2. Places' /\ (Exits' <=> Exits) /\ Top' = Top /\ \A t : Busy(t)' <=> Busy(t)
  BY <1>1, SameCall DEF Justified
<1>3. PICK top : top = Top
  OBVIOUS
<1>4. ViewWritten(top)' /\ GoalChanged(top)'
  BY <1>1, <1>3 DEF Justified, ViewWritten, GoalChanged
<1>5. \A t \in Targets : (YoungerChanged(t) => YoungerChanged(t)') /\ ViewChanged(t)'
  BY <1>1 DEF Justified, YoungerChanged, StampOf, ViewChanged
<1>6. RestorableChanged'
  BY <1>1, SameRestorable DEF Justified
<1> QED
  BY <1>2, <1>3, <1>4, <1>5, <1>6 DEF Justified

(* The view is empty after the facts in it have been stamped. *)
LEMMA EnteredJustified ==
  ASSUME DataTyped, StampsBehindClock, Justified, ~Exits, StoreCheck(stamp + 1),
         UNCHANGED <<tgt, stale>>, \A t : Busy(t) => Busy(t)'
  PROVE  /\ \A t \in Targets : Busy(t)' \/ YoungerChanged(t)'
         /\ \A t \in Targets : ViewChanged(t)'
         /\ \A fr : ViewWritten(fr)'
<1>1. view' = {}
  BY DEF StoreCheck
<1>2. ASSUME NEW t \in Targets PROVE Busy(t)' \/ YoungerChanged(t)'
  <2>1. (Busy(t) \/ YoungerChanged(t)) /\ ViewChanged(t)
    BY DEF Justified
  <2> QED
    BY <2>1, CheckedYounger
<1>3. \A t \in Targets : ViewChanged(t)'
  BY <1>1 DEF ViewChanged
<1>4. \A fr : ViewWritten(fr)'
  BY <1>1 DEF ViewWritten
<1> QED
  BY <1>2, <1>3, <1>4

LEMMA CallJustified ==
  ASSUME IInv, Justified, NEW g \in Targets, CallResolve(g)
  PROVE  Justified'
<1>0. DataTyped /\ StackSound /\ StampsBehindClock /\ TransactionOwner
  BY IInvSplit DEF ClockSound, StackSound
<1>1. /\ frames # <<>> /\ Top.mode = "run" /\ txActive /\ ~OwnTx
  BY <1>0 DEF CallResolve, Running, TransactionOwner, OwnTx
<1>2. /\ Top \in Frame /\ Placed(Top) /\ At(Top) \in Targets /\ Current = At(Top)
      /\ g \in Resolves[At(Top)] /\ scope \in Nat
  BY <1>0, <1>1, TopJustified DEF Placed, CallResolve, StackSound
<1>3. /\ StoreCheck(stamp + 1) /\ txActive' = TRUE
      /\ UNCHANGED <<tgt, stale, store, txid, staleSaved, saved>>
  BY <1>1 DEF CallResolve, Enter
<1>4. PICK top : top = Top
  OBVIOUS
<1>5. PICK caller : caller = [top EXCEPT !.mode = "call"]
  OBVIOUS
<1>6. caller \in Frame /\ caller.goal = top.goal /\ caller.pos = top.pos /\ caller.mode = "call"
  BY <1>2, <1>4, <1>5 DEF Frame
<1>7. PICK fr : fr = [goal |-> g, pos |-> 1, mode |-> "loop", own |-> FALSE,
                      locals |-> FALSE, base |-> scope, status |-> "success"]
  OBVIOUS
<1>8. fr \in Frame /\ fr.goal = g /\ fr.pos = 1 /\ fr.mode = "loop"
  BY <1>2, <1>7 DEF Frame, Status
<1>9. frames' = Append(Replace(caller), fr)
  BY <1>0, <1>1, <1>4, <1>5, <1>7 DEF CallResolve, Enter, OwnTx, DataTyped
<1>10. Placed(fr)
  <2>1. g \in Resolved /\ Len(Steps(g)) \in Nat
    BY <1>2, StepTargets DEF Resolved
  <2>2. 1 \in 1..(Len(Steps(g)) + 1)
    BY <2>1
  <2> QED
    BY <1>8, <2>1, <2>2 DEF Placed
<1>11. Places' /\ frames' # <<>> /\ Top' = fr /\ \A t : Busy(t)' <=> Busy(t)
  BY <1>0, <1>1, <1>2, <1>4, <1>6, <1>8, <1>9, <1>10, PushedPlaces DEF Justified
<1>12. ~Exits /\ ~Exits'
  BY <1>1, <1>8, <1>11 DEF Exits
<1>13. /\ \A t \in Targets : Busy(t)' \/ YoungerChanged(t)'
       /\ \A t \in Targets : ViewChanged(t)'
       /\ \A x : ViewWritten(x)'
  BY <1>0, <1>3, <1>11, <1>12, EnteredJustified
<1>14. GoalChanged(fr)'
  BY <1>8 DEF GoalChanged
<1>15. RestorableChanged'
  <2>1. ASSUME Fails # {} PROVE UNCHANGED <<view, factStamp>>
    <3>1. view = {}
      BY <1>1, <2>1 DEF Justified, RestorableChanged
    <3>2. factStamp' = [f \in Facts |-> factStamp[f]] /\ view' = {}
      BY <1>3, <3>1 DEF StoreCheck
    <3> QED
      BY <1>0, <3>1, <3>2 DEF DataTyped
  <2>2. txActive' = txActive
    BY <1>0, <1>1, <1>3 DEF DataTyped
  <2> QED
    BY <1>3, <2>1, <2>2, SameRestorable DEF Justified, RestorableChanged
<1> QED
  BY <1>11, <1>12, <1>13, <1>14, <1>15 DEF Justified

LEMMA InvokeJustified ==
  ASSUME IInv, Justified, NEW g \in Goals, NEW locals \in BOOLEAN, Invoke(g, locals)
  PROVE  Justified'
<1>0. DataTyped /\ StackSound /\ StampsBehindClock /\ TransactionOwner
  BY IInvSplit DEF ClockSound, StackSound
<1>1. frames = <<>> /\ OwnTx /\ g \in Targets /\ g \in Resolved /\ scope \in Nat
  BY <1>0, RulesetAssumption DEF Invoke, StackSound, TransactionOwner, OwnTx, Resolved
<1>2. /\ StoreCheck(stamp + 1) /\ txid' = txid + 1 /\ staleSaved' = stale /\ saved' = store
      /\ txActive' = TRUE /\ UNCHANGED <<tgt, stale, store>>
  BY <1>1 DEF Invoke, Enter
<1>3. PICK base : base = IF locals THEN scope + 1 ELSE scope
  OBVIOUS
<1>4. PICK fr : fr = [goal |-> g, pos |-> 1, mode |-> "loop", own |-> TRUE,
                      locals |-> locals, base |-> base, status |-> "success"]
  OBVIOUS
<1>5. fr \in Frame /\ fr.goal = g /\ fr.pos = 1 /\ fr.mode = "loop"
  <2>1. base \in Nat
    BY <1>1, <1>3
  <2> QED
    BY <1>1, <1>4, <2>1 DEF Frame, Status
<1>6. frames' = Append(<<>>, fr)
  BY <1>1, <1>3, <1>4 DEF Invoke, Enter
<1>7. Placed(fr)
  <2>1. Len(Steps(g)) \in Nat
    BY <1>1, StepTargets
  <2>2. 1 \in 1..(Len(Steps(g)) + 1)
    BY <2>1
  <2> QED
    BY <1>1, <1>5, <2>2 DEF Placed
<1>8. Places' /\ frames' # <<>> /\ Top' = fr
  BY <1>5, <1>6, <1>7, BegunPlaces
<1>9. \A t : ~Busy(t)
  BY <1>1, EmptySeq DEF Busy, Below
<1>10. ~Exits /\ ~Exits'
  BY <1>1, <1>5, <1>8 DEF Exits
<1>11. /\ \A t \in Targets : ViewChanged(t)'
       /\ \A x : ViewWritten(x)'
  BY <1>0, <1>2, <1>9, <1>10, EnteredJustified
<1>12. ASSUME NEW t \in Targets PROVE YoungerChanged(t)'
  <2>1. YoungerChanged(t) /\ ViewChanged(t)
    BY <1>9, <1>10 DEF Justified
  <2> QED
    BY <1>0, <1>2, <2>1, CheckedYounger
<1>13. GoalChanged(fr)'
  BY <1>5 DEF GoalChanged
<1>14. RestorableChanged'
  <2>1. ASSUME NEW u \in Targets PROVE CommittedStamp(u)' = tgt'[u].stamp
    <3>1. tgt[u].txid \in Nat /\ tgt[u].txid <= txid /\ txid \in Nat
      BY <1>0, StampTypes DEF StampsBehindClock
    <3>2. tgt'[u].txid # txid'
      BY <1>2, <3>1
    <3> QED
      BY <3>2 DEF CommittedStamp
  <2>2. ASSUME NEW t \in Targets, NEW p \in Prereqs[t], CommittedOf(p)' > CommittedStamp(t)'
        PROVE  p \in stale'[t]
    <3>1. p \in Facts \/ p \in Targets
      BY <1>0, PrereqStamps
    <3>2. CommittedOf(p)' = StampOf(p)'
      BY <2>1, <3>1 DEF CommittedOf, StampOf
    <3>3. StampOf(p)' > tgt'[t].stamp
      BY <2>1, <2>2, <3>2
    <3> QED
      BY <1>12, <3>3 DEF YoungerChanged
  <2>3. view' = {}
    BY <1>2 DEF StoreCheck
  <2>4. staleSaved' = stale' /\ \A f \in Tracked : store'[f] = saved'[f]
    BY <1>2
  <2> QED
    BY <2>2, <2>3, <2>4 DEF RestorableChanged, Tracked
<1> QED
  BY <1>8, <1>10, <1>11, <1>12, <1>13, <1>14 DEF Justified

(* The goal of the innermost call is stamped: what depends on it has seen  *)
(* it change before.                                                       *)
LEMMA GoalStampedJustified ==
  ASSUME Economical, IInv, Justified, InLoop, ~More, tgt' = Stamped(Top.goal),
         UNCHANGED <<factStamp, txid, stale>>,
         ~txActive' \/ UNCHANGED <<txActive, staleSaved, view, store, saved>>
  PROVE  /\ \A t \in Targets : Below(t) \/ YoungerChanged(t)'
         /\ RestorableChanged'
<1>1. frames # <<>> /\ Top.mode = "loop" /\ ~(Top.pos <= Len(Steps(Top.goal)))
  BY DEF InLoop, More
<1>2. /\ DataTyped /\ StampsBehindClock /\ Placed(Top) /\ GoalChanged(Top) /\ Top.goal \in Targets
      /\ Top.pos \in Nat \ {0} /\ Len(Steps(Top.goal)) \in Nat \ {0}
  BY <1>1, TopJustified
<1>3. PICK c \in Targets : c = Top.goal
  BY <1>2
<1>4. \A t \in Targets : c \in Prereqs[t] => c \in stale[t]
  <2>1. c \in Resolved
    BY <1>2, <1>3 DEF Placed
  <2>2. Prereqs[c] = {} \/ \A t \in Targets : c \notin Prereqs[t]
    BY <2>1 DEF Economical
  <2>3. Top.pos # 1
    BY <1>1, <1>2
  <2> QED
    BY <1>1, <1>2, <1>3, <2>2, <2>3 DEF GoalChanged
<1>5. ASSUME NEW t \in Targets PROVE Below(t) \/ YoungerChanged(t)'
  <2>1. Below(t) \/ YoungerChanged(t)
    BY <1>1 DEF Justified, Exits, Busy
  <2> QED
    BY <1>2, <1>3, <1>4, <2>1, StampedYounger
<1>6. RestorableChanged'
  BY <1>2, <1>3, StampedRestorable DEF Justified
<1> QED
  BY <1>5, <1>6

(* No call is active. *)
LEMMA EndedJustified ==
  ASSUME frames' = <<>>, \A t \in Targets : YoungerChanged(t)' /\ ViewChanged(t)', ~txActive'
  PROVE  Justified'
<1>1. Places' /\ ~Exits'
  BY EmptySeq DEF Places, CallersWait, Exits
<1>2. RestorableChanged'
  BY DEF RestorableChanged
<1> QED
  BY <1>1, <1>2 DEF Justified

LEMMA CommitJustified ==
  ASSUME Economical, IInv, Justified, GoalCommits
  PROVE  Justified'
<1>0. DataTyped /\ StackSound
  BY IInvSplit
<1>1. /\ InLoop /\ ~More /\ frames # <<>> /\ Top.own /\ tgt' = Stamped(Top.goal)
      /\ UNCHANGED <<factStamp, txid, stale, view>> /\ txActive' = FALSE /\ frames' = Popped
  BY DEF GoalCommits, InLoop, Commit, ReturnOutermost
<1>2. \A t \in Targets : Below(t) \/ YoungerChanged(t)'
  BY <1>1, GoalStampedJustified
<1>3. \A t : ~Below(t)
  <2>1. Len(frames) \in Nat \ {0}
    BY <1>0, <1>1, TopFrame DEF StackSound
  <2>2. Len(frames) \in 1..Len(frames)
    BY <2>1
  <2>3. frames[Len(frames)].own <=> Len(frames) = 1
    BY <1>0, <2>2 DEF StackSound, TransactionOwner
  <2>4. Len(frames) = 1
    BY <1>1, <2>3 DEF Top
  <2> QED
    BY <2>4 DEF Below
<1>4. frames' = <<>>
  BY <1>0, <1>1, NothingLeft
<1>5. \A t \in Targets : ViewChanged(t)'
  BY <1>1 DEF Justified, ViewChanged
<1> QED
  BY <1>1, <1>2, <1>3, <1>4, <1>5, EndedJustified

LEMMA ReturnJustified ==
  ASSUME Economical, IInv, Justified, GoalReturns
  PROVE  Justified'
<1>1. /\ InLoop /\ ~More /\ frames # <<>> /\ ~Top.own /\ tgt' = Stamped(Top.goal)
      /\ UNCHANGED <<factStamp, txid, stale, view, txActive, staleSaved, store, saved>>
      /\ Return("success")
  BY DEF GoalReturns, InLoop, txVars, history
<1>2. /\ StackSound /\ Placed(Top) /\ ViewWritten(Top)
  BY <1>1, TopJustified
<1>3. (\A t \in Targets : Below(t) \/ YoungerChanged(t)') /\ RestorableChanged'
  BY <1>1, GoalStampedJustified
<1>4. /\ Places' /\ frames' # <<>> /\ Top'.mode = "run"
      /\ Placed(Top)' /\ Walked(Top.goal) \subseteq Inside(At(Top)')
      /\ \A t : Busy(t)' <=> Below(t)
  BY <1>1, <1>2, ReturnedPlaces DEF Justified, Status
<1>5. PICK fr, to : fr = Top /\ to = Top'
  OBVIOUS
<1>6. Placed(to) /\ Walked(fr.goal) \subseteq Inside(At(to)) /\ to.mode = "run"
  BY <1>4, <1>5 DEF Placed, At
<1>7. ViewWritten(to)'
  BY <1>1, <1>2, <1>5, <1>6, WrittenInside
<1>8. GoalChanged(to)' /\ ~Exits'
  BY <1>4, <1>6 DEF GoalChanged, Exits
<1>9. \A t \in Targets : ViewChanged(t)'
  BY <1>1 DEF Justified, ViewChanged
<1> QED
  BY <1>3, <1>4, <1>5, <1>7, <1>8, <1>9 DEF Justified

LEMMA FailsJustified ==
  ASSUME IInv, FailureSound, Justified, GoalFails
  PROVE  Justified'
<1>1. /\ frames # <<>> /\ ~Top.own /\ Top.mode = "exit" /\ Return(Top.status)
      /\ UNCHANGED <<tgt, factStamp, txid, stale, view, txActive, staleSaved, store, saved>>
  BY DEF GoalFails, Exiting, txVars, history
<1>2. StackSound /\ Top \in Frame /\ Placed(Top) /\ ViewWritten(Top)
  BY <1>1, TopJustified
<1>3. PICK s \in Status : s = Top.status /\ s # "success"
  BY <1>1, <1>2 DEF Frame, FailureSound
<1>4. Return(s)
  BY <1>1, <1>3
<1>5. /\ Places' /\ frames' # <<>> /\ Top'.mode = "exit"
      /\ Placed(Top)' /\ Walked(Top.goal) \subseteq Inside(At(Top)')
  BY <1>1, <1>2, <1>3, <1>4, ReturnedPlaces DEF Justified
<1>6. PICK fr, to : fr = Top /\ to = Top'
  OBVIOUS
<1>7. Placed(to) /\ Walked(fr.goal) \subseteq Inside(At(to)) /\ to.mode = "exit"
  BY <1>5, <1>6 DEF Placed, At
<1>8. ViewWritten(to)'
  BY <1>1, <1>2, <1>6, <1>7, WrittenInside
<1>9. GoalChanged(to)' /\ Exits' /\ Exits
  BY <1>1, <1>5, <1>7 DEF GoalChanged, Exits
<1>10. \A t \in Targets : ViewChanged(t)'
  BY <1>1 DEF Justified, ViewChanged
<1>11. RestorableChanged'
  BY <1>1, SameRestorable DEF Justified
<1> QED
  BY <1>5, <1>6, <1>8, <1>9, <1>10, <1>11 DEF Justified

LEMMA RollBackJustified ==
  ASSUME IInv, Justified, GoalRollsBack
  PROVE  Justified'
<1>0. DataTyped /\ StackSound /\ TransactionOwner
  BY IInvSplit DEF StackSound
<1>1. /\ frames # <<>> /\ Top.own /\ Exits /\ txActive /\ Rollback
      /\ UNCHANGED <<factStamp, txid>> /\ frames' = Popped
  BY <1>0 DEF GoalRollsBack, Exiting, Exits, ReturnOutermost, TransactionOwner
<1>2. Fails # {}
  BY <1>1 DEF Justified
<1>3. /\ view = {} /\ \A f \in Tracked : store[f] = saved[f]
      /\ \A t \in Targets : \A p \in Prereqs[t] :
           CommittedOf(p) > CommittedStamp(t) => p \in staleSaved[t]
  BY <1>1, <1>2 DEF Justified, RestorableChanged
<1>4. /\ tgt' = StampsRolledBack /\ txActive' = FALSE /\ stale' = staleSaved
      /\ view' \subseteq view \cup Restored
  BY <1>1 DEF Rollback
<1>5. view' = {}
  <2>1. Restored = {}
    BY <1>3 DEF Restored
  <2> QED
    BY <1>3, <1>4, <2>1
<1>6. ASSUME NEW t \in Targets PROVE tgt'[t].stamp = CommittedStamp(t)
  <2>1. tgt[t] \in TargetStamp
    BY <1>0 DEF DataTyped
  <2> QED
    BY <1>1, <1>4, <2>1 DEF StampsRolledBack, CommittedStamp, TargetStamp
<1>7. ASSUME NEW t \in Targets, NEW p \in Prereqs[t], StampOf(p)' > tgt'[t].stamp
      PROVE  p \in stale'[t]
  <2>1. p \in Facts \/ p \in Targets
    BY RulesetAssumption
  <2>2. StampOf(p)' = CommittedOf(p)
    BY <1>1, <1>6, <2>1 DEF StampOf, CommittedOf
  <2> QED
    BY <1>3, <1>4, <1>6, <1>7, <2>2
<1>8. \A t \in Targets : YoungerChanged(t)' /\ ViewChanged(t)'
  BY <1>5, <1>7 DEF YoungerChanged, ViewChanged
<1>9. frames' = <<>>
  BY <1>0, <1>1, NothingLeft
<1> QED
  BY <1>4, <1>8, <1>9, EndedJustified

LEMMA JustifiedStep ==
  Economical /\ IInv /\ FailureSound /\ Justified /\ [Next]_vars => Justified'
<1> SUFFICES ASSUME Economical, IInv, FailureSound, Justified, [Next]_vars PROVE Justified'
  OBVIOUS
<1>0. DataTyped /\ StampsBehindClock /\ TransactionOwner
  BY IInvSplit DEF ClockSound, StackSound
<1>1. ASSUME frames = <<>>
      PROVE  ~txActive /\ \A t \in Targets : YoungerChanged(t) /\ ViewChanged(t)
  BY <1>0, <1>1, EmptySeq DEF Justified, Exits, Busy, Below, TransactionOwner
<1>2. ASSUME NEW f \in Facts, NEW v \in Values, ExternalChange(f, v) PROVE Justified'
  <2>1. frames = <<>> /\ frames' = frames /\ Assign(f, v)
        /\ UNCHANGED <<tgt, factStamp, txActive>>
    BY <1>2 DEF ExternalChange, txVars
  <2>2. ASSUME NEW t \in Targets PROVE YoungerChanged(t)' /\ ViewChanged(t)'
    <3>1. stale[t] \subseteq stale'[t] /\ ViewChanged(t)'
      BY <1>0, <1>1, <2>1, AssignChanged
    <3> QED
      BY <1>1, <2>1, <3>1, SameYounger
  <2> QED
    BY <1>1, <2>1, <2>2, EndedJustified
<1>3. CASE InvokeRejected
  <2>1. frames = <<>> /\ frames' = frames /\ UNCHANGED <<stale, view, tgt, factStamp, txActive>>
    BY <1>3 DEF InvokeRejected, txVars, history
  <2>2. \A t \in Targets : YoungerChanged(t)' /\ ViewChanged(t)'
    BY <1>1, <2>1 DEF YoungerChanged, ViewChanged, StampOf
  <2> QED
    BY <1>1, <2>1, <2>2, EndedJustified
<1>4. CASE InvokeBadLocals
  <2>1. /\ frames = <<>> /\ frames' = frames /\ StoreCheck(stamp + 1) /\ view' = {}
        /\ UNCHANGED <<tgt, stale, txActive>>
    BY <1>4 DEF InvokeBadLocals, history, StoreCheck
  <2>2. ASSUME NEW t \in Targets PROVE YoungerChanged(t)' /\ ViewChanged(t)'
    <3>1. YoungerChanged(t)'
      BY <1>0, <1>1, <2>1, CheckedYounger
    <3> QED
      BY <2>1, <3>1 DEF ViewChanged
  <2> QED
    BY <1>1, <2>1, <2>2, EndedJustified
<1>5. CASE UNCHANGED vars
  <2>1. UNCHANGED <<frames, stale, view, tgt, factStamp, txid, txActive, staleSaved, saved, store>>
    BY <1>5 DEF vars, txVars, history
  <2>2. Places' /\ (Exits' <=> Exits) /\ Top' = Top /\ \A t : Busy(t)' <=> Busy(t)
    BY <2>1, SameCall DEF Justified
  <2>3. PICK top : top = Top
    OBVIOUS
  <2>4. frames # <<>> => ViewWritten(top)' /\ GoalChanged(top)'
    BY <2>1, <2>3 DEF Justified, ViewWritten, GoalChanged
  <2>5. \A t \in Targets : (YoungerChanged(t) => YoungerChanged(t)') /\ ViewChanged(t)'
    BY <2>1 DEF Justified, YoungerChanged, StampOf, ViewChanged
  <2>6. RestorableChanged'
    BY <2>1, SameRestorable DEF Justified
  <2> QED
    BY <2>1, <2>2, <2>3, <2>4, <2>5, <2>6 DEF Justified
<1> QED
  BY <1>2, <1>3, <1>4, <1>5, SkipJustified, RunJustified, DoneJustified, WriteJustified,
     ScopesJustified, FailJustified, CallJustified, InvokeJustified, CommitJustified,
     ReturnJustified, FailsJustified, RollBackJustified DEF Next, Resolving, Walking

THEOREM JustifiedInductive == Economical => (Spec => [](IInv /\ Justified))
<1> SUFFICES ASSUME Economical PROVE Spec => [](IInv /\ Justified)
  OBVIOUS
<1>1. Init => Justified
  <2> SUFFICES ASSUME Init PROVE Justified
    OBVIOUS
  <2>1. frames = <<>> /\ view = {} /\ ~txActive
    BY DEF Init
  <2>2. ASSUME NEW t \in Targets PROVE YoungerChanged(t)
    <3>1. \A p \in Prereqs[t] : p \in Facts \/ p \in Targets
      BY RulesetAssumption
    <3>2. tgt[t].stamp = 0 /\ \A p \in Prereqs[t] : StampOf(p) = 0
      BY <3>1 DEF Init, StampOf
    <3> QED
      BY <3>2 DEF YoungerChanged
  <2>3. Places /\ ~Exits
    BY <2>1, EmptySeq DEF Places, CallersWait, Exits
  <2> QED
    BY <2>1, <2>2, <2>3 DEF Justified, ViewChanged, RestorableChanged
<1>2. IInv /\ FailureSound /\ Justified /\ [Next]_vars => Justified'
  BY JustifiedStep
<1> QED
  BY <1>1, <1>2, FailureInductive, PTL DEF Spec

(* In an economical ruleset the actions of a target that depends on        *)
(* something never run without need: something it depends on has changed   *)
(* since they last ran (target.c:147-195, dres.c:536-553).                 *)
THEOREM NothingWithoutNeed == Economical => (Spec => NoUnnecessaryUpdate)
<1> SUFFICES ASSUME Economical PROVE Spec => NoUnnecessaryUpdate
  OBVIOUS
<1>1. IInv /\ Justified
        => [\A t \in Targets :
              RunActions /\ t = Current /\ Prereqs[t] # {} => stale[t] # {}]_vars
  <2> SUFFICES ASSUME IInv, Justified, NEW t \in Targets, RunActions, t = Current,
                      Prereqs[t] # {}
               PROVE  stale[t] # {}
    OBVIOUS
  <2>1. frames # <<>> /\ Top.mode = "loop" /\ Top.pos <= Len(Steps(Top.goal)) /\ ~UpToDate(t)
    BY DEF RunActions, More, InLoop
  <2>2. DataTyped /\ StackSound /\ StampsBehindClock /\ t \in Walked(Top.goal)
    BY <2>1, TopJustified
  <2>3. ~Below(t)
    <3>1. Below(t) => t \in Inside(t)
      BY <2>1, <2>2, WalkedInside DEF Justified
    <3> QED
      BY <3>1 DEF Economical
  <2>4. YoungerChanged(t)
    BY <2>1, <2>3 DEF Justified, Exits, Busy
  <2>5. PICK p \in Prereqs[t] : ~(StampOf(p) <= tgt[t].stamp)
    BY <2>1 DEF UpToDate
  <2>6. StampOf(p) > tgt[t].stamp
    BY <2>2, <2>5, PrereqStamps
  <2> QED
    BY <2>4, <2>5, <2>6 DEF YoungerChanged
<1> QED
  BY <1>1, JustifiedInductive, PTL DEF NoUnnecessaryUpdate

-------------------------------------------------------------------------------
(* The scheduling of the goal 'all' on the main loop. *)

(* The typing of update is what tells an id from "no update". *)
SInv == SchedTypeOK /\ OneUpdate /\ OwedIsScheduled

LEMMA SchedInitSound == SchedInit => SInv
  BY DEF SchedInit, SInv, SchedTypeOK, OneUpdate, OwedIsScheduled

(* The handler of the signals keeps or begins exactly one update. *)
LEMMA ScheduleSound ==
  ASSUME SInv, ScheduleResolve
  PROVE  /\ update' \in Sources /\ idle' = {update'}
         /\ running # 0 => UNCHANGED <<update, idle>>
<1>1. CASE update = 0
  BY <1>1, SchedulerAssumption
     DEF SInv, SchedTypeOK, OneUpdate, ScheduleResolve
<1>2. CASE update # 0
  BY <1>2 DEF SInv, SchedTypeOK, OneUpdate, ScheduleResolve
<1> QED
  BY <1>1, <1>2

LEMMA SchedStep == SInv /\ [SchedNext]_allVars => SInv'
<1> SUFFICES ASSUME SInv, [SchedNext]_allVars PROVE SInv'
  OBVIOUS
<1> USE SchedulerAssumption DEF SInv, SchedTypeOK, OneUpdate, OwedIsScheduled
<1>1. ASSUME NEW f \in Facts, NEW v \in Values, PluginChanges(f, v) PROVE SInv'
  <2>1. running = 0 /\ running' = 0 /\ owed' = owed \cup {f}
    BY <1>1 DEF PluginChanges, Free
  <2>2. update' \in Sources /\ idle' = {update'}
    BY <1>1, ScheduleSound DEF PluginChanges
  <2> QED
    BY <2>1, <2>2
<1>2. ASSUME NEW f \in Facts, NEW v \in Values, ActionChanges(f, v) PROVE SInv'
  <2>1. running' = running /\ owed' = IF running = 0 THEN owed \cup {f} ELSE owed
    BY <1>2 DEF ActionChanges
  <2>2. /\ update' \in Sources /\ idle' = {update'}
        /\ running # 0 => UNCHANGED <<update, idle>>
    BY <1>2, ScheduleSound DEF ActionChanges
  <2> QED
    BY <2>1, <2>2
<1>3. CASE RollBack
  <2>1. running' = running /\ owed' = owed
    BY <1>3 DEF RollBack
  <2>2. CASE ScheduleResolve
    BY <2>1, <2>2, ScheduleSound
  <2>3. CASE UNCHANGED <<update, idle>>
    BY <2>1, <2>3
  <2> QED
    BY <1>3, <2>2, <2>3 DEF RollBack
<1>4. ASSUME NEW id \in Sources, Dispatch(id) PROVE SInv'
  BY <1>4 DEF Dispatch
<1>5. CASE UpdateDone
  <2>1. owed' = {} /\ update' = 0 /\ idle' = {} /\ running' = 0
    BY <1>5 DEF UpdateDone, Reset
  <2> QED
    BY <2>1
<1>6. ASSUME UNCHANGED scheduling PROVE SInv'
  BY <1>6 DEF scheduling
<1> QED
  BY <1>1, <1>2, <1>3, <1>4, <1>5, <1>6
     DEF SchedNext, PluginResolves, PluginRejected, Continue, allVars

THEOREM SchedInductive == SchedSpec => []SInv
  BY SchedInitSound, SchedStep, PTL DEF SchedSpec

(* At most one update of 'all' is queued or running, and update is its id, *)
(* whatever signals arrive while it is queued, while it runs and while     *)
(* other goals are resolved (factstore.c:95, 110-112).                     *)
THEOREM OneUpdateHolds == SchedSpec => []OneUpdate
<1>1. SInv => OneUpdate
  BY DEF SInv
<1> QED
  BY <1>1, SchedInductive, PTL

(* No fact changed outside update_all is forgotten: an update of 'all'     *)
(* that has not begun is queued behind the change.                         *)
THEOREM OwedHolds == SchedSpec => []OwedIsScheduled
<1>1. SInv => OwedIsScheduled
  BY DEF SInv
<1> QED
  BY <1>1, SchedInductive, PTL
================================================================================
