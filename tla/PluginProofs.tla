------------------------------ MODULE PluginProofs ------------------------------
(***************************************************************************)
(* Theorems about the plugin: module Handlers, for any rules, callbacks    *)
(* and requests; module Console, for any commands and plugins; and what    *)
(* the console leaves of the handlers.                                     *)
(***************************************************************************)
EXTENDS Console, FiniteSetTheorems, WellFoundedInduction, TLAPS

(* The cache holds rules that the engine has, with their ids. *)
RulesCached ==
  \A r \in Rules : ruletbl[r] = 0 \/ (r \in engine /\ ruletbl[r] = RuleId[r] + 1)

(* The callback looked up is one that was named. *)
CallbackNamed == IF delay_cb = None THEN named = {} ELSE delay_cb \in named

(* A pending request calls "resolve", with its arguments checked, or the   *)
(* one callback that was looked up.                                        *)
Calls(t, cb, names) ==
  IF t.request.cb = "resolve" THEN t.calls = "resolve" /\ IsResolve(t.request.args)
  ELSE t.calls = cb /\ t.request.cb \in names
TimersSound == \A id \in Ids : timers[id] # None => Calls(timers[id], delay_cb, named)

HInv == TypeOK /\ RulesCached /\ CallbackNamed /\ TimersSound

-------------------------------------------------------------------------------
(* A set of natural numbers has a least element. *)
LEMMA LeastElement ==
  ASSUME NEW S, S \subseteq Nat, S # {}
  PROVE  \E i \in S : \A j \in S : i <= j
<1> DEFINE R == {ss \in Nat \X Nat : ss[1] < ss[2]}
<1>1. IsWellFoundedOn(R, Nat)
  BY NatLessThanWellFounded DEF OpToRel
<1>2. PICK i \in S : \A j \in S : ~(<<j, i>> \in R)
  <2> HIDE DEF R
  <2> QED
    BY <1>1, WFMin
<1>3. \A j \in S : ~(j < i)
  BY <1>2
<1> QED
  BY <1>3

(* What is known of a request. *)
LEMMA RequestTyped ==
  ASSUME NEW r \in Requests
  PROVE  r.id \in Ids /\ r.cb \in Names \cup {"", "resolve"} /\ r.args \in Seq(Args)
BY HandlersAssumption DEF Request

LEMMA InitSound == Init => HInv
<1> SUFFICES ASSUME Init PROVE HInv
  OBVIOUS
<1>1. TypeOK
  BY DEF Init, TypeOK
<1>2. RulesCached /\ CallbackNamed /\ TimersSound
  BY DEF Init, RulesCached, CallbackNamed, TimersSound
<1> QED
  BY <1>1, <1>2 DEF HInv

(* Steps that leave the delayed requests alone. *)
LEMMA DelaysUntouched ==
  ASSUME HInv, UNCHANGED delayVars, engine' \subseteq Rules, ruletbl' \in [Rules -> Nat],
         RulesCached'
  PROVE  HInv'
<1>1. TypeOK'
  BY DEF HInv, TypeOK, delayVars, Timer
<1>2. CallbackNamed' /\ TimersSound'
  BY DEF HInv, CallbackNamed, TimersSound, Calls, delayVars
<1> QED
  BY <1>1, <1>2 DEF HInv

(* rule_lookup only caches what the engine has. *)
LEMMA RememberSound ==
  ASSUME HInv, NEW r \in Rules, RememberRule(r), engine' = engine
  PROVE  ruletbl' \in [Rules -> Nat] /\ RulesCached'
<1>1. RuleId[r] \in Nat
  BY HandlersAssumption
<1>2. CASE ruletbl[r] = 0 /\ RuleFind(r) >= 0
  <2>1. r \in engine
    BY <1>2 DEF RuleFind
  <2>2. ruletbl' = [ruletbl EXCEPT ![r] = RuleId[r] + 1]
    BY <1>2, <2>1 DEF RememberRule, RuleFind, Cached
  <2> QED
    BY <1>1, <2>1, <2>2 DEF HInv, TypeOK, RulesCached
<1>3. CASE ~(ruletbl[r] = 0 /\ RuleFind(r) >= 0)
  BY <1>3 DEF RememberRule, HInv, TypeOK, RulesCached
<1> QED
  BY <1>2, <1>3

LEMMA DelaySound ==
  ASSUME HInv, NEW r \in Requests, Delay(r)
  PROVE  HInv'
<1> USE DEF HInv
<1>1. /\ r.id \in Ids /\ r.cb \in Names \cup {"resolve"}
      /\ r.cb = "resolve" => IsResolve(r.args)
      /\ delay_cb' = LookUpOnce(r)
      /\ named' = IF r.cb = "resolve" THEN named ELSE named \cup {r.cb}
      /\ engine' = engine /\ ruletbl' = ruletbl
  BY RequestTyped DEF Delay, Accepted
<1>2. \/ timers' = timers
      \/ timers' = [timers EXCEPT ![r.id] =
                      [request |-> r, calls |-> Callback(r), args |-> Passed(r.args)]]
  BY DEF Delay
<1>3. None \notin Names /\ "resolve" \notin Names
  BY HandlersAssumption
<1>4. delay_cb' \in Names \cup {None} /\ named' \subseteq Names
  BY <1>1, <1>3 DEF LookUpOnce, TypeOK
<1>5. CallbackNamed'
  BY <1>1, <1>3 DEF LookUpOnce, CallbackNamed
(* A callback that is in use is not replaced. *)
<1>6. /\ named \subseteq named'
      /\ delay_cb # None => delay_cb' = delay_cb
      /\ r.cb # "resolve" => delay_cb' # None /\ r.cb \in named' /\ Callback(r) = delay_cb'
      /\ r.cb = "resolve" => Callback(r) = "resolve"
  BY <1>1, <1>3 DEF LookUpOnce, Callback
<1>7. \A t : Calls(t, delay_cb, named) => Calls(t, delay_cb', named')
  BY <1>6 DEF Calls, CallbackNamed
<1> DEFINE new == [request |-> r, calls |-> Callback(r), args |-> Passed(r.args)]
<1>8. new.request = r /\ Timer(new) /\ Calls(new, delay_cb', named')
  <2>1. new.request = r /\ new.calls = Callback(r) /\ new.args = Passed(r.args)
    OBVIOUS
  <2>2. Callback(r) \in Names \cup {"resolve"}
    BY <1>4, <1>6
  <2> HIDE DEF new
  <2> QED
    BY <1>1, <1>6, <2>1, <2>2 DEF Timer, Calls
<1> HIDE DEF new
<1>9. \A id \in Ids : timers'[id] = timers[id] \/ (id = r.id /\ timers'[id] = new)
  BY <1>1, <1>2 DEF TypeOK, new
<1>10. DOMAIN timers' = Ids
  BY <1>2 DEF TypeOK
<1>11. TypeOK'
  BY <1>1, <1>4, <1>8, <1>9, <1>10 DEF TypeOK, Timer
<1>12. TimersSound'
  BY <1>7, <1>8, <1>9 DEF TimersSound
<1>13. RulesCached'
  BY <1>1 DEF RulesCached
<1> QED
  BY <1>5, <1>11, <1>12, <1>13

(* A request is cancelled or expires. *)
LEMMA RemovalSound ==
  ASSUME HInv, NEW id \in Ids, timers' = [timers EXCEPT ![id] = None],
         UNCHANGED <<engine, ruletbl, delay_cb, named>>
  PROVE  HInv'
<1> USE DEF HInv
<1>1. \A i \in Ids : timers'[i] = timers[i] \/ timers'[i] = None
  BY DEF TypeOK
<1>2. TypeOK'
  BY <1>1 DEF TypeOK, Timer
<1>3. RulesCached' /\ CallbackNamed'
  BY DEF RulesCached, CallbackNamed
<1>4. TimersSound'
  BY <1>1 DEF TimersSound, Calls
<1> QED
  BY <1>2, <1>3, <1>4

LEMMA StepSound == HInv /\ [HandlersStep]_vars => HInv'
<1> SUFFICES ASSUME HInv, [HandlersStep]_vars PROVE HInv'
  OBVIOUS
<1>1. engine \subseteq Rules /\ ruletbl \in [Rules -> Nat] /\ RulesCached
  BY DEF HInv, TypeOK
<1>2. ASSUME UNCHANGED <<engine, ruletbl, delayVars>> PROVE HInv'
  BY <1>1, <1>2, DelaysUntouched DEF RulesCached
<1>3. CASE UNCHANGED vars
  BY <1>2, <1>3 DEF vars
<1>4. ASSUME NEW r \in Rules, LoadRule(r) PROVE HInv'
  <2>1. engine' = engine \cup {r} /\ ruletbl' = ruletbl /\ UNCHANGED delayVars
    BY <1>4 DEF LoadRule
  <2>2. RulesCached'
    BY <1>1, <2>1 DEF RulesCached
  <2> QED
    BY <1>1, <2>1, <2>2, DelaysUntouched
<1>5. ASSUME NEW r \in Rules, CallRule(r) \/ CallFallback(r) PROVE HInv'
  <2>1. RememberRule(r) /\ engine' = engine /\ UNCHANGED delayVars
    BY <1>5 DEF CallRule, CallFallback
  <2> QED
    BY <1>1, <2>1, RememberSound, DelaysUntouched
<1>6. CASE CallRuleWithoutName \/ CallSignalBadly \/ CancelBadly
  BY <1>2, <1>6 DEF CallRuleWithoutName, CallSignalBadly, CancelBadly
<1>7. ASSUME NEW cb \in Names \cup {""}, NEW txid \in 0 .. 1, CallSignal(cb, txid)
      PROVE  HInv'
  BY <1>2, <1>7 DEF CallSignal
<1>8. ASSUME NEW r \in Requests, Refuse(r) \/ Ignore(r) \/ Delay(r) PROVE HInv'
  BY <1>2, <1>8, DelaySound DEF Refuse, Ignore
<1>9. ASSUME NEW id \in Ids, Cancel(id) \/ Expire(id) PROVE HInv'
  BY <1>9, RemovalSound DEF Cancel, Expire
<1> QED
  BY <1>3, <1>4, <1>5, <1>6, <1>7, <1>8, <1>9 DEF HandlersStep

(* The cache holds what the engine has, all delayed requests share one     *)
(* callback that one of them named, and their arguments are the prefix of  *)
(* what was given.                                                         *)
THEOREM HandlersInductive == Spec => []HInv
<1>1. Init => HInv
  BY InitSound
<1>2. HInv /\ [HandlersStep]_vars => HInv'
  BY StepSound
<1> QED
  BY <1>1, <1>2, PTL DEF Spec

(* Every variable has its type, and a timer is pending under its own id.   *)
THEOREM HandlersTypes == Spec => []TypeOK
<1>1. HInv => TypeOK
  BY DEF HInv
<1> QED
  BY <1>1, HandlersInductive, PTL

LEMMA RuleOfInv == HInv => RuleIsTheOne
<1> SUFFICES ASSUME HInv PROVE RuleIsTheOne
  OBVIOUS
<1>1. \A r \in engine : r \in Rules /\ RuleId[r] \in Nat
  BY HandlersAssumption DEF HInv, TypeOK
<1> QED
  BY <1>1 DEF HInv, RulesCached, RuleIsTheOne, RuleLookup, RuleFind

(* rule_lookup: rules are evaluated with their own ids, 0 included. *)
THEOREM RulesAreTheOnes == Spec => []RuleIsTheOne
BY RuleOfInv, HandlersInductive, PTL

LEMMA CallbackOfInv == HInv => CallbackIsTheOneNamed
BY DEF HInv, TypeOK, CallbackNamed, TimersSound, Calls, CallbackIsTheOneNamed

(* delay_handler: a request alone with its callback gets that callback.    *)
THEOREM CallbacksAreTheOnes == Spec => []CallbackIsTheOneNamed
BY CallbackOfInv, HandlersInductive, PTL

-------------------------------------------------------------------------------
(* What a call says it has done. *)

LEMMA LookupSound ==
  ASSUME HInv, NEW r \in Rules
  PROVE  /\ RuleLookup(r) \in Int
         /\ RuleLookup(r) >= 0 => r \in engine /\ RuleLookup(r) = RuleId[r]
<1>1. ruletbl[r] \in Nat /\ RuleId[r] \in Nat
  BY HandlersAssumption DEF HInv, TypeOK
<1>2. ruletbl[r] = 0 \/ (r \in engine /\ ruletbl[r] = RuleId[r] + 1)
  BY DEF HInv, RulesCached
<1>3. CASE ruletbl[r] = 0
  BY <1>1, <1>3 DEF RuleLookup, RuleFind
<1>4. CASE ruletbl[r] # 0
  BY <1>1, <1>2, <1>4 DEF RuleLookup
<1> QED
  BY <1>3, <1>4

LEMMA EvaluateSound ==
  ASSUME HInv, NEW r \in Rules, NEW h \in {"rule", "fallback"}, RuleLookup(r) >= 0,
         NEW outcome \in Outcomes, Evaluate(h, r, outcome), engine' = engine
  PROVE  SuccessMeansDone'
<1>1. RuleLookup(r) = RuleId[r] /\ r \in engine
  BY LookupSound
<1>2. last'.handler = h
  BY DEF Evaluate, Return
<1>3. last'.status > 0 => outcome = "facts"
  BY DEF Evaluate, Return, Outcomes, ActionError, EINVAL, FAIL, SUCCEED
<1>4. outcome = "facts" => last'.value = "facts" /\ last'.what = RuleLookup(r)
  BY DEF Evaluate, Return
<1> QED
  BY <1>1, <1>2, <1>3, <1>4 DEF SuccessMeansDone

LEMMA StepDone == HInv /\ HandlersStep => SuccessMeansDone'
<1> SUFFICES ASSUME HInv, HandlersStep PROVE SuccessMeansDone'
  OBVIOUS
<1>1. ASSUME ~(last'.status > 0) PROVE SuccessMeansDone'
  BY <1>1 DEF SuccessMeansDone
<1>2. ASSUME last' = NoCall PROVE SuccessMeansDone'
  BY <1>2 DEF NoCall, SuccessMeansDone
<1>3. ASSUME last'.handler \in {"rule without name", "ignored delay"} PROVE SuccessMeansDone'
  BY <1>3 DEF SuccessMeansDone
<1>z. ~(0 > 0)
  OBVIOUS
<1>e. ASSUME NEW h, NEW err \in {EINVAL, EIO, ENOENT}, NEW v, NEW w,
             Return(h, ActionError(err), v, w)
      PROVE  SuccessMeansDone'
  BY <1>1, <1>e DEF Return, ActionError, EINVAL, EIO, ENOENT
<1>4. ASSUME NEW r \in Rules, LoadRule(r) PROVE SuccessMeansDone'
  BY <1>2, <1>4 DEF LoadRule
<1>5. ASSUME NEW r \in Rules, CallRule(r) PROVE SuccessMeansDone'
  <2>1. CASE Return("rule", ActionError(ENOENT), "none", None)
    BY <1>e, <2>1
  <2>2. CASE Return("rule", ActionError(EINVAL), "none", None)
    BY <1>e, <2>2
  <2>3. ASSUME NEW outcome \in Outcomes, Evaluate("rule", r, outcome), RuleLookup(r) >= 0
        PROVE  SuccessMeansDone'
    BY <1>5, <2>3, EvaluateSound DEF CallRule
  <2>4. RuleLookup(r) \in Int
    BY LookupSound
  <2> QED
    BY <1>5, <2>1, <2>2, <2>3, <2>4 DEF CallRule
<1>6. ASSUME NEW r \in Rules, CallFallback(r) PROVE SuccessMeansDone'
  <2>1. CASE Return("fallback", ActionError(EINVAL), "none", None)
    BY <1>e, <2>1
  <2>2. ASSUME NEW outcome \in Outcomes, Evaluate("fallback", r, outcome), RuleLookup(r) >= 0
        PROVE  SuccessMeansDone'
    BY <1>6, <2>2, EvaluateSound DEF CallFallback
  <2>3. RuleLookup(r) \in Int
    BY LookupSound
  <2> QED
    BY <1>6, <2>1, <2>2, <2>3 DEF CallFallback
<1>7. CASE CallRuleWithoutName
  BY <1>3, <1>7 DEF CallRuleWithoutName, Return
<1>8. CASE CallSignalBadly \/ CancelBadly
  BY <1>e, <1>8 DEF CallSignalBadly, CancelBadly
<1>9. ASSUME NEW cb \in Names \cup {""}, NEW txid \in 0 .. 1, CallSignal(cb, txid)
      PROVE  SuccessMeansDone'
  <2> DEFINE sent == Signal(cb, IF cb = "" /\ txid > 0 THEN 0 ELSE txid)
  <2>1. CASE cb # "" /\ cb \notin Exported
    <3>1. Return("signal", ActionError(EIO), "zero", None)
      BY <1>9, <2>1 DEF CallSignal
    <3> QED
      BY <1>e, <3>1
  <2>2. CASE Return("signal", ActionError(EIO), "zero", sent)
    BY <1>e, <2>2
  <2>3. CASE Return("signal", SUCCEED, "zero", sent) /\ (cb # "" => cb \in Exported)
    <3>1. sent.cb = cb
      BY DEF Signal
    <3>2. sent.txid > 0 => cb # ""
      BY <1>z, Zenon DEF Signal
    <3> HIDE DEF sent
    <3>3. last'.handler = "signal" /\ last'.value = "zero" /\ last'.what = sent
      BY <2>3 DEF Return
    <3> QED
      BY <2>3, <3>1, <3>2, <3>3 DEF SuccessMeansDone
  <2> QED
    BY <1>9, <2>1, <2>2, <2>3 DEF CallSignal
<1>10. ASSUME NEW r \in Requests, Refuse(r) PROVE SuccessMeansDone'
  <2>1. Return("delay", ActionError(EINVAL), "none", None)
    BY <1>10 DEF Refuse
  <2> QED
    BY <1>e, <2>1
<1>11. ASSUME NEW r \in Requests, Ignore(r) PROVE SuccessMeansDone'
  BY <1>3, <1>11 DEF Ignore, Return
<1>12. ASSUME NEW r \in Requests, Delay(r) PROVE SuccessMeansDone'
  <2>1. CASE Return("delay", ActionError(EINVAL), "none", None)
    BY <1>e, <2>1
  <2>2. CASE Return("delay", ActionError(EIO), "zero", None)
    BY <1>e, <2>2
  <2> DEFINE new == [request |-> r, calls |-> Callback(r), args |-> Passed(r.args)]
  <2>3. CASE Return("delay", SUCCEED, "zero", r) /\ timers' = [timers EXCEPT ![r.id] = new]
    <3>1. r.id \in DOMAIN timers
      BY RequestTyped DEF HInv, TypeOK
    <3>2. new.request = r
      OBVIOUS
    <3> HIDE DEF new
    <3>3. timers'[r.id].request = r
      BY <2>3, <3>1, <3>2
    <3>4. last'.handler = "delay" /\ last'.value = "zero" /\ last'.what = r
      BY <2>3 DEF Return
    <3> QED
      BY <3>3, <3>4 DEF SuccessMeansDone
  <2> QED
    BY <1>12, <2>1, <2>2, <2>3 DEF Delay
<1>13. ASSUME NEW id \in Ids, Cancel(id) PROVE SuccessMeansDone'
  <2>1. /\ last' = [handler |-> "cancel", status |-> SUCCEED, value |-> "zero", what |-> id]
        /\ timers'[id] = None
    BY <1>13 DEF Cancel, Return, HInv, TypeOK
  <2> QED
    BY <2>1 DEF SuccessMeansDone
<1>14. ASSUME NEW id \in Ids, Expire(id) PROVE SuccessMeansDone'
  BY <1>2, <1>14 DEF Expire
<1> QED
  BY <1>4, <1>5, <1>6, <1>7, <1>8, <1>9, <1>10, <1>11, <1>12, <1>13, <1>14 DEF HandlersStep

(* Whatever is called in whatever order: no handler reports success for    *)
(* what it has not done, but for the two known exceptions.                 *)
THEOREM DoneIsDone == Spec => []SuccessMeansDone
<1>1. Init => SuccessMeansDone
  BY DEF Init, NoCall, SuccessMeansDone
<1>2. ASSUME HInv, SuccessMeansDone, [HandlersStep]_vars PROVE SuccessMeansDone'
  <2>1. CASE HandlersStep
    BY <1>2, <2>1, StepDone
  <2>2. CASE UNCHANGED vars
    <3>1. last' = last /\ timers' = timers /\ engine' = engine
      BY <2>2 DEF vars, delayVars
    <3> QED
      BY <1>2, <3>1 DEF SuccessMeansDone
  <2> QED
    BY <1>2, <2>1, <2>2
<1> QED
  BY <1>1, <1>2, HandlersInductive, PTL DEF Spec

-------------------------------------------------------------------------------
(* What a delayed goal is resolved with. *)

(* A hole is at the place of a value, never of a name, so that arguments   *)
(* that end before it have an even length, which is not accepted.          *)
LEMMA PassedWhole ==
  ASSUME NEW args \in Seq(Args), IsResolve(args), Resolvable(Passed(args))
  PROVE  Passed(args) = args
<1>1. Len(args) \in Nat /\ DOMAIN args = 1 .. Len(args) /\ Len(args) % 2 = 1
  BY DEF IsResolve
<1>2. CASE Holes(args) = {}
  BY <1>2 DEF Passed
<1>3. CASE Holes(args) # {}
  <2> DEFINE h == CHOOSE i \in Holes(args) : \A k \in Holes(args) : i <= k
  <2>1. Holes(args) \subseteq Nat
    BY <1>1 DEF Holes
  <2>2. h \in Holes(args)
    <3>1. \E i \in Holes(args) : \A k \in Holes(args) : i <= k
      BY <1>3, <2>1, LeastElement
    <3> QED
      BY <3>1
  <2>3. Passed(args) = SubSeq(args, 1, h - 1)
    BY <1>3 DEF Passed
  <2> HIDE DEF h
  <2>4. h \in 1 .. Len(args) /\ args[h].type = "nofact"
    BY <1>1, <2>2 DEF Holes
  <2>5. Len(Passed(args)) = h - 1
    BY <1>1, <2>3, <2>4
  <2>6. (h - 1) % 2 = 1
    BY <2>5 DEF Resolvable
  <2>7. h % 2 = 0 /\ h \in 2 .. Len(args) - 1
    BY <1>1, <2>4, <2>6
  <2>8. args[h].type = "string"
    BY <2>7 DEF IsResolve
  <2> QED
    BY <2>4, <2>8
<1> QED
  BY <1>2, <1>3

LEMMA LocalsOf ==
  ASSUME NEW args \in Seq(Args)
  PROVE  /\ Len(DelayedLocals(args)) = Len(args) \div 2
         /\ DOMAIN DelayedLocals(args) = 1 .. Len(args) \div 2
         /\ \A k \in 1 .. Len(args) \div 2 :
              /\ DelayedLocals(args)[k].name = args[2 * k].v
              /\ args[2 * k + 1].type = "string" =>
                   DelayedLocals(args)[k].v = args[2 * k + 1].v
<1> DEFINE n == Len(args) \div 2
<1>1. n \in Nat
  OBVIOUS
<1> HIDE DEF n
<1>2. DelayedLocals(args) =
        [k \in 1 .. n |->
           Local(args[2 * k].v, TypeChar(args[2 * k + 1].type), Delivered(args[2 * k + 1]))]
  BY DEF DelayedLocals, n
<1>3. DOMAIN DelayedLocals(args) = 1 .. n
  BY <1>2
<1>4. Len(DelayedLocals(args)) = n
  BY <1>1, <1>3
<1>5. ASSUME NEW k \in 1 .. n
      PROVE  /\ DelayedLocals(args)[k].name = args[2 * k].v
             /\ args[2 * k + 1].type = "string" =>
                  DelayedLocals(args)[k].v = args[2 * k + 1].v
  BY <1>2, <1>5 DEF Local, Delivered
<1> QED
  BY <1>3, <1>4, <1>5 DEF n

LEMMA ExpirySound ==
  ASSUME HInv, NEW id \in Ids, Expire(id)
  PROVE  DelayedAllOrNothing'
<1> DEFINE t == timers[id]
           args == t.request.args
<1>1. t # None /\ fired' = t
  BY DEF Expire
<1>2. t.request \in Requests /\ t.args = Passed(args) /\ Calls(t, delay_cb, named)
  BY <1>1 DEF HInv, TypeOK, Timer, TimersSound
<1>3. args \in Seq(Args)
  BY <1>2, RequestTyped
<1>4. SUFFICES ASSUME resolved' # None
               PROVE  /\ resolved'.goal = args[1].v
                      /\ Len(resolved'.locals) = Len(args) \div 2
                      /\ \A k \in DOMAIN resolved'.locals :
                           /\ resolved'.locals[k].name = args[2 * k].v
                           /\ args[2 * k + 1].type = "string" =>
                                resolved'.locals[k].v = args[2 * k + 1].v
  BY <1>1 DEF DelayedAllOrNothing
<1>5. t.calls = "resolve" /\ Resolvable(t.args)
      /\ resolved' = [goal |-> t.args[1].v, locals |-> DelayedLocals(t.args)]
  BY <1>4 DEF Expire, UpdateGoal
<1>6. t.request.cb = "resolve"
  BY <1>2, <1>5, HandlersAssumption DEF Calls, HInv, TypeOK, CallbackNamed
<1>7. t.args = args
  BY <1>2, <1>3, <1>5, <1>6, PassedWhole DEF Calls
<1>8. resolved'.goal = args[1].v /\ resolved'.locals = DelayedLocals(args)
  BY <1>5, <1>7
<1> HIDE DEF args
<1> QED
  BY <1>3, <1>8, LocalsOf

LEMMA StepDelayed == HInv /\ HandlersStep => DelayedAllOrNothing'
<1> SUFFICES ASSUME HInv, HandlersStep PROVE DelayedAllOrNothing'
  OBVIOUS
<1>1. ASSUME fired' = None PROVE DelayedAllOrNothing'
  BY <1>1 DEF DelayedAllOrNothing
<1>2. ASSUME NEW r \in Rules, LoadRule(r) \/ CallRule(r) \/ CallFallback(r)
      PROVE  DelayedAllOrNothing'
  BY <1>1, <1>2 DEF LoadRule, CallRule, CallFallback, Evaluate, Return
<1>3. CASE CallRuleWithoutName \/ CallSignalBadly \/ CancelBadly
  BY <1>1, <1>3 DEF CallRuleWithoutName, CallSignalBadly, CancelBadly, Return
<1>4. ASSUME NEW cb \in Names \cup {""}, NEW txid \in 0 .. 1, CallSignal(cb, txid)
      PROVE  DelayedAllOrNothing'
  <2>1. fired' = None
    BY <1>4 DEF CallSignal, Return
  <2> QED
    BY <1>1, <2>1
<1>5. ASSUME NEW r \in Requests, Refuse(r) \/ Ignore(r) \/ Delay(r)
      PROVE  DelayedAllOrNothing'
  <2>1. fired' = None
    BY <1>5 DEF Refuse, Ignore, Delay, Return
  <2> QED
    BY <1>1, <2>1
<1>6. ASSUME NEW id \in Ids, Cancel(id) PROVE DelayedAllOrNothing'
  BY <1>1, <1>6 DEF Cancel, Return
<1>7. ASSUME NEW id \in Ids, Expire(id) PROVE DelayedAllOrNothing'
  BY <1>7, ExpirySound
<1> QED
  BY <1>2, <1>3, <1>4, <1>5, <1>6, <1>7 DEF HandlersStep

(* delayed_resolve never resolves a goal with a part of the local          *)
(* variables of its request, whatever facts were missing.                  *)
THEOREM DelayedWhole == Spec => []DelayedAllOrNothing
<1>1. Init => DelayedAllOrNothing
  BY DEF Init, DelayedAllOrNothing
<1>2. ASSUME HInv, DelayedAllOrNothing, [HandlersStep]_vars PROVE DelayedAllOrNothing'
  <2>1. CASE HandlersStep
    BY <1>2, <2>1, StepDelayed
  <2>2. CASE UNCHANGED vars
    BY <1>2, <2>2 DEF vars, DelayedAllOrNothing
  <2> QED
    BY <1>2, <2>1, <2>2
<1> QED
  BY <1>1, <1>2, HandlersInductive, PTL DEF Spec

-------------------------------------------------------------------------------
(* The console.                                                            *)

Extension == [name : Extensions \cup {None}, handler : Plugins \cup {None}]

(* A name has at most one live extension, whose handler is the plugin that *)
(* was granted the name.                                                   *)
GrantsKept ==
  /\ extensions \in Seq(Extension)
  /\ granted \in [Extensions -> Plugins \cup {None}]
  /\ \A n \in Extensions : \A i, j \in Live(n) : i = j
  /\ \A n \in Extensions : Live(n) = {} => granted[n] = None
  /\ \A n \in Extensions : \A i \in Live(n) : extensions[i].handler = granted[n]

(* What is kept for '!' is what the handler has left of the last command.  *)
InputKept ==
  input = None \/ (entered \in Commands /\ input = Remains(entered))

-------------------------------------------------------------------------------
(* The handlers are not disturbed by the console: it runs between them and *)
(* shares only the resolution of goals with them.                          *)

HandlersProperties ==
  HInv /\ SuccessMeansDone /\ DelayedAllOrNothing

LEMMA ConsoleStepHarmless ==
  ASSUME HInv, last' = NoCall, fired' = None, UNCHANGED <<engine, ruletbl, delayVars>>
  PROVE  HandlersProperties'
<1>1. HInv'
  <2>1. /\ engine' \subseteq Rules /\ ruletbl' \in [Rules -> Nat]
        /\ RulesCached' /\ UNCHANGED delayVars
    BY DEF HInv, TypeOK, RulesCached
  <2> QED
    BY <2>1, DelaysUntouched
<1>2. SuccessMeansDone'
  BY DEF NoCall, SuccessMeansDone
<1>3. DelayedAllOrNothing'
  BY DEF DelayedAllOrNothing
<1> QED
  BY <1>1, <1>2, <1>3 DEF HandlersProperties

-------------------------------------------------------------------------------
(* Extensions *)

LEMMA FindLive ==
  ASSUME GrantsKept, NEW n \in Extensions, Live(n) # {}
  PROVE  Find(n) \in Live(n) /\ Live(n) = {Find(n)}
<1>1. PICK i \in Live(n) : TRUE
  OBVIOUS
<1>2. \A j \in Live(n) : j = i
  BY <1>1 DEF GrantsKept
<1>3. i <= i
  BY <1>1 DEF GrantsKept, Live
<1>4. \E k \in Live(n) : \A j \in Live(n) : k <= j
  BY <1>1, <1>2, <1>3
<1>5. Find(n) \in Live(n)
  BY <1>4, Zenon DEF Find
<1> QED
  BY <1>2, <1>5

LEMMA AddKeeps ==
  ASSUME GrantsKept, NEW n \in Extensions, NEW p \in Plugins, AddCommand(n, p)
  PROVE  GrantsKept'
<1> DEFINE new == [name |-> n, handler |-> p]
           e == Len(extensions) + 1
<1>1. /\ extensions \in Seq(Extension) /\ Len(extensions) \in Nat
      /\ DOMAIN extensions = 1 .. Len(extensions)
  BY DEF GrantsKept
<1>2. new \in Extension /\ extensions' = Append(extensions, new) /\ Live(n) = {}
  BY DEF AddCommand, CanAdd, Extension
<1>3. new.name = n /\ new.handler = p
  OBVIOUS
<1> HIDE DEF new
<1>4. /\ extensions' \in Seq(Extension)
      /\ DOMAIN extensions' = DOMAIN extensions \cup {e}
      /\ extensions'[e] = new
      /\ \A i \in DOMAIN extensions : extensions'[i] = extensions[i]
  BY <1>1, <1>2
<1>5. e \notin DOMAIN extensions
  BY <1>1
<1> HIDE DEF e
<1>6. Live(n)' = {e}
  BY <1>2, <1>3, <1>4 DEF Live
<1>7. \A m \in Extensions \ {n} : Live(m)' = Live(m)
  BY <1>3, <1>4 DEF Live
<1>8. granted' = [granted EXCEPT ![n] = p] /\ granted \in [Extensions -> Plugins \cup {None}]
  BY DEF AddCommand, GrantsKept
<1>9. \A m \in Extensions \ {n} : granted'[m] = granted[m]
  BY <1>8
<1>10. granted'[n] = p /\ granted' \in [Extensions -> Plugins \cup {None}]
  BY <1>8
<1>11. \A m \in Extensions : \A i, j \in Live(m)' : i = j
  BY <1>6, <1>7 DEF GrantsKept
<1>12. \A m \in Extensions : Live(m)' = {} => granted'[m] = None
  BY <1>6, <1>7, <1>9 DEF GrantsKept
<1>13. \A m \in Extensions : \A i \in Live(m)' : extensions'[i].handler = granted'[m]
  <2>1. ASSUME NEW m \in Extensions \ {n}, NEW i \in Live(m)'
        PROVE  extensions'[i].handler = granted'[m]
    <3>1. i \in DOMAIN extensions /\ extensions[i].handler = granted[m]
      BY <1>7, <2>1 DEF GrantsKept, Live
    <3> QED
      BY <1>4, <1>9, <3>1
  <2>2. ASSUME NEW i \in Live(n)' PROVE extensions'[i].handler = granted'[n]
    BY <1>3, <1>4, <1>6, <1>10, <2>2
  <2> QED
    BY <2>1, <2>2
<1> QED
  BY <1>4, <1>10, <1>11, <1>12, <1>13 DEF GrantsKept

LEMMA DelKeeps ==
  ASSUME GrantsKept, NEW n \in Extensions, NEW p \in Plugins, DelCommand(n, p)
  PROVE  GrantsKept'
<1> DEFINE none == [name |-> None, handler |-> None]
           f == Find(n)
<1>1. Live(n) = {f} /\ f \in DOMAIN extensions
  BY FindLive DEF DelCommand, Live
<1>2. none.name = None /\ none \in Extension
  BY DEF Extension
<1>3. extensions' = [extensions EXCEPT ![f] = none]
  BY DEF DelCommand
<1> HIDE DEF none, f
<1>4. extensions \in Seq(Extension)
  BY DEF GrantsKept
<1>5. /\ extensions' \in Seq(Extension) /\ DOMAIN extensions' = DOMAIN extensions
      /\ extensions'[f] = none
      /\ \A i \in DOMAIN extensions \ {f} : extensions'[i] = extensions[i]
  BY <1>1, <1>2, <1>3, <1>4
<1>6. None \notin Extensions
  BY ConsoleAssumption
<1>7. Live(n)' = {}
  BY <1>1, <1>2, <1>5, <1>6 DEF Live
<1>8. \A m \in Extensions \ {n} : Live(m)' = Live(m) /\ f \notin Live(m)
  BY <1>1, <1>2, <1>5, <1>6 DEF Live
<1>9. granted' = [granted EXCEPT ![n] = None] /\ granted \in [Extensions -> Plugins \cup {None}]
  BY DEF DelCommand, GrantsKept
<1>10. granted'[n] = None /\ granted' \in [Extensions -> Plugins \cup {None}]
  BY <1>9
<1>11. \A m \in Extensions \ {n} : granted'[m] = granted[m]
  BY <1>9
<1>12. \A m \in Extensions : \A i, j \in Live(m)' : i = j
  BY <1>7, <1>8 DEF GrantsKept
<1>13. \A m \in Extensions : Live(m)' = {} => granted'[m] = None
  BY <1>8, <1>10, <1>11 DEF GrantsKept
<1>14. \A m \in Extensions : \A i \in Live(m)' : extensions'[i].handler = granted'[m]
  <2>1. ASSUME NEW m \in Extensions \ {n}, NEW i \in Live(m)'
        PROVE  extensions'[i].handler = granted'[m]
    <3>1. i \in DOMAIN extensions \ {f} /\ extensions[i].handler = granted[m]
      BY <1>8, <2>1 DEF GrantsKept, Live
    <3> QED
      BY <1>5, <1>11, <3>1
  <2> QED
    BY <1>7, <2>1
<1> QED
  BY <1>5, <1>10, <1>12, <1>13, <1>14 DEF GrantsKept

-------------------------------------------------------------------------------
(* '!' *)

LEMMA RemainsOf ==
  ASSUME NEW c \in Commands
  PROVE  /\ Remains(c).name = c.name /\ Remains(c).goal = c.goal
         /\ c.name \in {"resolve", "set"} => Remains(c).args = <<>>
         /\ Remains(Remains(c)) = Remains(c)
<1>1. c = [name |-> c.name, goal |-> c.goal, args |-> c.args]
  BY ConsoleAssumption
<1>2. CASE c.name \in {"resolve", "set"}
  <2> DEFINE d == [name |-> c.name, goal |-> c.goal, args |-> <<>>]
  <2>1. Remains(c) = d
    BY <1>1, <1>2 DEF Remains
  <2>2. Remains(d) = d
    BY <1>2 DEF Remains
  <2> QED
    BY <2>1, <2>2
<1>3. CASE c.name \notin {"resolve", "set"}
  BY <1>3 DEF Remains
<1> QED
  BY <1>2, <1>3

LEMMA RedoSound ==
  ASSUME InputKept, InputRedo
  PROVE  InputKept' /\ RedoKeepsGoal'
<1>1. /\ entered \in Commands /\ input = Remains(entered) /\ entered' = entered
      /\ Execute(input) /\ input' = Remains(input)
  BY DEF InputKept, InputRedo
<1>2. InputKept'
  BY <1>1, RemainsOf DEF InputKept
<1>3. input.name = entered.name /\ input.goal = entered.goal
  BY <1>1, RemainsOf
<1>4. CASE entered.name = "resolve"
  <2>1. input.args = <<>>
    BY <1>1, <1>4, RemainsOf
  <2>2. Resolve(input) /\ assigned' = None
    BY <1>1, <1>3, <1>4 DEF Execute, NoAssignment
  <2>3. Doubles(<<>>) = {} /\ PushLocals(<<>>)
    BY DEF Doubles, PushLocals
  <2>4. ParseArgs(input)
    <3>1. input.args # None
      BY <2>1, ConsoleAssumption
    <3>2. Doubles(input.args) = {}
      BY <2>1, <2>3
    <3>3. Cardinality(Doubles(input.args)) = 0
      BY <3>2, FS_EmptySet
    <3> QED
      BY <3>1, <3>3 DEF ParseArgs
  <2>5. resolved' = [goal |-> entered.goal, locals |-> <<>>]
    BY <1>3, <2>1, <2>2, <2>3, <2>4 DEF Resolve, UpdateGoal
  <2> QED
    BY <1>1, <1>2, <2>2, <2>5 DEF RedoKeepsGoal
<1>5. CASE entered.name # "resolve"
  <2>1. assigned' = None
    <3>1. CASE entered.name = "set"
      <4>1. input.args = <<>>
        BY <1>1, <3>1, RemainsOf
      <4>2. SetFact(input.args)
        BY <1>1, <1>3, <3>1 DEF Execute
      <4>3. Complete(<<>>) = {}
        BY DEF Complete
      <4> QED
        BY <4>1, <4>2, <4>3 DEF SetFact
    <3>2. CASE entered.name # "set"
      BY <1>1, <1>3, <1>5, <3>2 DEF Execute, NoAssignment
    <3> QED
      BY <3>1, <3>2
  <2> QED
    BY <1>1, <1>2, <1>5, <2>1 DEF RedoKeepsGoal
<1> QED
  BY <1>4, <1>5

-------------------------------------------------------------------------------
PluginInv == HandlersProperties /\ GrantsKept /\ InputKept /\ RedoKeepsGoal

LEMMA ConsoleInitSound == ConsoleInit => PluginInv
<1> SUFFICES ASSUME ConsoleInit PROVE PluginInv
  OBVIOUS
<1>1. Init
  BY DEF ConsoleInit
<1>2. HandlersProperties
  BY <1>1, InitSound DEF HandlersProperties, Init, NoCall, SuccessMeansDone, DelayedAllOrNothing
<1>3. GrantsKept
  BY DEF ConsoleInit, GrantsKept, Live
<1>4. InputKept /\ RedoKeepsGoal
  BY DEF ConsoleInit, InputKept, RedoKeepsGoal
<1> QED
  BY <1>2, <1>3, <1>4 DEF PluginInv

LEMMA ExtensionsUntouched ==
  ASSUME GrantsKept, UNCHANGED extensionVars
  PROVE  GrantsKept'
BY DEF GrantsKept, extensionVars, Live

LEMMA NotRedone ==
  ASSUME redone' = FALSE
  PROVE  RedoKeepsGoal'
BY DEF RedoKeepsGoal

LEMMA ConsoleStepSound ==
  ASSUME PluginInv, ConsoleStep
  PROVE  GrantsKept' /\ InputKept' /\ RedoKeepsGoal'
<1>1. GrantsKept /\ InputKept
  BY DEF PluginInv
<1>2. ASSUME input' = input, entered' = entered PROVE InputKept'
  BY <1>1, <1>2 DEF InputKept, Remains
<1>3. CASE Opened \/ Closed
  BY <1>1, <1>2, <1>3, ExtensionsUntouched, NotRedone DEF Opened, Closed
<1>4. CASE InputRedo
  BY <1>1, <1>4, ExtensionsUntouched, RedoSound DEF InputRedo
<1>5. ASSUME NEW c \in Commands, Input(c) PROVE GrantsKept' /\ InputKept' /\ RedoKeepsGoal'
  <2>1. input' = Remains(c) /\ entered' = c /\ redone' = FALSE /\ UNCHANGED extensionVars
    BY <1>5 DEF Input
  <2>2. InputKept'
    BY <2>1 DEF InputKept
  <2> QED
    BY <1>1, <2>1, <2>2, ExtensionsUntouched, NotRedone
<1>6. ASSUME NEW n \in Extensions, NEW p \in Plugins, AddCommand(n, p) \/ DelCommand(n, p)
      PROVE  GrantsKept' /\ InputKept' /\ RedoKeepsGoal'
  <2>1. input' = input /\ entered' = entered /\ redone' = FALSE
    BY <1>6 DEF AddCommand, DelCommand
  <2> QED
    BY <1>1, <1>2, <1>6, <2>1, AddKeeps, DelKeeps, NotRedone
<1> QED
  BY <1>3, <1>4, <1>5, <1>6 DEF ConsoleStep

LEMMA PluginStepSound == PluginInv /\ [Next]_<<vars, consoleVars>> => PluginInv'
<1> SUFFICES ASSUME PluginInv, [Next]_<<vars, consoleVars>> PROVE PluginInv'
  OBVIOUS
<1>1. HInv /\ SuccessMeansDone /\ DelayedAllOrNothing /\ GrantsKept /\ InputKept /\ RedoKeepsGoal
  BY DEF PluginInv, HandlersProperties
<1>2. ASSUME input' = input, entered' = entered PROVE InputKept'
  BY <1>1, <1>2 DEF InputKept, Remains
<1>3. CASE ConsoleStep /\ fired' = None /\ last' = NoCall /\ UNCHANGED <<engine, ruletbl, delayVars>>
  BY <1>1, <1>3, ConsoleStepSound, ConsoleStepHarmless DEF PluginInv
<1>4. CASE HandlersStep /\ redone' = FALSE /\ assigned' = None
             /\ UNCHANGED <<terminalVars, extensionVars, input, entered, levels>>
  <2>1. HandlersProperties'
    BY <1>1, <1>4, StepSound, StepDone, StepDelayed DEF HandlersProperties
  <2>2. GrantsKept' /\ InputKept' /\ RedoKeepsGoal'
    BY <1>1, <1>2, <1>4, ExtensionsUntouched, NotRedone
  <2> QED
    BY <2>1, <2>2 DEF PluginInv
<1>5. CASE UNCHANGED <<vars, consoleVars>>
  <2>1. HInv'
    BY <1>1, <1>5, StepSound
  <2>2. /\ last' = last /\ timers' = timers /\ engine' = engine
        /\ fired' = fired /\ resolved' = resolved
    BY <1>5 DEF vars, delayVars
  <2>3. SuccessMeansDone'
    BY <1>1, <2>2 DEF SuccessMeansDone
  <2>4. DelayedAllOrNothing'
    BY <1>1, <2>2 DEF DelayedAllOrNothing
  <2>5. /\ input' = input /\ entered' = entered /\ redone' = redone /\ assigned' = assigned
        /\ UNCHANGED extensionVars
    BY <1>5 DEF consoleVars, inputVars
  <2>6. RedoKeepsGoal'
    BY <1>1, <2>2, <2>5 DEF RedoKeepsGoal
  <2> QED
    BY <1>1, <1>2, <2>1, <2>3, <2>4, <2>5, <2>6, ExtensionsUntouched DEF PluginInv, HandlersProperties
<1> QED
  BY <1>3, <1>4, <1>5 DEF Next

(* The extensions are those granted, the text kept for '!' is what is left *)
(* of the last command, and the console disturbs none of the handlers.     *)
THEOREM PluginInductive == ConsoleSpec => []PluginInv
<1>1. ConsoleInit => PluginInv
  BY ConsoleInitSound
<1>2. PluginInv /\ [Next]_<<vars, consoleVars>> => PluginInv'
  BY PluginStepSound
<1> QED
  BY <1>1, <1>2, PTL DEF ConsoleSpec

(* What was proved of the handlers alone holds with the console, which     *)
(* resolves goals between them.                                            *)
THEOREM HandlersUndisturbed ==
  ConsoleSpec => [](TypeOK /\ RuleIsTheOne /\ SuccessMeansDone /\ CallbackIsTheOneNamed
                      /\ DelayedAllOrNothing)
<1>1. PluginInv => TypeOK /\ RuleIsTheOne /\ SuccessMeansDone /\ CallbackIsTheOneNamed
                     /\ DelayedAllOrNothing
  BY RuleOfInv, CallbackOfInv DEF PluginInv, HandlersProperties, HInv
<1> QED
  BY <1>1, PluginInductive, PTL

(* extension_add, extension_del: a command runs for the plugin that was    *)
(* told to have it, and for nobody once it was given back.                 *)
THEOREM GrantsHold == ConsoleSpec => []GrantedCommandRuns
<1>1. ASSUME GrantsKept, NEW n \in Extensions \ Builtin PROVE Dispatch(n) = granted[n]
  <2>1. CASE Live(n) = {}
    BY <1>1, <2>1 DEF Dispatch, GrantsKept
  <2>2. CASE Live(n) # {}
    BY <1>1, <2>2, FindLive DEF Dispatch, GrantsKept
  <2> QED
    BY <2>1, <2>2
<1>2. PluginInv => GrantedCommandRuns
  BY <1>1 DEF PluginInv, GrantedCommandRuns
<1> QED
  BY <1>2, PluginInductive, PTL

(* console_input: '!' after any sequence of commands. *)
THEOREM RedoHolds == ConsoleSpec => []RedoKeepsGoal
<1>1. PluginInv => RedoKeepsGoal
  BY DEF PluginInv
<1> QED
  BY <1>1, PluginInductive, PTL
================================================================================
