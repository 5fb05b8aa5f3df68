-------------------------------- MODULE Handlers --------------------------------
(***************************************************************************)
(* The method handlers of the resolver plugin (src/ohm-plugin/resolver.c): *)
(* rules of the rule engine with their cache, signals, delayed execution   *)
(* and its cancellation, and the goals that delayed requests resolve.      *)
(*                                                                         *)
(* Rule engine, signaling and delay are other plugins: they are what the   *)
(* calls of this one need.  A delayed request is kept under its id, a new  *)
(* one replaces it (restart is TRUE), and it expires once, at any time.    *)
(*                                                                         *)
(* What a handler does in the end depends on the types of its arguments:   *)
(* an argument is its type and value.  "nofact" is a fact variable without *)
(* facts, "fact" the name of the first fact, "other" any other type.       *)
(***************************************************************************)
EXTENDS Integers, Sequences, FiniteSets

CONSTANTS
  Ids,         \* ids of delayed requests
  Requests,    \* the calls of delay_execution
  Names,       \* names of callbacks
  Exported,    \* those that some plugin exports
  Rules,       \* names of rules, with their arity
  RuleId,      \* the id of every rule in the rule engine
  Declared,    \* the local variables that the ruleset declares
  Values,      \* values of arguments
  None         \* none of anything

ArgTypes == {"string", "integer", "double", "nil", "fact", "nofact", "other"}
Args == [type : ArgTypes, v : Values]
Request == [valid : BOOLEAN, id : Ids, cb : Names \cup {"", "resolve"}, args : Seq(Args)]

ASSUME HandlersAssumption ==
  /\ Requests \subseteq Request
  /\ Exported \subseteq Names /\ "" \notin Names /\ "resolve" \notin Names
  /\ RuleId \in [Rules -> Nat]
  /\ None \notin Names

VARIABLES
  engine,      \* the rules that the rule engine has loaded
  ruletbl,     \* rule_lookup's cache: the id plus one of rules it has seen
  delay_cb,    \* the callback that delay_handler has looked up, static
  timers,      \* requests pending in the delay plugin, and what they call
  named,       \* history: callbacks of accepted requests, but "resolve"
  resolved,    \* the goal that the last step has resolved, from outside
  fired,       \* the request whose expiry was the last step
  last         \* the last call of a handler

delayVars == <<delay_cb, timers, named>>
vars == <<engine, ruletbl, delayVars, resolved, fired, last>>

NoCall == [handler |-> "none", status |-> 0, value |-> "none", what |-> None]

Init ==
  /\ engine \in SUBSET Rules /\ ruletbl = [r \in Rules |-> 0]
  /\ delay_cb = None /\ named = {} /\ timers = [i \in Ids |-> None]
  /\ resolved = None /\ fired = None /\ last = NoCall

-------------------------------------------------------------------------------
(* How a handler returns. *)

SUCCEED == 1
FAIL == 0
EINVAL == 22
EIO == 5
ENOENT == 2

(* Deviation: the sign is kept. *)
ActionErrorAsIs(err) == err
(* DRES_ACTION_ERROR: an exception is negative.                            *)
ActionError(err) == IF err > 0 THEN -err ELSE err

Return(handler, status, value, what) ==
  /\ last' = [handler |-> handler, status |-> status, value |-> value, what |-> what]
  /\ fired' = None /\ resolved' = None

-------------------------------------------------------------------------------
(* Rules.  The engine may load rules later, so only hits are cached; an id *)
(* may be 0, so it is kept plus one.                                       *)

LoadRule(r) ==
  /\ engine' = engine \cup {r} /\ last' = NoCall /\ fired' = None /\ resolved' = None
  /\ UNCHANGED <<ruletbl, delayVars>>

RuleFind(r) == IF r \in engine THEN RuleId[r] ELSE -1

(* Deviation: the id itself is the value. *)
CachedAsIs(id) == id
Cached(id) == id + 1

RuleLookup(r) == IF ruletbl[r] > 0 THEN ruletbl[r] - 1 ELSE RuleFind(r)
RememberRule(r) ==
  ruletbl' = IF ruletbl[r] = 0 /\ RuleFind(r) >= 0
               THEN [ruletbl EXCEPT ![r] = Cached(RuleFind(r))] ELSE ruletbl

(* rule_eval and retval_to_facts: an exception, a failure, facts, or a     *)
(* result that is not a list of facts.                                     *)
Evaluate(handler, r, outcome) ==
  Return(handler,
         CASE outcome = "exception" -> ActionError(-EINVAL)
           [] outcome = "failure"   -> ActionError(FAIL)
           [] outcome = "facts"     -> SUCCEED
           [] outcome = "other"     -> ActionError(-EINVAL),
         IF outcome = "facts" THEN "facts" ELSE "none", RuleLookup(r))

Outcomes == {"exception", "failure", "facts", "other"}

(* rule_handler, for a call with the name of a rule as first argument...   *)
CallRule(r) ==
  /\ RememberRule(r)
  /\ IF RuleLookup(r) < 0 THEN Return("rule", ActionError(ENOENT), "none", None)
     ELSE \/ Return("rule", ActionError(EINVAL), "none", None)  \* other arguments
          \/ \E outcome \in Outcomes : Evaluate("rule", r, outcome)
  /\ UNCHANGED <<engine, delayVars>>

(* ...or not: the error is returned as it is. *)
CallRuleWithoutName ==
  /\ Return("rule without name", EINVAL, "none", None)
  /\ UNCHANGED <<engine, ruletbl, delayVars>>

(* fallback_handler: a method that nobody has registered is the rule of    *)
(* that name.  There was no other fallback before this one.                *)
CallFallback(r) ==
  /\ RememberRule(r)
  /\ IF RuleLookup(r) < 0 THEN Return("fallback", ActionError(EINVAL), "none", None)
     ELSE \/ Return("fallback", ActionError(EINVAL), "none", None)
          \/ \E outcome \in Outcomes : Evaluate("fallback", r, outcome)
  /\ UNCHANGED <<engine, delayVars>>

-------------------------------------------------------------------------------
(* signal_handler: without a callback there is no transaction; the         *)
(* callback is looked up for every call, and the other plugin may refuse.  *)

Signal(cb, txid) == [cb |-> cb, txid |-> txid]
CallSignal(cb, txid) ==
  /\ IF cb # "" /\ cb \notin Exported
       THEN Return("signal", ActionError(EIO), "zero", None)
       ELSE LET sent == Signal(cb, IF cb = "" /\ txid > 0 THEN 0 ELSE txid) IN
            \/ Return("signal", SUCCEED, "zero", sent)
            \/ Return("signal", ActionError(EIO), "zero", sent)
  /\ UNCHANGED <<engine, ruletbl, delayVars>>

(* ...with too few arguments or some of the wrong type. *)
CallSignalBadly ==
  /\ Return("signal", ActionError(EINVAL), "none", None)
  /\ UNCHANGED <<engine, ruletbl, delayVars>>

-------------------------------------------------------------------------------
(* delay_handler *)

(* For "resolve": a goal, and names of variables with their values. *)
IsResolve(args) ==
  /\ Len(args) % 2 = 1
  /\ args[1].type = "string"
  /\ \A i \in 2 .. Len(args) - 1 : i % 2 = 0 => args[i].type = "string"

(* argt and argv: the string of types ends at the first fact variable      *)
(* without facts, whose place is left empty.                               *)
Holes(args) == {i \in DOMAIN args : args[i].type = "nofact"}
(* Deviation: what has no place is left out. *)
PassedWithoutHoles(args) == SelectSeq(args, LAMBDA a : a.type # "nofact")
Passed(args) ==
  IF Holes(args) = {} THEN args
  ELSE SubSeq(args, 1, (CHOOSE i \in Holes(args) : \A j \in Holes(args) : i <= j) - 1)

CallbackKnown(r) == r.cb = "resolve" \/ delay_cb # None \/ r.cb \in Exported
Unpassable(r) == \E i \in DOMAIN r.args : r.args[i].type = "other"

(* Deviation: "resolve" is looked up as well. *)
LookUpAlways(r) == IF delay_cb # None THEN delay_cb ELSE r.cb
(* delay_cb is looked up by the first request that needs it. *)
LookUpOnce(r) == IF r.cb = "resolve" \/ delay_cb # None THEN delay_cb ELSE r.cb

Refuse(r) ==
  /\ ~r.valid \/ (r.cb = "resolve" /\ ~IsResolve(r.args))
       \/ (r.cb # "" /\ ~CallbackKnown(r))
  /\ Return("delay", ActionError(EINVAL), "none", None)
  /\ UNCHANGED <<engine, ruletbl, delayVars>>

(* An empty callback is nothing to wait for. *)
Ignore(r) ==
  /\ r.valid /\ r.cb = ""
  /\ Return("ignored delay", SUCCEED, "none", None)
  /\ UNCHANGED <<engine, ruletbl, delayVars>>

Accepted(r) ==
  /\ r.valid /\ r.cb # "" /\ CallbackKnown(r)
  /\ r.cb = "resolve" => IsResolve(r.args)

(* Deviation: "resolve" goes through delay_cb as well. *)
CallbackShared(r) == IF delay_cb = None THEN r.cb ELSE delay_cb
Callback(r) == IF r.cb = "resolve" THEN "resolve" ELSE LookUpOnce(r)

(* The delay plugin takes the request, or refuses it. *)
Delay(r) ==
  /\ Accepted(r)
  /\ delay_cb' = LookUpOnce(r)
  /\ named' = IF r.cb = "resolve" THEN named ELSE named \cup {r.cb}
  /\ \/ /\ Unpassable(r)
        /\ Return("delay", ActionError(EINVAL), "none", None)
        /\ UNCHANGED timers
     \/ /\ ~Unpassable(r)
        /\ timers' = [timers EXCEPT ![r.id] =
                        [request |-> r, calls |-> Callback(r), args |-> Passed(r.args)]]
        /\ Return("delay", SUCCEED, "zero", r)
     \/ /\ ~Unpassable(r)
        /\ Return("delay", ActionError(EIO), "zero", None)
        /\ UNCHANGED timers
  /\ UNCHANGED <<engine, ruletbl>>

(* cancel_handler succeeds whether there was something to cancel or not... *)
Cancel(id) ==
  /\ timers' = [timers EXCEPT ![id] = None]
  /\ Return("cancel", SUCCEED, "zero", id)
  /\ UNCHANGED <<engine, ruletbl, delay_cb, named>>

(* ...but it needs one string. *)
CancelBadly ==
  /\ Return("cancel", ActionError(EINVAL), "none", None)
  /\ UNCHANGED <<engine, ruletbl, delayVars>>

-------------------------------------------------------------------------------
(* dres_update_goal from outside.  push_locals takes strings, integers and *)
(* doubles ('s', 'i', 'd') for declared variables; otherwise nothing is    *)
(* resolved.                                                               *)

Local(name, type, v) == [name |-> name, type |-> type, v |-> v]

PushLocals(locals) ==
  \A i \in DOMAIN locals : locals[i].type \in {"s", "i", "d"} /\ locals[i].name \in Declared

UpdateGoal(goal, locals) ==
  resolved' = IF PushLocals(locals) THEN [goal |-> goal, locals |-> locals] ELSE None

(* delayed_resolve: an integer arrives as the address of the argument, a   *)
(* double with the type 'f'; a list of arguments that has lost its end is  *)
(* dropped.                                                                *)
TypeChar(type) ==
  CASE type \in {"string", "nil", "fact"} -> "s" [] type = "integer" -> "i" [] OTHER -> "f"

Delivered(arg) == IF arg.type = "integer" THEN None ELSE arg.v

Resolvable(args) ==
  /\ Len(args) % 2 = 1 /\ Len(args) < 64
  /\ TypeChar(args[1].type) = "s"
  /\ \A i \in 2 .. Len(args) : i % 2 = 0 => TypeChar(args[i].type) = "s"

DelayedLocals(args) ==
  [k \in 1 .. Len(args) \div 2 |->
     Local(args[2 * k].v, TypeChar(args[2 * k + 1].type), Delivered(args[2 * k + 1]))]

Expire(id) ==
  LET t == timers[id] IN
  /\ t # None
  /\ timers' = [timers EXCEPT ![id] = None]
  /\ IF t.calls = "resolve" /\ Resolvable(t.args)
       THEN UpdateGoal(t.args[1].v, DelayedLocals(t.args))
       ELSE resolved' = None
  /\ fired' = t /\ last' = NoCall
  /\ UNCHANGED <<engine, ruletbl, delay_cb, named>>

-------------------------------------------------------------------------------
HandlersStep ==
  \/ \E r \in Rules : LoadRule(r) \/ CallRule(r) \/ CallFallback(r)
  \/ CallRuleWithoutName \/ CallSignalBadly \/ CancelBadly
  \/ \E cb \in Names \cup {""}, txid \in 0 .. 1 : CallSignal(cb, txid)
  \/ \E r \in Requests : Refuse(r) \/ Ignore(r) \/ Delay(r)
  \/ \E id \in Ids : Cancel(id) \/ Expire(id)

Spec == Init /\ [][HandlersStep]_vars

-------------------------------------------------------------------------------
(* Properties *)

Timer(t) ==
  /\ t.request \in Requests /\ t.calls \in Names \cup {"resolve"}
  /\ t.args = Passed(t.request.args)

(* The types of the variables; a timer is pending under its request's id   *)
(* with what could be passed of its arguments.                             *)
TypeOK ==
  /\ engine \subseteq Rules /\ ruletbl \in [Rules -> Nat]
  /\ delay_cb \in Names \cup {None} /\ named \subseteq Names
  /\ DOMAIN timers = Ids
  /\ \A id \in Ids : timers[id] = None \/ (Timer(timers[id]) /\ timers[id].request.id = id)

(* A rule is evaluated with the id that the engine has for it, the first   *)
(* time and from the cache, whatever that id is (rule_lookup).             *)
RuleIsTheOne == \A r \in engine : RuleLookup(r) = RuleId[r]

(* A positive status is taken for success: the handler has then given its  *)
(* value and done what it was called for.  A rule call without a name and  *)
(* a delay without a callback are the exceptions (rule_handler,            *)
(* delay_handler, DRES_ACTION_ERROR).                                      *)
SuccessMeansDone ==
  last.status > 0 =>
    \/ last.handler \in {"rule without name", "ignored delay"}
    \/ /\ last.value # "none"
       /\ CASE last.handler \in {"rule", "fallback"} -> \E r \in engine : RuleId[r] = last.what
            [] last.handler = "signal" -> last.what.txid > 0 => last.what.cb \in Exported
            [] last.handler = "delay"  -> timers[last.what.id].request = last.what
            [] last.handler = "cancel" -> timers[last.what] = None

(* While all requests have named one callback, that is the one that is     *)
(* called; "resolve" always is.  (The second name would get the first      *)
(* callback: delay_cb is static.)                                          *)
CallbackIsTheOneNamed ==
  \A id \in Ids : timers[id] # None =>
    LET cb == timers[id].request.cb IN
    cb = "resolve" \/ named \subseteq {cb} => timers[id].calls = cb

(* A delayed goal is resolved with all the local variables of its request  *)
(* or not at all, also if fact variables among its arguments were empty;   *)
(* those that are strings have their values (delay_handler,                *)
(* delayed_resolve, push_locals).                                          *)
DelayedAllOrNothing ==
  fired # None /\ resolved # None =>
    LET args == fired.request.args IN
    /\ resolved.goal = args[1].v
    /\ Len(resolved.locals) = Len(args) \div 2
    /\ \A k \in DOMAIN resolved.locals :
         /\ resolved.locals[k].name = args[2 * k].v
         /\ args[2 * k + 1].type = "string" => resolved.locals[k].v = args[2 * k + 1].v
================================================================================
