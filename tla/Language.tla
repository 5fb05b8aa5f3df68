-------------------------------- MODULE Language --------------------------------
(***************************************************************************)
(* What the actions of a target mean, stated over their syntax trees as    *)
(* the manual describes them (doc/resolver-overview.txt:180-350), without  *)
(* code, stack, program counter or exceptions.                             *)
(*                                                                         *)
(* A state says what has been done so far: the facts, the calls, and       *)
(* whether evaluation still goes on ("success") or was ended by an "error" *)
(* or by a method that "fail"s.  An environment gives the local variables  *)
(* their values.                                                           *)
(***************************************************************************)
EXTENDS Instructions, SequencesExt

CONSTANTS Locals, Results, Store, FirstTarget

VARIABLE source   \* the actions of every target

Beginning == [facts |-> Store, calls |-> <<>>, status |-> "success"]

NoLocals == [x \in Locals |-> Unset]

Over(state) == state.status # "success"

Unless(ok, state) == IF ok THEN state ELSE [state EXCEPT !.status = "error"]

Local(x, env) == IF env[x] = Unset THEN Nil ELSE env[x]

(* "0 is FALSE", "'' is FALSE", "an empty set of facts is FALSE"; there is *)
(* no rule for a local variable that is not set.                           *)
HasTruth(v) == v.type \in Simple \cup {"global"}
IsTrue(v)   == v.v # 0
Bool(b)     == Integer(IF b THEN 1 ELSE 0)

Holds(v, relop, w) ==
  CASE relop = "==" -> v = w [] relop = "!=" -> v # w
    [] relop = "<"  -> v < w [] relop = "<=" -> v <= w
    [] relop = ">"  -> v > w [] relop = ">=" -> v >= w

(* A selector keeps the facts that have the field with this value, a       *)
(* negated one the others.  Values of different types are not comparable.  *)
Operand(e, env) == IF e.kind = "local" THEN Local(e.x, env) ELSE e.val

Selectable(e, env, facts) ==
  \/ e.select = <<>> \/ facts[e.name].n = 0 \/ facts[e.name].field = Unset
  \/ facts[e.name].field.type = Operand(e.select[1].value, env).type

Selected(e, env, facts) ==
  \/ e.select = <<>>
  \/ (facts[e.name].field = Operand(e.select[1].value, env)) # (e.select[1].op = Neq)

Count(e, env, facts) == IF Selected(e, env, facts) THEN facts[e.name].n ELSE 0

(* "Additionally expr1 and expr2 must have the same type" *)
Comparable(v, w) == v.type = w.type /\ v.type \in Simple

-------------------------------------------------------------------------------
(* A result is a state and a value.                                        *)
Result(state, val) == [state |-> state, val |-> val]

FactReference(e, env, state) ==
  LET facts == state.facts
      n     == Count(e, env, facts)
      ok    == Selectable(e, env, facts)
  IN IF e.field
     THEN Result(Unless(ok /\ n = 1 /\ facts[e.name].field # Unset, state),
                 facts[e.name].field)
     ELSE Result(Unless(ok, state), Global(IF n > 0 THEN e.name ELSE "", n))

Called(method, args, state) ==
  [state EXCEPT !.calls = Append(@, [method |-> method, args |-> args]),
                !.status = Results[method].status]

RECURSIVE Eval(_, _, _), EvalAll(_, _, _, _), Do(_, _, _)

(* Of a relation the right-hand side is evaluated first, of which the      *)
(* manual says nothing.                                                    *)
EvalRelop(e, env, state) ==
  LET right == Eval(e.arg2, env, state)
      left  == Eval(e.arg1, env, right.state)
  IN IF Over(left.state) THEN left
     ELSE Result(Unless(Comparable(left.val, right.val), left.state),
                 Bool(Holds(left.val.v, e.relop, right.val.v)))

(* The truth of a result, negated or not.                                  *)
TruthOf(r, positive) ==
  IF Over(r.state) THEN r
  ELSE Result(Unless(HasTruth(r.val), r.state), Bool(IsTrue(r.val) = positive))

(* "evaluation stops immediately when the result is known"                 *)
EvalBoolean(e, env, state) ==
  LET left  == TruthOf(Eval(e.arg1, env, state), TRUE)
      known == IsTrue(left.val) = (e.kind = "or")
  IN IF known \/ Over(left.state) THEN left
     ELSE TruthOf(Eval(e.arg2, env, left.state), TRUE)

(* The local variables given in a call are seen by what it resolves.       *)
EvalCall(e, env, state) ==
  LET args     == EvalAll(e.args, env, state, <<>>)
      given[i \in DOMAIN e.locals] == Operand(e.locals[i].value, env)
      set(x)   == {i \in DOMAIN e.locals : e.locals[i].x = x /\ given[i] # Nil}
      inner    == [x \in Locals |-> IF set(x) = {} THEN env[x] ELSE given[Min(set(x))]]
      named    == args.val # <<>>
      goal     == IF named THEN args.val[1].name ELSE FirstTarget
  IN IF Over(args.state) THEN args
     ELSE IF e.method # "resolve"
     THEN Result(Called(e.method, args.val, args.state), Results[e.method].value)
     ELSE IF goal \notin DOMAIN source \/ (named /\ args.val[1].type # "string")
     THEN Result(Unless(FALSE, args.state), Unset)
     ELSE Result(Do(source[goal], inner, args.state), Integer(1))

Eval(e, env, state) ==
  IF Over(state) THEN Result(state, Unset)
  ELSE CASE e.kind = "const"         -> Result(state, e.val)
         [] e.kind = "local"         -> Result(state, Local(e.x, env))
         [] e.kind = "fact"          -> FactReference(e, env, state)
         [] e.kind = "relop"         -> EvalRelop(e, env, state)
         [] e.kind = "not"           -> TruthOf(Eval(e.arg1, env, state), FALSE)
         [] e.kind \in {"or", "and"} -> EvalBoolean(e, env, state)
         [] e.kind = "call"          -> EvalCall(e, env, state)

(* The arguments of a call, from left to right.                            *)
EvalAll(es, env, state, vals) ==
  IF es = <<>> THEN Result(state, vals)
  ELSE LET first == Eval(Head(es), env, state)
       IN EvalAll(Tail(es), env, first.state, Append(vals, first.val))

-------------------------------------------------------------------------------
(* An assignment of facts needs as many of them on both sides; a name that *)
(* has none yet gets those of the right-hand side.                         *)
Assigned(lvalue, val, env, state) ==
  LET facts == state.facts
      name  == lvalue.name
      n     == Count(lvalue, env, facts)
      fresh == facts[name].n = 0 /\ lvalue.select = <<>>
      fits  == IF lvalue.field THEN n = 1 /\ val.type \in Simple
               ELSE val.type = "global" /\ (fresh \/ n = val.v)
      new   == IF lvalue.field THEN [n |-> 1, field |-> val]
               ELSE [n |-> val.v, field |-> facts[val.name].field]
  IN IF ~fits \/ ~Selectable(lvalue, env, facts) THEN Unless(FALSE, state)
     ELSE IF val.type = "global" /\ val.v = 0 THEN state
     ELSE [state EXCEPT !.facts[name] = new]

DoStatement(s, env, state) ==
  CASE s.kind = "call"   -> Eval(s, env, state).state
    [] s.kind = "assign" ->
         LET r == Eval(s.rvalue, env, state)
         IN IF Over(r.state) THEN r.state ELSE Assigned(s.lvalue, r.val, env, r.state)
    [] s.kind = "if" ->
         LET c == TruthOf(Eval(s.condition, env, state), TRUE)
         IN Do(IF IsTrue(c.val) THEN s.then ELSE s.else, env, c.state)

(* The statements one after the other.                                     *)
Do(statements, env, state) ==
  IF statements = <<>> \/ Over(state) THEN state
  ELSE Do(Tail(statements), env, DoStatement(Head(statements), env, state))

(* What the actions of a goal mean.                                        *)
Meaning(goal) == Do(source[goal], NoLocals, Beginning)
================================================================================
