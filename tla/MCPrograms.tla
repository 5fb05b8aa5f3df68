------------------------------- MODULE MCPrograms -------------------------------
(***************************************************************************)
(* Actions with which TLC checks module Programs.                          *)
(***************************************************************************)
EXTENDS Programs

MCMethods == <<"resolve", "yes", "no", "fail", "err", "new">>

MCResults ==
  [yes  |-> [status |-> "success", value |-> Integer(1)],
   no   |-> [status |-> "success", value |-> Integer(0)],
   fail |-> [status |-> "fail",    value |-> Unset],
   err  |-> [status |-> "error",   value |-> Unset],
   new  |-> [status |-> "success", value |-> Global("orphan", 1)]]

(* 'orphan' is the fact that the method 'new' creates. *)
MCStore ==
  [none   |-> [n |-> 0, field |-> Unset],
   bare   |-> [n |-> 1, field |-> Unset],
   one    |-> [n |-> 1, field |-> Integer(1)],
   two    |-> [n |-> 2, field |-> String(1, "s")],
   orphan |-> [n |-> 1, field |-> Integer(2)]]

-------------------------------------------------------------------------------
Const(val) == [kind |-> "const", val |-> val]
LocalVar(x) == [kind |-> "local", x |-> x]
Facts(name, select) ==
  [kind |-> "fact", name |-> name, select |-> select, field |-> FALSE]
Field(name, select) ==
  [kind |-> "fact", name |-> name, select |-> select, field |-> TRUE]
Select(op, value) == <<[op |-> op, value |-> value]>>
CallOf(method, args, locals) ==
  [kind |-> "call", method |-> method, args |-> args, locals |-> locals]
Binary(kind, arg1, arg2) == [kind |-> kind, arg1 |-> arg1, arg2 |-> arg2]
Relation(relop, arg1, arg2) ==
  [kind |-> "relop", relop |-> relop, arg1 |-> arg1, arg2 |-> arg2]
Not(arg) == [kind |-> "not", arg1 |-> arg]
Assign(lvalue, rvalue) == [kind |-> "assign", lvalue |-> lvalue, rvalue |-> rvalue]
If(condition, then, else) ==
  [kind |-> "if", condition |-> condition, then |-> then, else |-> else]

Zero == Const(Integer(0))
One  == Const(Integer(1))
Big  == Const(Integer(65534))
Empty == Const(String(0, "empty"))
Text == Const(String(1, "s"))
Half == Const(Value("double", 1, ""))

Yes  == CallOf("yes", <<>>, <<>>)
No   == CallOf("no", <<>>, <<>>)
Fail == CallOf("fail", <<>>, <<>>)
Err  == CallOf("err", <<>>, <<>>)
New  == CallOf("new", <<>>, <<>>)

Integers == {Zero, One, Big, Yes, No, Field("one", <<>>)}
Strings  == {Empty, Text}
FactSets == {Facts("none", <<>>), Facts("one", <<>>), Facts("two", <<>>),
             Facts("one", Select(Neq, One)), Facts("one", Select(Eq, LocalVar(0))),
             Facts("two", Select(Eq, Text))}
Failing  == {Fail, Err, Field("two", <<>>), Field("bare", <<>>), Facts("two", Select(Eq, One))}

Leaves == Integers \cup Strings \cup FactSets \cup Failing \cup {LocalVar(0), Half}
Few    == {One, Yes, No, Err, LocalVar(0), Facts("none", <<>>)}

Booleans(S, T) == {Binary(kind, e, f) : kind \in {"or", "and"}, e \in S, f \in T}
Relations(relops, S) == {Relation(relop, e, f) : relop \in relops, e \in S, f \in S}
Nots(S) == {Not(e) : e \in S}

(* Conditions up to three operators deep, of equal types where compared    *)
(* and without a negated empty string.                                     *)
Conditions ==
  Leaves \cup Booleans(Leaves, Leaves)
    \cup Booleans(Few, Booleans(Few, Few)) \cup Booleans(Booleans(Few, Few), Few)
    \cup Nots(Leaves \ {Empty}) \cup Nots(Booleans(Few, Few))
    \cup Relations({"==", "!=", "<", ">="}, Integers \cup {Fail})
    \cup Relations({"==", "<="}, Strings)
    \cup Booleans(Relations({"<"}, {Zero, One, Yes}), Nots(Few))

-------------------------------------------------------------------------------
Only(statements) == [goal |-> statements, sub |-> <<>>]
Twice(S) == {<<s, t>> : s \in S, t \in S}

Branches == {<<CallOf("yes", <<One>>, <<>>)>>,
             <<CallOf("no", <<Zero>>, <<>>), CallOf("yes", <<>>, <<>>)>>}

(* What is done after the condition shows that it left nothing behind.     *)
ConditionSources ==
  {Only(<<If(c, <<CallOf("yes", <<One>>, <<>>)>>, else),
          CallOf("no", <<Zero, Text>>, <<>>)>>) :
     c \in Conditions, else \in {<<>>, <<CallOf("yes", <<Zero>>, <<>>)>>}}

(* Assignments, two in a row. *)
Assignments ==
  {Assign(Field(name, select), value) :
     name \in {"none", "one", "two"}, select \in {<<>>, Select(Eq, One)},
     value \in {One, Text, Field("one", <<>>), Field("two", <<>>), LocalVar(0), New}}
  \cup
  {Assign(Facts(name, select), value) :
     name \in {"one", "two"}, select \in {<<>>, Select(Neq, One)},
     value \in {One, Facts("one", <<>>), Facts("two", <<>>), Facts("none", <<>>), New}}
  \cup
  {Assign(Facts("none", <<>>), value) :
     value \in {Facts("one", <<>>), Facts("two", <<>>), Facts("none", <<>>), New, Yes}}

AssignmentSources == {Only(ss) : ss \in Twice(Assignments)}

(* Conditionals within both branches of another one. *)
NestedSources ==
  {Only(<<If(c, <<If(d, then, else)>>, <<If(d, else, <<>>), Yes>>), No>>) :
     c \in Few, d \in Few, then \in Branches, else \in Branches \cup {<<>>}}

-------------------------------------------------------------------------------
(* 'sub' is resolved with local variables, once or twice, also in an       *)
(* argument or a condition, and with others inside of it.                  *)
With(x, value) == [x |-> x, value |-> value]
Resolve(args, locals) == CallOf("resolve", args, locals)
Sub == Const(String(1, "sub"))

LocalSets == {<<>>, <<With(0, Zero)>>, <<With(0, One), With(1, Text)>>,
              <<With(1, LocalVar(0))>>}

Resolving == {Resolve(<<Sub>>, locals) : locals \in LocalSets}
               \cup {Resolve(<<One>>, <<>>), Resolve(<<Sub, Big>>, <<With(0, Big)>>),
                     Resolve(<<>>, <<With(0, One)>>), Resolve(<<Text>>, <<>>)}

GoalBodies ==
  {<<r, Yes>> : r \in Resolving}
    \cup {<<If(Binary("and", Yes, r), <<r, Yes>>, <<No>>)>> : r \in Resolving}
    \cup {<<CallOf("yes", <<One, Resolve(<<Sub>>, <<With(0, One)>>), LocalVar(0)>>,
                   <<With(1, One)>>)>>}

SubBodies ==
  {<<>>, <<Fail>>, <<CallOf("no", <<LocalVar(0), LocalVar(1)>>, <<>>)>>,
   <<If(LocalVar(0), <<Yes>>, <<Err>>), No>>,
   <<Assign(Field("one", <<>>), LocalVar(1)), CallOf("yes", <<Field("one", <<>>)>>, <<>>)>>,
   <<CallOf("yes", <<Zero, Err>>, <<>>)>>,
   <<CallOf("err", <<LocalVar(0)>>, <<With(0, Text)>>)>>,
   <<CallOf("yes", <<LocalVar(0)>>, <<With(0, Text)>>),
     CallOf("no", <<LocalVar(0)>>, <<>>)>>}

ResolveSources == {[goal |-> g, sub |-> s] : g \in GoalBodies, s \in SubBodies}

(* As many local variables as arguments of a method as the stack has room  *)
(* for, beside the argument of 'resolve'.                                  *)
ManyLocals == CallOf("yes", [i \in 1..(StackSize - 1) |-> LocalVar(0)], <<>>)
ArgumentSources ==
  {[goal |-> <<Resolve(<<Sub>>, <<With(0, One)>>)>>, sub |-> <<ManyLocals>>]}

MCSources ==
  ConditionSources \cup AssignmentSources \cup NestedSources \cup ResolveSources
    \cup ArgumentSources
================================================================================
