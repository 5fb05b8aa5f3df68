-------------------------------- MODULE Compiler --------------------------------
(***************************************************************************)
(* The compiler of actions to byte code (src/compiler.c), a function of    *)
(* the syntax trees that the parser builds (src/include/dres/dres.h).      *)
(* A fact has one field, so a reference selects by it at most once; field  *)
(* says whether the field or the facts are meant.                          *)
(***************************************************************************)
EXTENDS Instructions, SequencesExt

CONSTANT Nesting   \* how deep the trees are at most

ASSUME NestingAssumption == Nesting \in Nat

-------------------------------------------------------------------------------
(* Expressions and statements, by their depth.                             *)

Operands ==
  [kind : {"const"}, val : [type : Simple, v : Nat, name : STRING]]
    \cup [kind : {"local"}, x : Nat]

(* select is empty or has one selector. *)
Varrefs ==
  [kind : {"fact"}, name : STRING, field : BOOLEAN,
   select : {<<>>} \cup [{1} -> [op : {Eq, Neq}, value : Operands]]]

CallsOf(E) ==
  [kind : {"call"}, method : ToSet(Methods), args : Seq(E),
   locals : Seq([x : Nat, value : Operands])]

Leafs == Operands \cup Varrefs

ExprsOf(E) ==
  Leafs
    \cup [kind : {"relop"}, relop : {"==", "!=", "<", "<=", ">", ">="}, arg1 : E, arg2 : E]
    \cup [kind : {"not"}, arg1 : E]
    \cup [kind : {"or", "and"}, arg1 : E, arg2 : E]
    \cup CallsOf(E)

Exprs[n \in Nat] == IF n = 0 THEN Leafs ELSE ExprsOf(Exprs[n - 1])

Expressions == Exprs[Nesting]

SimpleStatements ==
  CallsOf(Expressions) \cup [kind : {"assign"}, lvalue : Varrefs, rvalue : Expressions]

StatementsOf(S) ==
  SimpleStatements
    \cup [kind : {"if"}, condition : Expressions, then : Seq(S), else : Seq(S)]

Statements[n \in Nat] == IF n = 0 THEN SimpleStatements ELSE StatementsOf(Statements[n - 1])

Actions == Statements[Nesting]

-------------------------------------------------------------------------------
MethodId(name) == CHOOSE i \in DOMAIN Methods : Methods[i] = name

FieldName == String(1, "field")

(* The code of one tree after the other. *)
Each(code, trees) == FlattenSeq([i \in DOMAIN trees |-> code[trees[i]]])

(* PUSH_VALUE of a constant or a local variable. *)
PushValue(e) == IF e.kind = "local" THEN GetLocal(e.x) ELSE Push(e.val)

(* A reference to facts, filtered by the selectors that compare. *)
CompileFacts(e) ==
  PushGlobal(e.name)
    \o IF e.select = <<>> THEN <<>>
       ELSE Push(Integer(e.select[1].op)) \o PushValue(e.select[1].value)
              \o Push(FieldName) \o Filter(1)

CompileVarref(e) ==
  CompileFacts(e) \o IF e.field THEN Push(FieldName) \o Word("GET_FIELD") ELSE <<>>

(* Both branches go to the PUSH at the end, which the third one skips. *)
CompileBoolean(arg1, arg2, when, otherwise, result) ==
  LET brP == Len(arg1) + Len(arg2) + 3     \* offsets of the branches
      brX == Len(arg1)
      brT == Len(arg1) + Len(arg2) + 1
  IN arg1 \o Branch(when, brP - brX + 1)
       \o arg2 \o Branch(when, brP - brT + 1)
       \o Push(Integer(otherwise)) \o Branch("always", 2) \o Push(Integer(result))

(* The arguments from left to right, values and ids of the locals, the id  *)
(* of the method; the scope is open during the call only.                  *)
PushLocal(local) == PushValue(local.value) \o Push(Integer(local.x))

CompileCall(e, code) ==
  LET locals == FlattenSeq([i \in DOMAIN e.locals |-> PushLocal(e.locals[i])])
      call   == Push(Integer(MethodId(e.method))) \o Call(Len(e.args))
  IN Each(code, e.args)
       \o IF e.locals = <<>> THEN call
          ELSE locals \o PushLocals(Len(e.locals)) \o call \o Word("POP_LOCALS")

(* compile_expr, given the code of the subexpressions; a comparison takes  *)
(* its second argument first.                                              *)
ExprCode(e, code) ==
  CASE e.kind \in {"const", "local"} -> PushValue(e)
    [] e.kind = "fact"  -> CompileVarref(e)
    [] e.kind = "relop" -> code[e.arg2] \o code[e.arg1] \o Cmp(e.relop)
    [] e.kind = "not"   -> code[e.arg1] \o Cmp("!")
    [] e.kind = "or"    -> CompileBoolean(code[e.arg1], code[e.arg2], "true", 0, 1)
    [] e.kind = "and"   -> CompileBoolean(code[e.arg1], code[e.arg2], "false", 1, 0)
    [] e.kind = "call"  -> CompileCall(e, code)

CompileExpr[e \in Expressions] == ExprCode(e, CompileExpr)

-------------------------------------------------------------------------------
(* Deviation: the value that a call returns stays on the stack *)
ValueKept(call) == call

(* A call that is a statement. *)
ValueDiscarded(call) == call \o Word("POP_DISCARD")

CompileAssign(s) ==
  CompileExpr[s.rvalue] \o CompileFacts(s.lvalue)
    \o IF s.lvalue.field THEN Push(FieldName) \o Word("SET_FIELD") ELSE Word("SET")

(* Deviation: the first branch goes to the one that ends the if-branch *)
CompileIfShort(condition, then, else, hasElse) ==
  condition
    \o Branch("false", Len(then) + 1)
    \o then
    \o IF hasElse THEN Branch("always", Len(else) + 1) \o else ELSE <<>>

(* Without an else-branch the first branch goes to the end, else behind    *)
(* the branch that ends the if-branch.                                     *)
CompileIf(condition, then, else, hasElse) ==
  LET brIf   == Len(condition)                                 \* offsets
      brElse == Len(condition) + 1 + Len(then)
      brEnd  == IF hasElse THEN brElse + 1 + Len(else) ELSE brElse
  IN condition
       \o Branch("false", IF hasElse THEN brElse - brIf + 1 ELSE brEnd - brIf)
       \o then
       \o IF hasElse THEN Branch("always", brEnd - brElse) \o else ELSE <<>>

(* compile_stmt, given the code of the statements in the branches. *)
StatementCode(s, code) ==
  CASE s.kind = "call"   -> ValueDiscarded(CompileCall(s, CompileExpr))
    [] s.kind = "assign" -> CompileAssign(s)
    [] s.kind = "if"     -> CompileIf(CompileExpr[s.condition], Each(code, s.then),
                                      Each(code, s.else), s.else # <<>>)

CompileStatement[s \in Actions] == StatementCode(s, CompileStatement)

CompileTarget(statements) == Each(CompileStatement, statements) \o Word("HALT")
================================================================================
