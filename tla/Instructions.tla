------------------------------ MODULE Instructions ------------------------------
(***************************************************************************)
(* Values of the virtual machine and its instructions                      *)
(* (src/include/dres/vm.h).                                                *)
(*                                                                         *)
(* A value has a type and a number: that of an integer or double, the      *)
(* place of a string in the order of strings, of which 0 is the empty one, *)
(* or how many facts a global has.  A name tells goals and facts apart.    *)
(*                                                                         *)
(* A chunk of code is a sequence of words.  An instruction that needs more *)
(* than one is followed by words of data.                                  *)
(***************************************************************************)
EXTENDS Naturals, Sequences

CONSTANTS
  Wide,      \* the first integer that does not fit into PUSH (0xfffe)
  Methods    \* names of the methods, the position is the id

ASSUME WideAssumption == Wide \in Nat \ {0, 1}

Value(type, v, name) == [type |-> type, v |-> v, name |-> name]

Integer(n)      == Value("integer", n, "")
String(n, text) == Value("string", n, text)
Global(name, n) == Value("global", n, name)
Nil             == Value("nil", 0, "")
Unset           == Value("unknown", 0, "")

(* DRES_OP_EQ and DRES_OP_NEQ, the operators of selectors. *)
Eq  == 1
Neq == 2

Simple == {"integer", "double", "string"}

-------------------------------------------------------------------------------
Word(op) == <<[op |-> op]>>

Data == Word("DATA")

(* PUSH of an integer takes one word or two, of everything else at least   *)
(* two.                                                                    *)
Push(val) ==
  <<[op |-> "PUSH", val |-> val]>>
    \o IF val.type = "integer" /\ val.v \in 0..(Wide - 1) THEN <<>> ELSE Data

PushGlobal(name)   == <<[op |-> "PUSH_GLOBAL", name |-> name]>> \o Data
PushLocals(n)      == <<[op |-> "PUSH_LOCALS", n |-> n]>>
GetLocal(x)        == <<[op |-> "GET_LOCAL", x |-> x]>>
Filter(n)          == <<[op |-> "FILTER", n |-> n]>>
Cmp(relop)         == <<[op |-> "CMP", relop |-> relop]>>
Call(narg)         == <<[op |-> "CALL", narg |-> narg]>>
Branch(when, diff) == <<[op |-> "BRANCH", when |-> when, diff |-> diff]>>

Words(instr) ==
  CASE instr.op = "PUSH"        -> Len(Push(instr.val))
    [] instr.op = "PUSH_GLOBAL" -> 2
    [] OTHER                    -> 1
================================================================================
