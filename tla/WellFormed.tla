------------------------------- MODULE WellFormed -------------------------------
(***************************************************************************)
(* Well-formed byte code: code for which it is known, before every         *)
(* instruction, how many values and scopes it has put on the stacks of     *)
(* module Machine.  This is what the theorems about the machine need of    *)
(* code; the compiler (src/compiler.c) is meant to generate no other.      *)
(***************************************************************************)
EXTENDS Machine

Opcodes ==
  {"PUSH", "PUSH_GLOBAL", "PUSH_LOCALS", "POP_LOCALS", "POP_DISCARD", "GET_LOCAL", "FILTER",
   "GET_FIELD", "SET_FIELD", "SET", "CMP", "BRANCH", "CALL", "HALT"}

(* How many values an instruction takes from the stack and puts on it. *)
Pops(instr) ==
  CASE instr.op = "PUSH_LOCALS"               -> 2 * instr.n
    [] instr.op = "FILTER"                    -> 4
    [] instr.op = "SET_FIELD"                 -> 3
    [] instr.op \in {"GET_FIELD", "SET"}      -> 2
    [] instr.op = "CMP"                       -> IF instr.relop = "!" THEN 1 ELSE 2
    [] instr.op = "CALL"                      -> instr.narg + 1
    [] instr.op = "BRANCH"                    -> IF instr.when = "always" THEN 0 ELSE 1
    [] instr.op = "POP_DISCARD"               -> 1
    [] OTHER                                  -> 0

Pushes(instr) ==
  IF instr.op \in {"PUSH", "PUSH_GLOBAL", "GET_LOCAL", "FILTER", "GET_FIELD", "CMP", "CALL"}
  THEN 1 ELSE 0

ScopesBefore(instr) == IF instr.op = "POP_LOCALS" THEN 1 ELSE 0
ScopesAfter(instr) == IF instr.op = "PUSH_LOCALS" THEN 1 ELSE 0

(* The heights of stack and scopes before an instruction, and after it. *)
Height == [stack : Nat, scopes : Nat]

After(instr, h) ==
  [stack  |-> h.stack - Pops(instr) + Pushes(instr),
   scopes |-> h.scopes - ScopesBefore(instr) + ScopesAfter(instr)]

IsInstr(chunk, pc) == pc \in DOMAIN chunk /\ chunk[pc].op # "DATA"

Successors(chunk, pc) ==
  LET instr == chunk[pc] IN
  CASE instr.op = "HALT"   -> {}
    [] instr.op = "BRANCH" -> {pc + instr.diff} \cup (IF instr.when = "always" THEN {} ELSE {pc + 1})
    [] OTHER               -> {pc + Words(instr)}

(* Nothing comes directly before a CALL but the PUSH of a method's id. *)
PushesMethod(instr) == instr.op = "PUSH" /\ instr.val.v \in DOMAIN Methods

(* h: the heights before every instruction of the chunk.                   *)
Leads(chunk, h, pc, next) ==
  /\ next > pc /\ IsInstr(chunk, next)
  /\ h[next] = After(chunk[pc], h[pc])
  /\ chunk[next].op = "CALL" => PushesMethod(chunk[pc])

InstrWellFormed(chunk, h, pc) ==
  LET instr == chunk[pc] IN
  /\ instr.op \in Opcodes
  /\ h[pc] \in Height
  /\ instr.op = "PUSH_LOCALS" => instr.n \in Nat
  /\ instr.op = "CALL" => instr.narg \in Nat
  /\ instr.op = "BRANCH" => instr.diff \in Nat /\ instr.when \in {"always", "true", "false"}
  /\ instr.op = "HALT" => h[pc] = [stack |-> 0, scopes |-> 0]
  /\ h[pc].stack >= Pops(instr) /\ h[pc].scopes >= ScopesBefore(instr)
  /\ \A next \in Successors(chunk, pc) : Leads(chunk, h, pc, next)

WellFormed(prog, heights) ==
  \A t \in Targets :
    LET chunk == prog[t]
        h     == heights[t]
    IN /\ chunk \in Seq(ToSet(chunk))
       /\ IsInstr(chunk, 1) /\ chunk[1].op # "CALL"
       /\ h[1] = [stack |-> 0, scopes |-> 0]
       /\ \A pc \in DOMAIN chunk :
            chunk[pc].op # "DATA" => InstrWellFormed(chunk, h, pc)
================================================================================
