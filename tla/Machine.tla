--------------------------------- MODULE Machine --------------------------------
(***************************************************************************)
(* The virtual machine: vm_exec (src/vm.c), its instructions               *)
(* (src/vm-instr.c), stack (src/vm-stack.c) and local scopes               *)
(* (src/vm-local.c), exceptions (src/include/dres/vm.h), method calls      *)
(* (src/vm-method.c) and the recursive ones of the builtin 'resolve'       *)
(* (src/builtin.c).                                                        *)
(*                                                                         *)
(* A fact has one field, and all facts of a name agree on it.              *)
(***************************************************************************)
EXTENDS Instructions, FiniteSets, SequencesExt

CONSTANTS
  Targets,    \* the targets with actions
  Goal,       \* the one whose actions are run
  FirstTarget,\* the one that 'resolve' without arguments resolves
  Locals,     \* ids of the local variables
  Results,    \* what the handlers of the methods do: [status, value]
  Store,      \* the facts at the beginning: [name -> [n, field]]
  StackSize   \* entries allocated at the beginning (DEFAULT_STACK_SIZE)

ASSUME MachineAssumption ==
  /\ {Goal, FirstTarget} \subseteq Targets /\ Locals \subseteq Nat /\ StackSize \in Nat
  /\ \A m \in DOMAIN Results : Results[m].status \in {"success", "error", "fail"}
  /\ \A id \in DOMAIN Methods : Methods[id] \in DOMAIN Results \cup {"resolve"}

VARIABLES
  code,       \* the chunk of every target
  mode,       \* "running", "error" or "fail" while an exception is thrown, "done"
  status,     \* what the outermost vm_exec returned
  regs,       \* vm->chunk, pc, ninstr and nsize
  stack,      \* vm->stack
  nalloc,     \* its allocated entries
  scopes,     \* vm->scope, the current one is the last
  catch,      \* vm->catch: depth of stack and scopes at entry, last one is current
  saved,      \* the context that each running 'resolve' has saved
  facts,      \* the fact store
  calls,      \* history: the calls of methods with their arguments
  callers     \* history: stack and scopes when the nested vm_execs began

machine == <<mode, status, regs, stack, nalloc, scopes, catch, saved>>
vars == <<code, machine, facts, calls, callers>>

-------------------------------------------------------------------------------
Longer(n) == IF n > nalloc THEN n ELSE nalloc

(* The instructions of a chunk from pc on. *)
NInstr(chunk, pc) == Cardinality({i \in pc .. Len(chunk) : chunk[i].op # "DATA"})

(* vm_exec sets the registers. *)
Started(target) ==
  [chunk |-> target, pc |-> 1,
   ninstr |-> NInstr(code[target], 1), nsize |-> Len(code[target])]

(* VM_TRY keeps how deep stack and scopes are, and drops that at the end.  *)
TryWithoutScope(stk) == [depth |-> Len(stk), scope |-> 0]     \* Deviation

Try(stk) == [depth |-> Len(stk), scope |-> Len(scopes)]

TryRemains == UNCHANGED catch     \* Deviation: vm->catch stays

TryDone == catch' = Front(catch)

Idle ==
  /\ mode = "running" /\ status = "none"
  /\ regs = Started(Goal)
  /\ stack = <<>> /\ nalloc = StackSize /\ scopes = <<>>
  /\ catch = <<Try(<<>>)>> /\ saved = <<>>
  /\ facts = Store /\ calls = <<>> /\ callers = <<>>

OnInstr(op) ==
  /\ mode = "running" /\ regs.ninstr > 0
  /\ regs.pc \in DOMAIN code[regs.chunk]
  /\ code[regs.chunk][regs.pc].op = op

Instr == code[regs.chunk][regs.pc]

Advanced(r, words) ==
  [r EXCEPT !.pc = @ + words, !.ninstr = @ - 1, !.nsize = @ - words]

Advance == regs' = Advanced(regs, Words(Instr))

(* The stack from the top: vm_peek, vm_pop. *)
Top(k) == IF k < Len(stack) THEN stack[Len(stack) - k] ELSE Unset
Popped(k) == SubSeq(stack, 1, Len(stack) - k)

(* VM_RAISE: what was popped before is gone (some instructions below pop   *)
(* more or less before they fail, which the handler makes up for).         *)
Raise(k) ==
  /\ mode' = "error"
  /\ stack' = Popped(k)
  /\ UNCHANGED <<code, status, regs, nalloc, scopes, catch, saved, facts, calls,
                 callers>>

(* Most instructions replace the topmost k entries. *)
Replace(k, values) ==
  /\ stack' = Popped(k) \o values
  /\ Advance
  /\ UNCHANGED <<code, mode, status, scopes, catch, saved, callers>>

-------------------------------------------------------------------------------
(* CHECK_AND_GROW and the push. *)
PushChecked(val) ==
  IF regs.nsize < 2 THEN Raise(0)
  ELSE /\ Replace(0, <<val>>)
       /\ nalloc' = Longer(Len(stack) + 1)
       /\ UNCHANGED <<facts, calls>>

InstrPush == OnInstr("PUSH") /\ PushChecked(Instr.val)

(* vm_global_lookup, or vm_global_name for a name without facts. *)
InstrPushGlobal ==
  OnInstr("PUSH_GLOBAL") /\ PushChecked(Global(Instr.name, facts[Instr.name].n))

(* PUSH LOCALS pops id and value of each variable, the last one first; a   *)
(* variable set to an unset one stays unset.                               *)
InstrPushLocals ==
  /\ OnInstr("PUSH_LOCALS")
  /\ LET n == Instr.n
         Id(i) == Top(2 * (i - 1))
         Val(i) == Top(2 * i - 1)
         Given(x) == {i \in 1..n : Id(i).v = x /\ Val(i).type # "nil"}
         Latest(x) == CHOOSE i \in Given(x) : \A j \in Given(x) : j <= i
         scope == [x \in Locals |-> IF Given(x) = {} THEN Unset ELSE Val(Latest(x))]
     IN IF \A i \in 1..n : /\ Id(i).type = "integer" /\ Id(i).v \in Locals
                           /\ Val(i).type \in Simple \cup {"nil"}
        THEN /\ stack' = Popped(2 * n) /\ scopes' = Append(scopes, scope)
             /\ Advance
             /\ UNCHANGED <<code, mode, status, nalloc, catch, saved, facts, calls,
                            callers>>
        ELSE /\ mode' = "error" /\ scopes' = Append(scopes, [x \in Locals |-> Unset])
             /\ UNCHANGED <<code, status, regs, stack, nalloc, catch, saved, facts,
                            calls, callers>>

InstrPopLocals ==
  /\ OnInstr("POP_LOCALS")
  /\ IF scopes = <<>> THEN Raise(0)
     ELSE /\ scopes' = Front(scopes)
          /\ Advance
          /\ UNCHANGED <<code, mode, status, stack, nalloc, catch, saved, facts,
                         calls, callers>>

InstrPopDiscard ==
  /\ OnInstr("POP_DISCARD")
  /\ Replace(1, <<>>) /\ UNCHANGED <<nalloc, facts, calls>>

(* vm_scope_get: the innermost scope in which the variable is set. *)
LocalValue(scps, x) ==
  LET set == {i \in DOMAIN scps : scps[i][x] # Unset}
  IN IF set = {} THEN Nil ELSE scps[CHOOSE i \in set : \A j \in set : j <= i][x]

(* GET LOCAL does not grow the stack. *)
InstrGetLocal ==
  /\ OnInstr("GET_LOCAL")
  /\ IF Len(stack) = nalloc THEN Raise(0)
     ELSE Replace(0, <<LocalValue(scopes, Instr.x)>>) /\ UNCHANGED <<nalloc, facts, calls>>

-------------------------------------------------------------------------------
(* Instructions on facts.                                                  *)

(* FILTER with one selector: relation, value, field name on the stack.     *)
InstrFilter ==
  /\ OnInstr("FILTER")
  /\ LET g     == Top(3)
         value == Top(1)
         field == facts[g.name].field
         keep  == (field # Unset /\ field.v = value.v) # (Top(2).v = Neq)
     IN IF Top(0).type # "string" \/ g.type # "global" THEN Raise(0)
        ELSE IF g.v > 0 /\ field # Unset /\ field.type # value.type THEN Raise(3)
             ELSE /\ Replace(4, <<IF g.v = 0 \/ keep THEN g ELSE Global("", 0)>>)
                  /\ UNCHANGED <<nalloc, facts, calls>>

(* The global on which GET FIELD and SET FIELD work has exactly one fact.  *)
OneFact(k) == Top(0).type = "string" /\ Top(k).type = "global" /\ Top(k).v = 1

InstrGetField ==
  /\ OnInstr("GET_FIELD")
  /\ IF OneFact(1) /\ facts[Top(1).name].field # Unset
     THEN /\ Replace(2, <<facts[Top(1).name].field>>)
          /\ UNCHANGED <<nalloc, facts, calls>>
     ELSE Raise(0)

InstrSetField ==
  /\ OnInstr("SET_FIELD")
  /\ IF OneFact(1) /\ Top(2).type \in Simple
     THEN /\ Replace(3, <<>>)
          /\ facts' = [facts EXCEPT ![Top(1).name].field = Top(2)]
          /\ UNCHANGED <<nalloc, calls>>
     ELSE Raise(0)

(* vm_instr_set_var: the facts of the source are inserted under a name     *)
(* that has none, or copied one by one over those of the destination.      *)
InstrSet ==
  /\ OnInstr("SET")
  /\ LET dst == Top(0)
         src == Top(1)
         isName == dst.name # "" /\ dst.v = 0
     IN IF \/ dst.type # "global" \/ src.type # "global"
           \/ ~isName /\ src.v # dst.v
        THEN Raise(2)
        ELSE /\ Replace(2, <<>>)
             /\ facts' = IF src.v = 0 THEN facts
                         ELSE [facts EXCEPT ![dst.name] =
                                 [n     |-> IF isName THEN @.n + src.v ELSE @.n,
                                  field |-> facts[src.name].field]]
             /\ UNCHANGED <<nalloc, calls>>

-------------------------------------------------------------------------------
(* Conditions.                                                             *)

Compare(v, relop, w) ==
  CASE relop = "==" -> v = w [] relop = "!=" -> v # w
    [] relop = "<"  -> v < w [] relop = "<=" -> v <= w
    [] relop = ">"  -> v > w [] relop = ">=" -> v >= w

Truth(b) == Integer(IF b THEN 1 ELSE 0)

(* CMP of two arguments, the first of which is on top. *)
InstrCmp ==
  /\ OnInstr("CMP") /\ Instr.relop # "!"
  /\ LET arg1 == Top(0)
         arg2 == Top(1)
         invalid == arg1.type = arg2.type /\ arg1.type \notin Simple
     IN IF invalid \/ "unknown" \in {arg1.type, arg2.type}
        THEN Raise(2)
        ELSE /\ Replace(2, <<Truth(/\ arg1.type = arg2.type
                                   /\ Compare(arg1.v, Instr.relop, arg2.v))>>)
             /\ UNCHANGED <<nalloc, facts, calls>>

(* NOT tests a string for NULL, which none is. *)
InstrNot ==
  /\ OnInstr("CMP") /\ Instr.relop = "!"
  /\ IF Top(0).type \notin Simple \cup {"global"} THEN Raise(1)
     ELSE /\ Replace(1, <<Truth(Top(0).type # "string" /\ Top(0).v = 0)>>)
          /\ UNCHANGED <<nalloc, facts, calls>>

(* BRANCH moves only pc: ninstr and nsize get larger than what is left.    *)
InstrBranch ==
  /\ OnInstr("BRANCH")
  /\ LET when   == Instr.when
         diff   == Instr.diff
         arg    == IF when = "always" THEN 0 ELSE 1
         taken  == CASE when = "always" -> TRUE
                     [] when = "true"   -> Top(0).v # 0
                     [] when = "false"  -> Top(0).v = 0
     IN IF \/ when # "always" /\ Top(0).type \notin Simple \cup {"global"}
           \/ taken /\ regs.nsize < diff
        THEN Raise(arg)
        ELSE /\ regs' = [regs EXCEPT !.pc = @ + (IF taken THEN diff ELSE 1)]
             /\ stack' = Popped(arg)
             /\ UNCHANGED <<code, mode, status, nalloc, scopes, catch, saved, facts,
                            calls, callers>>

-------------------------------------------------------------------------------
(* CALL: the id of the method is on top, then the arguments, the last one  *)
(* first.  The handler sees the arguments, and they are popped after it    *)
(* has returned.                                                           *)
Callee == Methods[Top(0).v]
Args   == SubSeq(stack, Len(stack) - Instr.narg, Len(stack) - 1)

(* vm_method_call pushes the value that a successful handler returns. *)
InstrCall ==
  /\ OnInstr("CALL") /\ Callee # "resolve"
  /\ LET result == Results[Callee]
         narg   == Instr.narg
     IN /\ calls' = Append(calls, [method |-> Callee, args |-> Args])
        /\ IF result.status = "success"
           THEN /\ Replace(narg + 1, <<result.value>>)
                /\ nalloc' = Longer(Len(stack) - 1 + narg)
                /\ UNCHANGED facts
           ELSE /\ mode' = result.status
                /\ stack' = Popped(narg + 1)
                /\ nalloc' = Longer(Len(stack) - 1 + narg)
                /\ UNCHANGED <<code, status, regs, scopes, catch, saved, facts,
                               callers>>

(* The goal of 'resolve': the first target, or the one that is named. *)
Resolvable == Args = <<>> \/ (Args[1].type = "string" /\ Args[1].name \in Targets)
ResolvedGoal == IF Args = <<>> THEN FirstTarget ELSE Args[1].name

(* The builtin saves the context and runs the actions of the goal. *)
InstrCallResolve ==
  /\ OnInstr("CALL") /\ Callee = "resolve"
  /\ stack' = Popped(1)
  /\ nalloc' = Longer(Len(stack) - 1 + Instr.narg)
  /\ IF Resolvable
     THEN /\ saved' = Append(saved, regs)
          /\ regs' = Started(ResolvedGoal)
          /\ catch' = Append(catch, Try(Popped(1)))
          /\ callers' = Append(callers, [stack |-> stack', scopes |-> scopes])
          /\ UNCHANGED <<code, mode, status, scopes, facts, calls>>
     ELSE /\ mode' = "error"
          /\ UNCHANGED <<code, status, regs, scopes, catch, saved, facts, calls,
                         callers>>

OutOfInstructions == regs.ninstr <= 0     \* Deviation: HALT does not stop vm_run

AtEnd == regs.ninstr <= 0 \/ OnInstr("HALT")

(* HALT, or no instruction left: vm_exec returns TRUE.  An outer 'resolve' *)
(* restores the context, its arguments are popped and its status pushed.   *)
Halt ==
  /\ mode = "running" /\ AtEnd
  /\ TryDone
  /\ IF saved = <<>>
     THEN /\ mode' = "done" /\ status' = "success"
          /\ UNCHANGED <<regs, stack, saved, callers>>
     ELSE LET r == Last(saved)
          IN /\ regs' = Advanced(r, 1)
             /\ saved' = Front(saved) /\ callers' = Front(callers)
             /\ stack' = Append(Popped(code[r.chunk][r.pc].narg), Integer(1))
             /\ UNCHANGED <<mode, status>>
  /\ UNCHANGED <<code, nalloc, scopes, facts, calls>>

ScopesKept(c) == scopes     \* Deviation: scopes are not popped

ScopesLeft(c) == IF Len(scopes) >= c.scope THEN SubSeq(scopes, 1, c.scope) ELSE <<>>

(* The handler of VM_TRY pops stack and scopes down to where they were and *)
(* vm_exec returns.  'resolve' restores the context and fails in its turn, *)
(* which throws the exception of the vm_exec that runs the call.           *)
Handle ==
  /\ mode \in {"error", "fail"}
  /\ LET c    == Last(catch)
         left == IF Len(stack) > c.depth THEN SubSeq(stack, 1, c.depth) ELSE stack
     IN /\ scopes' = ScopesLeft(c)
        /\ TryDone
        /\ IF saved = <<>>
           THEN /\ mode' = "done" /\ status' = mode
                /\ stack' = left
                /\ UNCHANGED <<regs, saved, callers>>
           ELSE /\ regs' = Last(saved)
                /\ saved' = Front(saved) /\ callers' = Front(callers)
                /\ stack' = SubSeq(left, 1, Len(left)
                                     - code[Last(saved).chunk][Last(saved).pc].narg)
                /\ UNCHANGED <<mode, status>>
  /\ UNCHANGED <<code, nalloc, facts, calls>>

MachineNext ==
  \/ InstrPush \/ InstrPushGlobal \/ InstrPushLocals \/ InstrPopLocals
  \/ InstrPopDiscard \/ InstrGetLocal
  \/ InstrFilter \/ InstrGetField \/ InstrSetField \/ InstrSet
  \/ InstrCmp \/ InstrNot \/ InstrBranch
  \/ InstrCall \/ InstrCallResolve \/ Halt \/ Handle

-------------------------------------------------------------------------------
(* Every running vm_exec has its VM_TRY, and the recursive ones a saved    *)
(* context; the stack never exceeds what is allocated for it.              *)
MachineTypeOK ==
  /\ mode \in {"running", "error", "fail", "done"}
  /\ status \in {"none", "success", "error", "fail"}
  /\ (mode = "done") = (status # "none")
  /\ regs.chunk \in Targets /\ {regs.pc, regs.ninstr, regs.nsize} \subseteq Nat
  /\ nalloc \in Nat /\ Len(stack) <= nalloc
  /\ \A i \in DOMAIN scopes : DOMAIN scopes[i] = Locals
  /\ Len(catch) = Len(saved) + IF mode = "done" THEN 0 ELSE 1
  /\ Len(callers) = Len(saved)
  /\ DOMAIN facts = DOMAIN Store

(* BRANCH leaves ninstr and nsize behind, but the loop of vm_run must end  *)
(* by HALT and never early, and no check against nsize may fail: pc is at  *)
(* an instruction, and both cover what is left of the chunk.               *)
CodeCovered ==
  mode = "running" =>
    LET chunk == code[regs.chunk]
    IN /\ regs.pc \in DOMAIN chunk /\ chunk[regs.pc].op # "DATA"
       /\ regs.ninstr >= NInstr(chunk, regs.pc)
       /\ regs.nsize >= Len(chunk) - regs.pc + 1

(* However a recursive 'resolve' ends, the code that called it finds its   *)
(* scopes as they were and its stack without the arguments, with the       *)
(* returned status if there is one.                                        *)
NestedCallIsNeutral ==
  [][Len(callers') < Len(callers) =>
       LET caller == Last(callers)
           narg   == code[regs'.chunk][Last(saved).pc].narg
           under  == SubSeq(caller.stack, 1, Len(caller.stack) - narg)
       IN /\ scopes' = caller.scopes
          /\ stack' = IF mode' = "running" THEN Append(under, Integer(1)) ELSE under]_vars

(* vm_exec leaves nothing on stack and scopes for the next target.         *)
LeavesNothing ==
  mode = "done" => stack = <<>> /\ scopes = <<>> /\ catch = <<>> /\ saved = <<>>

================================================================================
