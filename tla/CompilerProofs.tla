----------------------------- MODULE CompilerProofs -----------------------------
(***************************************************************************)
(* Theorems about module Machine, for every program whose code is well     *)
(* formed (module WellFormed), and about module Compiled: the compiler     *)
(* generates well-formed code from every syntax tree.                      *)
(***************************************************************************)
EXTENDS Compiled, Integers, FiniteSetTheorems, TLAPS

CONSTANTS
  program,    \* the chunk of every target
  heights     \* the heights before every instruction of them

(* The machine running a well-formed program. *)
MachineInit == code = program /\ WellFormed(program, heights) /\ Idle
MachineSpec == MachineInit /\ [][MachineNext]_vars

-------------------------------------------------------------------------------
(* Sequences of whatever values.                                           *)
IsSeq(s) == \E S : s \in Seq(S)

(* What Append makes of a sequence. *)
LEMMA Appended ==
  ASSUME NEW s, NEW x, IsSeq(s)
  PROVE  /\ IsSeq(Append(s, x)) /\ Len(s) \in Nat /\ Len(Append(s, x)) = Len(s) + 1
         /\ \A i \in 1..Len(s) : Append(s, x)[i] = s[i]
         /\ Append(s, x)[Len(s) + 1] = x
<1>1. PICK S : s \in Seq(S)
  BY DEF IsSeq
<1>2. s \in Seq(S \cup {x}) /\ x \in S \cup {x}
  BY <1>1
<1>3. Append(s, x) \in Seq(S \cup {x})
  BY <1>2
<1> QED
  BY <1>2, <1>3 DEF IsSeq

(* What SubSeq makes of a sequence. *)
LEMMA Prefix ==
  ASSUME NEW s, IsSeq(s), NEW n \in 0..Len(s)
  PROVE  /\ IsSeq(SubSeq(s, 1, n)) /\ Len(s) \in Nat /\ Len(SubSeq(s, 1, n)) = n
         /\ \A i \in 1..n : SubSeq(s, 1, n)[i] = s[i]
<1>1. PICK S : s \in Seq(S)
  BY DEF IsSeq
<1>2. SubSeq(s, 1, n) \in Seq(S)
  BY <1>1
<1> QED
  BY <1>1, <1>2 DEF IsSeq

(* What concatenation with at most one value makes of a sequence. *)
LEMMA Concatenated ==
  ASSUME NEW s, NEW t, IsSeq(s), IsSeq(t)
  PROVE  /\ IsSeq(s \o t) /\ Len(s) \in Nat /\ Len(t) \in Nat /\ Len(s \o t) = Len(s) + Len(t)
         /\ \A i \in 1..Len(s) : (s \o t)[i] = s[i]
         /\ \A i \in 1..Len(t) : (s \o t)[Len(s) + i] = t[i]
<1>1. PICK S : s \in Seq(S)
  BY DEF IsSeq
<1>2. PICK T : t \in Seq(T)
  BY DEF IsSeq
<1>3. s \in Seq(S \cup T) /\ t \in Seq(S \cup T)
  BY <1>1, <1>2
<1>4. s \o t \in Seq(S \cup T)
  BY <1>3
<1> QED
  BY <1>3, <1>4 DEF IsSeq

(* Sequences are equal when their elements are. *)
LEMMA SameSeq ==
  ASSUME NEW s, NEW t, IsSeq(s), IsSeq(t), Len(s) = Len(t),
         \A i \in 1..Len(s) : s[i] = t[i]
  PROVE  s = t
<1>1. PICK S : s \in Seq(S)
  BY DEF IsSeq
<1>2. PICK T : t \in Seq(T)
  BY DEF IsSeq
<1> QED
  BY <1>1, <1>2

(* Front and Last take apart what is not empty. *)
LEMMA FrontAndLast ==
  ASSUME NEW s, IsSeq(s), Len(s) > 0
  PROVE  /\ IsSeq(Front(s)) /\ Len(s) \in Nat /\ Len(Front(s)) = Len(s) - 1
         /\ \A i \in 1..(Len(s) - 1) : Front(s)[i] = s[i]
         /\ Last(s) = s[Len(s)]
<1>1. PICK S : s \in Seq(S)
  BY DEF IsSeq
<1>2. Len(s) - 1 \in 0..Len(s) /\ Len(s) \in Nat
  BY <1>1
<1> QED
  BY <1>2, Prefix DEF Front, Last

(* A sequence of one value. *)
LEMMA OneValue == ASSUME NEW x PROVE IsSeq(<<x>>) /\ Len(<<x>>) = 1 /\ <<x>>[1] = x
<1>1. <<x>> \in Seq({x})
  OBVIOUS
<1> QED
  BY <1>1 DEF IsSeq

(* The empty sequence is the one of length 0. *)
LEMMA NoValue == IsSeq(<<>>) /\ Len(<<>>) = 0
<1>1. <<>> \in Seq({})
  OBVIOUS
<1> QED
  BY <1>1 DEF IsSeq

(* The converse. *)
LEMMA EmptySeq == ASSUME NEW s, IsSeq(s), Len(s) = 0 PROVE s = <<>>
BY NoValue, SameSeq

-------------------------------------------------------------------------------
(* How many words an instruction has. *)
LEMMA WordsAreFew == ASSUME NEW instr PROVE Words(instr) \in {1, 2}
<1>1. ASSUME NEW val PROVE Len(Push(val)) \in {1, 2}
  BY DEF Push, Data, Word
<1> QED
  BY <1>1 DEF Words

(* The instruction at pc is one of those from pc on. *)
LEMMA InstrCounts ==
  ASSUME NEW chunk, IsSeq(chunk), NEW pc, IsInstr(chunk, pc),
         NEW next \in Nat, next > pc
  PROVE  /\ NInstr(chunk, pc) \in Nat /\ NInstr(chunk, next) \in Nat
         /\ NInstr(chunk, next) + 1 <= NInstr(chunk, pc)
<1> DEFINE I(p) == {i \in p .. Len(chunk) : chunk[i].op # "DATA"}
<1>1. Len(chunk) \in Nat /\ pc \in 1..Len(chunk)
  BY DEF IsSeq, IsInstr
<1>2. IsFiniteSet(I(pc)) /\ IsFiniteSet(I(next))
  <2>1. IsFiniteSet(pc .. Len(chunk)) /\ IsFiniteSet(next .. Len(chunk))
    BY <1>1, FS_Interval
  <2> QED
    BY <2>1, FS_Subset
<1>3. pc \in I(pc)
  BY <1>1 DEF IsInstr
<1>4. I(next) \subseteq I(pc) \ {pc}
  BY <1>1
<1>5. /\ IsFiniteSet(I(pc) \ {pc}) /\ Cardinality(I(pc)) \in Nat
      /\ Cardinality(I(pc) \ {pc}) = Cardinality(I(pc)) - 1
  BY <1>2, <1>3, FS_RemoveElement, FS_CardinalityType
<1>6. Cardinality(I(next)) \in Nat /\ Cardinality(I(next)) <= Cardinality(I(pc) \ {pc})
  BY <1>2, <1>4, <1>5, FS_Subset, FS_CardinalityType
<1> QED
  BY <1>5, <1>6 DEF NInstr

-------------------------------------------------------------------------------
(* The inductive invariant.                                                *)
Registers == [chunk : Targets, pc : Nat, ninstr : Int, nsize : Int]

(* Registers r are at an instruction, with d values on the stack and s     *)
(* scopes, of which those above what c keeps are its own.                  *)
At(r, c, d, s) ==
  LET chunk == program[r.chunk]
      h     == heights[r.chunk][r.pc]
  IN /\ r \in Registers /\ IsInstr(chunk, r.pc)
     /\ d = c.depth + h.stack /\ s = c.scope + h.scopes
     /\ r.ninstr >= NInstr(chunk, r.pc) /\ r.nsize >= Len(chunk) - r.pc + 1

(* What the running vm_exec must not touch: everything up to c.            *)
Current == catch[Len(catch)]

Bases ==
  /\ IsSeq(catch) /\ Len(catch) = Len(saved) + 1
  /\ \A k \in 1..Len(catch) : catch[k].depth \in Nat /\ catch[k].scope \in Nat
  /\ catch[1].depth = 0 /\ catch[1].scope = 0
  /\ \A j, k \in 1..Len(catch) :
       j <= k => catch[j].depth <= catch[k].depth /\ catch[j].scope <= catch[k].scope

(* A recursive vm_exec was called by a CALL whose method was popped; the   *)
(* caller's stack and scopes are all there, and vm->catch keeps them.      *)
Caller(k) ==
  /\ IsSeq(callers[k].stack) /\ Len(callers[k].stack) = catch[k + 1].depth
  /\ IsSeq(callers[k].scopes) /\ Len(callers[k].scopes) = catch[k + 1].scope
  /\ At(saved[k], catch[k], Len(callers[k].stack) + 1, Len(callers[k].scopes))
  /\ program[saved[k].chunk][saved[k].pc].op = "CALL"

Under(k) ==
  /\ \A i \in 1..catch[k + 1].depth : stack[i] = callers[k].stack[i]
  /\ \A i \in 1..catch[k + 1].scope : scopes[i] = callers[k].scopes[i]

Frames ==
  /\ IsSeq(saved) /\ IsSeq(callers) /\ Len(callers) = Len(saved)
  /\ Bases
  /\ \A k \in 1..Len(saved) : Caller(k) /\ Under(k)

Balanced ==
  /\ IsSeq(stack) /\ Len(stack) >= Current.depth
  /\ IsSeq(scopes) /\ Len(scopes) >= Current.scope

Running ==
  /\ At(regs, Current, Len(stack), Len(scopes))
  /\ program[regs.chunk][regs.pc].op = "CALL" => stack[Len(stack)].v \in DOMAIN Methods

MachineInv ==
  /\ code = program /\ WellFormed(program, heights)
  /\ mode \in {"running", "error", "fail", "done"}
  /\ mode # "done" => Frames /\ Balanced
  /\ mode = "running" => Running
  /\ LeavesNothing

-------------------------------------------------------------------------------
(* What a well-formed program says of one chunk.                           *)
LEMMA ChunkIsWellFormed ==
  ASSUME WellFormed(program, heights), NEW t \in Targets
  PROVE  /\ IsSeq(program[t]) /\ IsInstr(program[t], 1) /\ program[t][1].op # "CALL"
         /\ heights[t][1] = [stack |-> 0, scopes |-> 0]
         /\ \A pc : IsInstr(program[t], pc) => InstrWellFormed(program[t], heights[t], pc)
BY DEF WellFormed, IsInstr, IsSeq

(* The registers are at an instruction after the one before it, too. *)
LEMMA AtNext ==
  ASSUME WellFormed(program, heights),
         NEW c, c.depth \in Nat, c.scope \in Nat, NEW d, NEW s, NEW r, At(r, c, d, s),
         NEW q \in Registers, q.chunk = r.chunk,
         q.pc \in Successors(program[r.chunk], r.pc),
         q.ninstr >= r.ninstr - 1, q.nsize >= r.nsize - (q.pc - r.pc)
  PROVE  LET instr == program[r.chunk][r.pc] IN
         /\ At(q, c, d - Pops(instr) + Pushes(instr),
                     s - ScopesBefore(instr) + ScopesAfter(instr))
         /\ program[q.chunk][q.pc].op = "CALL" => PushesMethod(instr)
<1> DEFINE chunk == program[r.chunk]
           h == heights[r.chunk]
           instr == chunk[r.pc]
<1>1. /\ r \in Registers /\ r.chunk \in Targets /\ r.pc \in Nat /\ q.pc \in Nat
      /\ r.ninstr \in Int /\ r.nsize \in Int /\ q.ninstr \in Int /\ q.nsize \in Int
  BY DEF At, Registers
<1>2. IsInstr(chunk, r.pc) /\ InstrWellFormed(chunk, h, r.pc) /\ IsSeq(chunk)
  BY <1>1, ChunkIsWellFormed DEF At
<1>3. Leads(chunk, h, r.pc, q.pc) /\ h[r.pc] \in Height
  BY <1>2 DEF InstrWellFormed
<1>4. /\ NInstr(chunk, r.pc) \in Nat /\ NInstr(chunk, q.pc) \in Nat
      /\ NInstr(chunk, q.pc) + 1 <= NInstr(chunk, r.pc)
  BY <1>1, <1>2, <1>3, InstrCounts DEF Leads
<1>5. Len(chunk) \in Nat
  BY <1>2 DEF IsSeq
<1>6. /\ Pops(instr) \in Nat /\ Pushes(instr) \in Nat
      /\ ScopesBefore(instr) \in Nat /\ ScopesAfter(instr) \in Nat
  <2>1. Pops(instr) \in Nat
    <3>1. /\ instr.op = "PUSH_LOCALS" => instr.n \in Nat
          /\ instr.op = "CALL" => instr.narg \in Nat
      BY <1>2 DEF InstrWellFormed
    <3> HIDE DEF instr
    <3> QED
      BY <3>1 DEF Pops
  <2>2. Pushes(instr) \in Nat /\ ScopesBefore(instr) \in Nat /\ ScopesAfter(instr) \in Nat
    BY DEF Pushes, ScopesBefore, ScopesAfter
  <2> QED
    BY <2>1, <2>2
<1>7. /\ h[q.pc].stack = h[r.pc].stack - Pops(instr) + Pushes(instr)
      /\ h[q.pc].scopes = h[r.pc].scopes - ScopesBefore(instr) + ScopesAfter(instr)
  BY <1>3 DEF Leads, After
<1>8. /\ d = c.depth + h[r.pc].stack /\ s = c.scope + h[r.pc].scopes
      /\ h[r.pc].stack \in Nat /\ h[r.pc].scopes \in Nat
  BY <1>3 DEF At, Height
<1>9. /\ d - Pops(instr) + Pushes(instr) = c.depth + h[q.pc].stack
      /\ s - ScopesBefore(instr) + ScopesAfter(instr) = c.scope + h[q.pc].scopes
  BY <1>6, <1>7, <1>8
<1>10. q.ninstr >= NInstr(chunk, q.pc)
  BY <1>1, <1>4, SMTT(60) DEF At
<1>11. q.nsize >= Len(chunk) - q.pc + 1
  <2>1. r.nsize >= Len(chunk) - r.pc + 1
    BY DEF At
  <2> HIDE DEF chunk
  <2> QED
    BY <2>1, <1>1, <1>5, SMTT(60)
<1> QED
  BY <1>3, <1>9, <1>10, <1>11 DEF At, Leads

(* What the running vm_exec's instruction pops is its own. *)
LEMMA PopsItsOwn ==
  ASSUME MachineInv, mode = "running"
  PROVE  /\ InstrWellFormed(program[regs.chunk], heights[regs.chunk], regs.pc)
         /\ IsSeq(program[regs.chunk]) /\ IsInstr(program[regs.chunk], regs.pc)
         /\ Instr = program[regs.chunk][regs.pc] /\ regs \in Registers
         /\ Current.depth \in Nat /\ Current.scope \in Nat
         /\ Len(stack) \in Nat /\ Len(scopes) \in Nat
         /\ Pops(Instr) \in Nat /\ Current.depth <= Len(stack) - Pops(Instr)
         /\ ScopesBefore(Instr) \in Nat
         /\ Current.scope <= Len(scopes) - ScopesBefore(Instr)
<1>1. /\ code = program /\ WellFormed(program, heights) /\ Frames /\ Balanced
      /\ At(regs, Current, Len(stack), Len(scopes))
  BY DEF MachineInv, Running
<1>2. /\ IsInstr(program[regs.chunk], regs.pc) /\ regs \in Registers
      /\ regs.chunk \in Targets
  BY <1>1 DEF At, Registers
<1>3. /\ InstrWellFormed(program[regs.chunk], heights[regs.chunk], regs.pc)
      /\ IsSeq(program[regs.chunk])
  BY <1>1, <1>2, ChunkIsWellFormed
<1>4. Instr = program[regs.chunk][regs.pc]
  BY <1>1 DEF Instr
<1>5. Len(catch) \in 1..Len(catch)
  BY <1>1 DEF Frames, Bases, IsSeq
<1>6. Current.depth \in Nat /\ Current.scope \in Nat
  BY <1>1, <1>5 DEF Frames, Bases, Current
<1>7. Len(stack) \in Nat /\ Len(scopes) \in Nat
  BY <1>1 DEF Balanced, IsSeq
<1>8. Pops(Instr) \in Nat /\ ScopesBefore(Instr) \in Nat
  BY <1>3, <1>4 DEF InstrWellFormed, Pops, ScopesBefore
<1>9. LET h == heights[regs.chunk][regs.pc]
      IN /\ h.stack \in Nat /\ h.scopes \in Nat
         /\ h.stack >= Pops(Instr) /\ h.scopes >= ScopesBefore(Instr)
         /\ Len(stack) = Current.depth + h.stack /\ Len(scopes) = Current.scope + h.scopes
  BY <1>1, <1>3, <1>4 DEF InstrWellFormed, Height, At
<1> QED
  BY <1>2, <1>3, <1>4, <1>6, <1>7, <1>8, <1>9, SMTT(60)

(* A step that touches nothing that the calling vm_execs own keeps the     *)
(* frames.                                                                 *)
LEMMA FramesKept ==
  ASSUME Frames, UNCHANGED <<saved, catch, callers>>, IsSeq(stack'), IsSeq(scopes'),
         Len(stack') >= Current.depth, Len(scopes') >= Current.scope,
         \A i \in 1..Current.depth : stack'[i] = stack[i],
         \A i \in 1..Current.scope : scopes'[i] = scopes[i]
  PROVE  Frames' /\ Balanced'
<1>1. Balanced'
  BY DEF Balanced, Current
<1>2. Bases'
  BY DEF Frames, Bases
<1>3. ASSUME NEW k \in 1..Len(saved) PROVE Caller(k)' /\ Under(k)'
  <2>1. Caller(k)'
    BY <1>3 DEF Frames, Caller, At
  <2>2. k + 1 \in 1..Len(catch) /\ Len(catch) \in 1..Len(catch) /\ k + 1 <= Len(catch)
    BY <1>3 DEF Frames, Bases, IsSeq
  <2>3. /\ catch[k + 1].depth <= Current.depth /\ catch[k + 1].scope <= Current.scope
        /\ catch[k + 1].depth \in Nat /\ catch[k + 1].scope \in Nat
        /\ Current.depth \in Nat /\ Current.scope \in Nat
    BY <2>2 DEF Frames, Bases, Current
  <2>4. /\ Under(k) /\ 1..catch[k + 1].depth \subseteq 1..Current.depth
        /\ 1..catch[k + 1].scope \subseteq 1..Current.scope
    BY <1>3, <2>3, SMTT(60) DEF Frames
  <2>5. Under(k)'
    BY <2>4 DEF Under
  <2> QED
    BY <2>1, <2>5
<1> QED
  BY <1>1, <1>2, <1>3 DEF Frames

(* The invariant holds after an instruction that goes on in its chunk. *)
LEMMA Proceeds ==
  ASSUME MachineInv, mode = "running", mode' = "running",
         UNCHANGED <<code, saved, catch, callers>>,
         regs' \in Registers, regs'.chunk = regs.chunk,
         regs'.pc \in Successors(program[regs.chunk], regs.pc),
         regs'.ninstr >= regs.ninstr - 1,
         regs'.nsize >= regs.nsize - (regs'.pc - regs.pc),
         IsSeq(stack'), Len(stack') = Len(stack) - Pops(Instr) + Pushes(Instr),
         \A i \in 1..(Len(stack) - Pops(Instr)) : stack'[i] = stack[i],
         PushesMethod(Instr) => stack'[Len(stack')] = Instr.val,
         IsSeq(scopes'),
         Len(scopes') = Len(scopes) - ScopesBefore(Instr) + ScopesAfter(Instr),
         \A i \in 1..(Len(scopes) - ScopesBefore(Instr)) : scopes'[i] = scopes[i]
  PROVE  MachineInv'
<1>1. /\ Instr = program[regs.chunk][regs.pc] /\ regs \in Registers
      /\ Current.depth \in Nat /\ Current.scope \in Nat
      /\ Len(stack) \in Nat /\ Len(scopes) \in Nat
      /\ Pops(Instr) \in Nat /\ Current.depth <= Len(stack) - Pops(Instr)
      /\ ScopesBefore(Instr) \in Nat /\ Current.scope <= Len(scopes) - ScopesBefore(Instr)
  BY PopsItsOwn
<1>2. /\ code = program /\ WellFormed(program, heights) /\ Frames /\ Balanced /\ Running
  BY DEF MachineInv
<1>3. Pushes(Instr) \in Nat /\ ScopesAfter(Instr) \in Nat
  BY DEF Pushes, ScopesAfter
<1>4. Frames' /\ Balanced'
  <2>1. Len(stack') >= Current.depth /\ Len(scopes') >= Current.scope
    BY <1>1, <1>3, SMTT(60)
  <2>2. /\ \A i \in 1..Current.depth : stack'[i] = stack[i]
        /\ \A i \in 1..Current.scope : scopes'[i] = scopes[i]
    BY <1>1, SMTT(60)
  <2> QED
    BY <1>2, <2>1, <2>2, FramesKept
<1>5. /\ At(regs', Current, Len(stack'), Len(scopes'))
      /\ program[regs'.chunk][regs'.pc].op = "CALL" => PushesMethod(Instr)
  <2>1. At(regs, Current, Len(stack), Len(scopes))
    BY <1>2, SMTT(60) DEF Running
  <2>2. /\ At(regs', Current, Len(stack) - Pops(program[regs.chunk][regs.pc])
                                + Pushes(program[regs.chunk][regs.pc]),
                Len(scopes) - ScopesBefore(program[regs.chunk][regs.pc])
                            + ScopesAfter(program[regs.chunk][regs.pc]))
        /\ program[regs'.chunk][regs'.pc].op = "CALL"
             => PushesMethod(program[regs.chunk][regs.pc])
    BY <1>1, <1>2, <2>1, AtNext
  <2> QED
    BY <1>1, <2>2
<1>6. Current' = Current
  BY DEF Current
<1>7. Running'
  <2>1. At(regs, Current, Len(stack), Len(scopes))'
    BY <1>5, <1>6 DEF At
  <2> QED
    BY <1>5, <2>1 DEF Running, PushesMethod
<1>8. LeavesNothing'
  BY DEF LeavesNothing
<1>9. code' = program /\ WellFormed(program, heights)'
  BY <1>2
<1> QED
  BY <1>4, <1>7, <1>8, <1>9 DEF MachineInv

(* What Advance does to the registers. *)
LEMMA Advances ==
  ASSUME MachineInv, mode = "running", Advance, Instr.op \notin {"HALT", "BRANCH"}
  PROVE  /\ regs' \in Registers /\ regs'.chunk = regs.chunk
         /\ regs'.pc \in Successors(program[regs.chunk], regs.pc)
         /\ regs'.ninstr >= regs.ninstr - 1
         /\ regs'.nsize >= regs.nsize - (regs'.pc - regs.pc)
<1>1. Instr = program[regs.chunk][regs.pc] /\ regs \in Registers
  BY PopsItsOwn
<1>2. Words(Instr) \in {1, 2}
  BY WordsAreFew
<1>3. /\ regs = [chunk |-> regs.chunk, pc |-> regs.pc, ninstr |-> regs.ninstr,
                 nsize |-> regs.nsize]
      /\ regs.chunk \in Targets /\ regs.pc \in Nat
      /\ regs.ninstr \in Int /\ regs.nsize \in Int
  BY <1>1 DEF Registers
<1>4. regs' = [chunk |-> regs.chunk, pc |-> regs.pc + Words(Instr),
               ninstr |-> regs.ninstr - 1, nsize |-> regs.nsize - Words(Instr)]
  BY <1>3 DEF Advance, Advanced
<1>5. regs' \in Registers
  <2>1. /\ regs.pc + Words(Instr) \in Nat /\ regs.ninstr - 1 \in Int
        /\ regs.nsize - Words(Instr) \in Int
    BY <1>2, <1>3
  <2> QED
    BY <1>3, <1>4, <2>1 DEF Registers
<1>6. regs'.pc \in Successors(program[regs.chunk], regs.pc)
  BY <1>1, <1>4 DEF Successors
<1> QED
  BY <1>2, <1>3, <1>4, <1>5, <1>6

(* The topmost k entries of the stack are replaced with values. *)
IsReplaced(new, k, values) == new = Popped(k) \o values

(* What lies below stays, and the values lie on top of it. *)
LEMMA PopsAndPushes ==
  ASSUME IsSeq(stack), NEW k \in 0..Len(stack), NEW values, IsSeq(values),
         NEW new, IsReplaced(new, k, values)
  PROVE  /\ IsSeq(new) /\ Len(values) \in Nat /\ Len(new) = Len(stack) - k + Len(values)
         /\ \A i \in 1..(Len(stack) - k) : new[i] = stack[i]
         /\ \A i \in 1..Len(values) : new[Len(stack) - k + i] = values[i]
<1>1. Len(stack) \in Nat /\ Len(stack) - k \in 0..Len(stack)
  BY DEF IsSeq
<1>2. /\ IsSeq(Popped(k)) /\ Len(Popped(k)) = Len(stack) - k
      /\ \A i \in 1..(Len(stack) - k) : Popped(k)[i] = stack[i]
  BY <1>1, Prefix DEF Popped
<1>3. PICK under : under = Popped(k)
  OBVIOUS
<1>4. /\ IsSeq(under \o values) /\ Len(values) \in Nat
      /\ Len(under \o values) = Len(under) + Len(values)
      /\ \A i \in 1..Len(under) : (under \o values)[i] = under[i]
      /\ \A i \in 1..Len(values) : (under \o values)[Len(under) + i] = values[i]
  BY <1>2, <1>3, Concatenated
<1>5. new = under \o values
  BY <1>3 DEF IsReplaced
<1> QED
  BY <1>2, <1>3, <1>4, <1>5

(* The invariant holds after an instruction that only works on the stack. *)
LEMMA Replaced ==
  ASSUME MachineInv, mode = "running", NEW k, k = Pops(Instr),
         NEW values, IsSeq(values), Replace(k, values),
         Len(values) = Pushes(Instr), ScopesBefore(Instr) = 0, ScopesAfter(Instr) = 0,
         Instr.op \notin {"HALT", "BRANCH"},
         PushesMethod(Instr) => values = <<Instr.val>>
  PROVE  MachineInv'
<1>1. /\ Instr = program[regs.chunk][regs.pc] /\ regs \in Registers
      /\ Current.depth \in Nat
      /\ Len(stack) \in Nat /\ Pops(Instr) \in Nat /\ Current.depth <= Len(stack) - Pops(Instr)
      /\ IsSeq(stack) /\ IsSeq(scopes) /\ Len(scopes) \in Nat
  BY PopsItsOwn DEF MachineInv, Balanced
<1>2. /\ stack' = Popped(k) \o values /\ Advance
      /\ UNCHANGED <<code, mode, scopes, catch, saved, callers>>
  BY DEF Replace
<1>3. /\ IsSeq(stack') /\ Len(values) \in Nat
      /\ Len(stack') = Len(stack) - Pops(Instr) + Len(values)
      /\ \A i \in 1..(Len(stack) - Pops(Instr)) : stack'[i] = stack[i]
      /\ \A i \in 1..Len(values) : stack'[Len(stack) - Pops(Instr) + i] = values[i]
  <2>1. k \in 0..Len(stack)
    BY <1>1
  <2>2. IsReplaced(stack', k, values)
    BY <1>2 DEF IsReplaced
  <2>3. IsSeq(stack') /\ Len(values) \in Nat /\ Len(stack') = Len(stack) - k + Len(values)
    BY <1>1, <2>1, <2>2, PopsAndPushes
  <2>4. \A i \in 1..(Len(stack) - k) : stack'[i] = stack[i]
    BY <1>1, <2>1, <2>2, PopsAndPushes
  <2>5. \A i \in 1..Len(values) : stack'[Len(stack) - k + i] = values[i]
    BY <1>1, <2>1, <2>2, PopsAndPushes, SMTT(60)
  <2> QED
    BY <2>3, <2>4, <2>5, Zenon
<1>4. PushesMethod(Instr) => stack'[Len(stack')] = Instr.val
  <2>1. SUFFICES ASSUME PushesMethod(Instr) PROVE stack'[Len(stack')] = Instr.val
    OBVIOUS
  <2>2. Len(values) = 1 /\ values[1] = Instr.val
    BY <2>1, OneValue
  <2> QED
    BY <1>3, <2>2
<1>5. /\ regs' \in Registers /\ regs'.chunk = regs.chunk
      /\ regs'.pc \in Successors(program[regs.chunk], regs.pc)
      /\ regs'.ninstr >= regs.ninstr - 1
      /\ regs'.nsize >= regs.nsize - (regs'.pc - regs.pc)
  BY <1>2, Advances, SMTT(60)
<1>6. /\ IsSeq(scopes') /\ Len(scopes') = Len(scopes) - ScopesBefore(Instr) + ScopesAfter(Instr)
      /\ \A i \in 1..(Len(scopes) - ScopesBefore(Instr)) : scopes'[i] = scopes[i]
  BY <1>1, <1>2
<1>7. Len(stack') = Len(stack) - Pops(Instr) + Pushes(Instr)
  BY <1>3
<1>8. mode' = "running"
  BY <1>2
<1> QED
  BY <1>2, <1>3, <1>4, <1>5, <1>6, <1>7, <1>8, Proceeds

(* The invariant holds after an exception that leaves the stack of the     *)
(* calling vm_execs alone.                                                 *)
LEMMA Thrown ==
  ASSUME MachineInv, mode = "running", mode' \in {"error", "fail"},
         NEW k \in Nat, k <= Pops(Instr), stack' = Popped(k),
         UNCHANGED <<code, catch, saved, callers>>,
         IsSeq(scopes'), Len(scopes') >= Len(scopes),
         \A i \in 1..Len(scopes) : scopes'[i] = scopes[i]
  PROVE  MachineInv'
<1>1. /\ Current.depth \in Nat /\ Current.scope \in Nat
      /\ Len(stack) \in Nat /\ Pops(Instr) \in Nat /\ Current.depth <= Len(stack) - Pops(Instr)
      /\ Len(scopes) \in Nat /\ Current.scope <= Len(scopes)
      /\ IsSeq(stack) /\ Frames
  BY PopsItsOwn DEF MachineInv, Balanced
<1>2. Len(stack) - k \in 0..Len(stack) /\ Len(stack) - k >= Current.depth
  BY <1>1, SMTT(60)
<1>3. /\ IsSeq(stack') /\ Len(stack') = Len(stack) - k
      /\ \A i \in 1..(Len(stack) - k) : stack'[i] = stack[i]
  BY <1>1, <1>2, Prefix DEF Popped
<1>4. Frames' /\ Balanced'
  <2>1. Len(stack') >= Current.depth /\ Len(scopes') >= Current.scope
    <3>1. Len(scopes') \in Nat
      BY DEF IsSeq
    <3> QED
      BY <1>1, <1>2, <1>3, <3>1
  <2>2. /\ \A i \in 1..Current.depth : stack'[i] = stack[i]
        /\ \A i \in 1..Current.scope : scopes'[i] = scopes[i]
    BY <1>1, <1>2, <1>3, SMTT(60)
  <2> QED
    BY <1>1, <1>3, <2>1, <2>2, FramesKept
<1>5. LeavesNothing'
  BY DEF LeavesNothing
<1> QED
  BY <1>4, <1>5 DEF MachineInv

(* An instruction that raises has popped no more than it takes. *)
LEMMA Raised ==
  ASSUME MachineInv, mode = "running", NEW k \in Nat, k <= Pops(Instr), Raise(k)
  PROVE  MachineInv'
<1>1. /\ mode' \in {"error", "fail"} /\ stack' = Popped(k)
      /\ UNCHANGED <<code, catch, saved, callers>> /\ scopes' = scopes
  BY DEF Raise
<1>2. IsSeq(scopes) /\ Len(scopes) \in Nat
  BY DEF MachineInv, Balanced, IsSeq
<1> QED
  BY <1>1, <1>2, Thrown

-------------------------------------------------------------------------------
(* The instructions that go on.                                            *)

(* Popping nothing leaves the stack as it is. *)
LEMMA PopNothing == ASSUME IsSeq(stack) PROVE Popped(0) = stack
<1>1. Len(stack) \in Nat /\ Len(stack) - 0 = Len(stack) /\ Len(stack) \in 0..Len(stack)
  BY DEF IsSeq
<1>2. /\ IsSeq(SubSeq(stack, 1, Len(stack))) /\ Len(SubSeq(stack, 1, Len(stack))) = Len(stack)
      /\ \A i \in 1..Len(stack) : SubSeq(stack, 1, Len(stack))[i] = stack[i]
  BY <1>1, Prefix
<1>3. SubSeq(stack, 1, Len(stack)) = stack
  BY <1>2, SameSeq
<1> QED
  BY <1>1, <1>3 DEF Popped

(* PUSH *)
LEMMA PushStep ==
  ASSUME MachineInv, InstrPush \/ InstrPushGlobal
  PROVE  MachineInv'
<1>1. ASSUME NEW val, mode = "running", PushChecked(val), Instr.op \in {"PUSH", "PUSH_GLOBAL"},
             Instr.op = "PUSH" => val = Instr.val
      PROVE  MachineInv'
  <2>1. /\ Pops(Instr) = 0 /\ Pushes(Instr) = 1
        /\ ScopesBefore(Instr) = 0 /\ ScopesAfter(Instr) = 0
    BY <1>1 DEF Pops, Pushes, ScopesBefore, ScopesAfter
  <2>2. CASE regs.nsize < 2
    BY <1>1, <2>1, <2>2, Raised DEF PushChecked
  <2>3. CASE ~(regs.nsize < 2)
    <3>1. Replace(0, <<val>>)
      BY <1>1, <2>3 DEF PushChecked
    <3>2. IsSeq(<<val>>) /\ Len(<<val>>) = 1
      BY OneValue
    <3>3. PushesMethod(Instr) => <<val>> = <<Instr.val>>
      BY <1>1 DEF PushesMethod
    <3> QED
      BY <1>1, <2>1, <3>1, <3>2, <3>3, Replaced
  <2> QED
    BY <2>2, <2>3
<1>2. CASE InstrPush
  BY <1>1, <1>2 DEF InstrPush, OnInstr, Instr
<1>3. CASE InstrPushGlobal
  BY <1>1, <1>3 DEF InstrPushGlobal, OnInstr, Instr
<1> QED
  BY <1>2, <1>3

(* What GET LOCAL and the instructions on facts and values have in common: *)
(* they replace what they pop with at most one value, or raise.            *)
Works(k) ==
  /\ mode = "running" /\ k = Pops(Instr) /\ UNCHANGED nalloc
  /\ ScopesBefore(Instr) = 0 /\ ScopesAfter(Instr) = 0
  /\ Instr.op \notin {"HALT", "BRANCH", "PUSH"}
  /\ DOMAIN facts' = DOMAIN facts
  /\ \/ Replace(k, <<>>) /\ Pushes(Instr) = 0
     \/ \E val : Replace(k, <<val>>) /\ Pushes(Instr) = 1 /\ (k > 0 \/ Len(stack) # nalloc)
     \/ \E r \in Nat : r <= k /\ Raise(r)

LEMMA ValueEffect ==
  ASSUME \/ InstrPopDiscard \/ InstrGetLocal \/ InstrFilter \/ InstrGetField
         \/ InstrSetField \/ InstrSet \/ InstrCmp \/ InstrNot
  PROVE  \E k : Works(k)
<1>1. CASE InstrPopDiscard
  <2>2. mode = "running" /\ Instr.op = "POP_DISCARD" /\ UNCHANGED nalloc /\ Replace(1, <<>>)
    BY <1>1, Zenon DEF InstrPopDiscard, OnInstr, Instr
  <2>3. DOMAIN facts' = DOMAIN facts
    BY <1>1 DEF InstrPopDiscard, Raise
  <2>4. /\ Pops(Instr) = 1 /\ Pushes(Instr) = 0
        /\ ScopesBefore(Instr) = 0 /\ ScopesAfter(Instr) = 0
        /\ Instr.op \notin {"HALT", "BRANCH", "PUSH"} /\ 1 > 0
    BY <2>2 DEF Pops, Pushes, ScopesBefore, ScopesAfter
  <2>5. Works(1)
    BY <2>2, <2>3, <2>4, Zenon DEF Works
  <2> QED
    BY <2>5
<1>2. CASE InstrGetLocal
  <2>1. 0 \in Nat /\ 0 <= 0
    OBVIOUS
  <2>2. /\ mode = "running" /\ Instr.op = "GET_LOCAL" /\ UNCHANGED nalloc
        /\ \/ \E val : Replace(0, <<val>>) /\ Len(stack) # nalloc
           \/ \E r \in Nat : r <= 0 /\ Raise(r)
    BY <1>2, <2>1, Zenon DEF InstrGetLocal, OnInstr, Instr, Raise
  <2>3. DOMAIN facts' = DOMAIN facts
    BY <1>2 DEF InstrGetLocal, Raise
  <2>4. /\ Pops(Instr) = 0 /\ Pushes(Instr) = 1
        /\ ScopesBefore(Instr) = 0 /\ ScopesAfter(Instr) = 0
        /\ Instr.op \notin {"HALT", "BRANCH", "PUSH"}
    BY <2>2 DEF Pops, Pushes, ScopesBefore, ScopesAfter
  <2>5. Works(0)
    BY <2>2, <2>3, <2>4, Zenon DEF Works
  <2> QED
    BY <2>5
<1>3. CASE InstrFilter
  <2>1. 0 \in Nat /\ 0 <= 4 /\ 3 \in Nat /\ 3 <= 4
    OBVIOUS
  <2>2. /\ mode = "running" /\ Instr.op = "FILTER" /\ UNCHANGED nalloc
        /\ \/ \E val : Replace(4, <<val>>)
           \/ \E r \in Nat : r <= 4 /\ Raise(r)
    BY <1>3, <2>1, Zenon DEF InstrFilter, OnInstr, Instr, Raise
  <2>3. DOMAIN facts' = DOMAIN facts
    BY <1>3 DEF InstrFilter, Raise
  <2>4. /\ Pops(Instr) = 4 /\ Pushes(Instr) = 1
        /\ ScopesBefore(Instr) = 0 /\ ScopesAfter(Instr) = 0
        /\ Instr.op \notin {"HALT", "BRANCH", "PUSH"} /\ 4 > 0
    BY <2>2 DEF Pops, Pushes, ScopesBefore, ScopesAfter
  <2>5. Works(4)
    BY <2>2, <2>3, <2>4, Zenon DEF Works
  <2> QED
    BY <2>5
<1>4. CASE InstrGetField
  <2>1. 0 \in Nat /\ 0 <= 2
    OBVIOUS
  <2>2. /\ mode = "running" /\ Instr.op = "GET_FIELD" /\ UNCHANGED nalloc
        /\ \/ \E val : Replace(2, <<val>>)
           \/ \E r \in Nat : r <= 2 /\ Raise(r)
    BY <1>4, <2>1, Zenon DEF InstrGetField, OnInstr, Instr, Raise
  <2>3. DOMAIN facts' = DOMAIN facts
    BY <1>4 DEF InstrGetField, Raise
  <2>4. /\ Pops(Instr) = 2 /\ Pushes(Instr) = 1
        /\ ScopesBefore(Instr) = 0 /\ ScopesAfter(Instr) = 0
        /\ Instr.op \notin {"HALT", "BRANCH", "PUSH"} /\ 2 > 0
    BY <2>2 DEF Pops, Pushes, ScopesBefore, ScopesAfter
  <2>5. Works(2)
    BY <2>2, <2>3, <2>4, Zenon DEF Works
  <2> QED
    BY <2>5
<1>5. CASE InstrSetField
  <2>1. 0 \in Nat /\ 0 <= 3
    OBVIOUS
  <2>2. /\ mode = "running" /\ Instr.op = "SET_FIELD" /\ UNCHANGED nalloc
        /\ \/ Replace(3, <<>>)
           \/ \E r \in Nat : r <= 3 /\ Raise(r)
    BY <1>5, <2>1, Zenon DEF InstrSetField, OnInstr, Instr, Raise
  <2>3. DOMAIN facts' = DOMAIN facts
    BY <1>5 DEF InstrSetField, Raise
  <2>4. /\ Pops(Instr) = 3 /\ Pushes(Instr) = 0
        /\ ScopesBefore(Instr) = 0 /\ ScopesAfter(Instr) = 0
        /\ Instr.op \notin {"HALT", "BRANCH", "PUSH"} /\ 3 > 0
    BY <2>2 DEF Pops, Pushes, ScopesBefore, ScopesAfter
  <2>5. Works(3)
    BY <2>2, <2>3, <2>4, Zenon DEF Works
  <2> QED
    BY <2>5
<1>6. CASE InstrSet
  <2>1. 2 \in Nat /\ 2 <= 2
    OBVIOUS
  <2>2. /\ mode = "running" /\ Instr.op = "SET" /\ UNCHANGED nalloc
        /\ \/ Replace(2, <<>>)
           \/ \E r \in Nat : r <= 2 /\ Raise(r)
    BY <1>6, <2>1, Zenon DEF InstrSet, OnInstr, Instr, Raise
  <2>3. DOMAIN facts' = DOMAIN facts
    BY <1>6 DEF InstrSet, Raise
  <2>4. /\ Pops(Instr) = 2 /\ Pushes(Instr) = 0
        /\ ScopesBefore(Instr) = 0 /\ ScopesAfter(Instr) = 0
        /\ Instr.op \notin {"HALT", "BRANCH", "PUSH"} /\ 2 > 0
    BY <2>2 DEF Pops, Pushes, ScopesBefore, ScopesAfter
  <2>5. Works(2)
    BY <2>2, <2>3, <2>4, Zenon DEF Works
  <2> QED
    BY <2>5
<1>7. CASE InstrCmp
  <2>1. 2 \in Nat /\ 2 <= 2
    OBVIOUS
  <2>2. /\ mode = "running" /\ Instr.op = "CMP" /\ Instr.relop # "!" /\ UNCHANGED nalloc
        /\ \/ \E val : Replace(2, <<val>>)
           \/ \E r \in Nat : r <= 2 /\ Raise(r)
    BY <1>7, <2>1, Zenon DEF InstrCmp, OnInstr, Instr, Raise
  <2>3. DOMAIN facts' = DOMAIN facts
    BY <1>7 DEF InstrCmp, Raise
  <2>4. /\ Pops(Instr) = 2 /\ Pushes(Instr) = 1
        /\ ScopesBefore(Instr) = 0 /\ ScopesAfter(Instr) = 0
        /\ Instr.op \notin {"HALT", "BRANCH", "PUSH"} /\ 2 > 0
    BY <2>2 DEF Pops, Pushes, ScopesBefore, ScopesAfter
  <2>5. Works(2)
    BY <2>2, <2>3, <2>4, Zenon DEF Works
  <2> QED
    BY <2>5
<1>8. CASE InstrNot
  <2>1. 1 \in Nat /\ 1 <= 1
    OBVIOUS
  <2>2. /\ mode = "running" /\ Instr.op = "CMP" /\ Instr.relop = "!" /\ UNCHANGED nalloc
        /\ \/ \E val : Replace(1, <<val>>)
           \/ \E r \in Nat : r <= 1 /\ Raise(r)
    BY <1>8, <2>1, Zenon DEF InstrNot, OnInstr, Instr, Raise
  <2>3. DOMAIN facts' = DOMAIN facts
    BY <1>8 DEF InstrNot, Raise
  <2>4. /\ Pops(Instr) = 1 /\ Pushes(Instr) = 1
        /\ ScopesBefore(Instr) = 0 /\ ScopesAfter(Instr) = 0
        /\ Instr.op \notin {"HALT", "BRANCH", "PUSH"} /\ 1 > 0
    BY <2>2 DEF Pops, Pushes, ScopesBefore, ScopesAfter
  <2>5. Works(1)
    BY <2>2, <2>3, <2>4, Zenon DEF Works
  <2> QED
    BY <2>5
<1> QED
  BY <1>1, <1>2, <1>3, <1>4, <1>5, <1>6, <1>7, <1>8

LEMMA ValueStep == ASSUME MachineInv, NEW k, Works(k) PROVE MachineInv'
<1>1. /\ mode = "running" /\ k = Pops(Instr) /\ ~PushesMethod(Instr)
      /\ ScopesBefore(Instr) = 0 /\ ScopesAfter(Instr) = 0
      /\ Instr.op \notin {"HALT", "BRANCH"}
  BY DEF Works, PushesMethod
<1>2. CASE Replace(k, <<>>) /\ Pushes(Instr) = 0
  BY <1>1, <1>2, NoValue, Replaced
<1>3. ASSUME NEW val, Replace(k, <<val>>), Pushes(Instr) = 1 PROVE MachineInv'
  <2>1. IsSeq(<<val>>) /\ Len(<<val>>) = 1
    BY OneValue
  <2> QED
    BY <1>1, <1>3, <2>1, Replaced
<1>4. ASSUME NEW r \in Nat, r <= k, Raise(r) PROVE MachineInv'
  BY <1>1, <1>4, Raised
<1> QED
  BY <1>2, <1>3, <1>4 DEF Works

(* PUSH LOCALS and POP LOCALS *)
LEMMA ScopeStep ==
  ASSUME MachineInv, InstrPushLocals \/ InstrPopLocals
  PROVE  MachineInv'
<1>1. mode = "running" /\ Instr.op \in {"PUSH_LOCALS", "POP_LOCALS"}
  BY DEF InstrPushLocals, InstrPopLocals, OnInstr, Instr
<1>2. /\ Instr = program[regs.chunk][regs.pc] /\ Len(stack) \in Nat /\ Len(scopes) \in Nat
      /\ Pops(Instr) \in Nat /\ 0 <= Len(stack) - Pops(Instr)
      /\ 0 <= Len(scopes) - ScopesBefore(Instr)
      /\ IsSeq(stack) /\ IsSeq(scopes)
      /\ InstrWellFormed(program[regs.chunk], heights[regs.chunk], regs.pc)
  BY <1>1, PopsItsOwn, SMTT(60) DEF MachineInv, Balanced
<1>3. Pushes(Instr) = 0 /\ ~PushesMethod(Instr) /\ Instr.op \notin {"HALT", "BRANCH"}
  BY <1>1 DEF Pushes, PushesMethod
<1>4. CASE InstrPushLocals
  <2>1. /\ Instr.op = "PUSH_LOCALS" /\ Pops(Instr) = 2 * Instr.n
        /\ ScopesBefore(Instr) = 0 /\ ScopesAfter(Instr) = 1
    BY <1>4 DEF InstrPushLocals, OnInstr, Instr, Pops, ScopesBefore, ScopesAfter
  <2>2. \E scope : \/ /\ stack' = Popped(2 * Instr.n) /\ scopes' = Append(scopes, scope)
                      /\ Advance /\ UNCHANGED <<code, mode, catch, saved, callers>>
                   \/ /\ mode' = "error" /\ scopes' = Append(scopes, scope)
                      /\ UNCHANGED <<code, stack, catch, saved, callers>>
    BY <1>4, Zenon DEF InstrPushLocals
  <2>3. PICK scope : \/ /\ stack' = Popped(2 * Instr.n) /\ scopes' = Append(scopes, scope)
                        /\ Advance /\ UNCHANGED <<code, mode, catch, saved, callers>>
                     \/ /\ mode' = "error" /\ scopes' = Append(scopes, scope)
                        /\ UNCHANGED <<code, stack, catch, saved, callers>>
    BY <2>2
  <2>4. /\ IsSeq(scopes') /\ Len(scopes') = Len(scopes) + 1
        /\ \A i \in 1..Len(scopes) : scopes'[i] = scopes[i]
    <3>1. scopes' = Append(scopes, scope)
      BY <2>3
    <3>2. IsSeq(Append(scopes, scope)) /\ Len(Append(scopes, scope)) = Len(scopes) + 1
      BY <1>2, Appended
    <3>3. \A i \in 1..Len(scopes) : Append(scopes, scope)[i] = scopes[i]
      BY <1>2, Appended
    <3> QED
      BY <3>1, <3>2, <3>3, Zenon
  <2>5. CASE /\ Advance /\ stack' = Popped(2 * Instr.n)
             /\ UNCHANGED <<code, mode, catch, saved, callers>>
    <3>1. Len(stack) - Pops(Instr) \in 0..Len(stack)
      BY <1>2
    <3>2. stack' = SubSeq(stack, 1, Len(stack) - Pops(Instr))
      BY <2>1, <2>5 DEF Popped
    <3>3. /\ IsSeq(stack') /\ Len(stack') = Len(stack) - Pops(Instr)
          /\ \A i \in 1..(Len(stack) - Pops(Instr)) : stack'[i] = stack[i]
      BY <1>2, <3>1, <3>2, Prefix
    <3>4. /\ regs' \in Registers /\ regs'.chunk = regs.chunk
          /\ regs'.pc \in Successors(program[regs.chunk], regs.pc)
          /\ regs'.ninstr >= regs.ninstr - 1
          /\ regs'.nsize >= regs.nsize - (regs'.pc - regs.pc)
      BY <1>1, <1>3, <2>5, Advances
    <3>5. /\ Len(stack') = Len(stack) - Pops(Instr) + Pushes(Instr)
          /\ Len(scopes') = Len(scopes) - ScopesBefore(Instr) + ScopesAfter(Instr)
          /\ \A i \in 1..(Len(scopes) - ScopesBefore(Instr)) : scopes'[i] = scopes[i]
      BY <1>2, <1>3, <2>1, <2>4, <3>3
    <3> QED
      BY <1>1, <1>3, <2>4, <2>5, <3>3, <3>4, <3>5, Proceeds
  <2>6. CASE mode' = "error" /\ UNCHANGED <<code, stack, catch, saved, callers>>
    <3>1. stack' = Popped(0) /\ 0 \in Nat /\ 0 <= Pops(Instr)
      BY <1>2, <2>6, PopNothing
    <3>2. Len(scopes') >= Len(scopes)
      BY <1>2, <2>4
    <3> QED
      BY <1>1, <2>4, <2>6, <3>1, <3>2, Thrown
  <2> QED
    BY <2>3, <2>5, <2>6
<1>5. CASE InstrPopLocals
  <2>1. /\ Instr.op = "POP_LOCALS" /\ Pops(Instr) = 0
        /\ ScopesBefore(Instr) = 1 /\ ScopesAfter(Instr) = 0
    BY <1>5 DEF InstrPopLocals, OnInstr, Instr, Pops, ScopesBefore, ScopesAfter
  <2>2. scopes # <<>> /\ Len(scopes) > 0
    BY <1>2, <2>1, NoValue
  <2>3. /\ scopes' = Front(scopes) /\ Advance
        /\ UNCHANGED <<code, mode, stack, catch, saved, callers>>
    BY <1>5, <2>2 DEF InstrPopLocals
  <2>4. /\ IsSeq(scopes') /\ Len(scopes') = Len(scopes) - 1
        /\ \A i \in 1..(Len(scopes) - 1) : scopes'[i] = scopes[i]
    BY <1>2, <2>2, <2>3, FrontAndLast
  <2>5. /\ regs' \in Registers /\ regs'.chunk = regs.chunk
        /\ regs'.pc \in Successors(program[regs.chunk], regs.pc)
        /\ regs'.ninstr >= regs.ninstr - 1
        /\ regs'.nsize >= regs.nsize - (regs'.pc - regs.pc)
    BY <1>1, <1>3, <2>3, Advances
  <2>6. /\ Len(stack') = Len(stack) - Pops(Instr) + Pushes(Instr)
        /\ \A i \in 1..(Len(stack) - Pops(Instr)) : stack'[i] = stack[i]
        /\ Len(scopes') = Len(scopes) - ScopesBefore(Instr) + ScopesAfter(Instr)
        /\ \A i \in 1..(Len(scopes) - ScopesBefore(Instr)) : scopes'[i] = scopes[i]
    BY <1>2, <1>3, <2>1, <2>3, <2>4
  <2>7. IsSeq(stack') /\ mode' = "running"
    BY <1>1, <1>2, <2>3
  <2> QED
    BY <1>1, <1>3, <2>3, <2>4, <2>5, <2>6, <2>7, Proceeds
<1> QED
  BY <1>4, <1>5

(* BRANCH *)
LEMMA BranchStep == ASSUME MachineInv, InstrBranch PROVE MachineInv'
<1>1. mode = "running" /\ Instr.op = "BRANCH"
  BY DEF InstrBranch, OnInstr, Instr
<1>2. /\ Instr = program[regs.chunk][regs.pc] /\ Len(stack) \in Nat /\ Len(scopes) \in Nat
      /\ Pops(Instr) \in Nat /\ 0 <= Len(stack) - Pops(Instr)
      /\ IsSeq(stack) /\ IsSeq(scopes) /\ regs \in Registers
      /\ InstrWellFormed(program[regs.chunk], heights[regs.chunk], regs.pc)
  BY <1>1, PopsItsOwn DEF MachineInv, Balanced
<1>3. /\ Pops(Instr) = (IF Instr.when = "always" THEN 0 ELSE 1)
      /\ Pushes(Instr) = 0 /\ ScopesBefore(Instr) = 0 /\ ScopesAfter(Instr) = 0
      /\ ~PushesMethod(Instr) /\ Instr.diff \in Nat /\ Instr.when \in {"always", "true", "false"}
  BY <1>1, <1>2 DEF Pops, Pushes, ScopesBefore, ScopesAfter, PushesMethod, InstrWellFormed
<1>4. \/ Raise(Pops(Instr))
      \/ \E taken \in BOOLEAN :
            /\ Instr.when = "always" => taken
            /\ regs' = [regs EXCEPT !.pc = @ + (IF taken THEN Instr.diff ELSE 1)]
            /\ stack' = Popped(Pops(Instr))
            /\ UNCHANGED <<code, mode, scopes, catch, saved, callers>>
  <2> DEFINE arg == IF Instr.when = "always" THEN 0 ELSE 1
             taken == CASE Instr.when = "always" -> TRUE
                        [] Instr.when = "true"   -> Top(0).v # 0
                        [] Instr.when = "false"  -> Top(0).v = 0
  <2>1. \/ Raise(arg)
        \/ /\ regs' = [regs EXCEPT !.pc = @ + (IF taken THEN Instr.diff ELSE 1)]
           /\ stack' = Popped(arg)
           /\ UNCHANGED <<code, mode, scopes, catch, saved, callers>>
    BY DEF InstrBranch
  <2>2. arg = Pops(Instr)
    BY <1>3
  <2>3. taken \in BOOLEAN /\ (Instr.when = "always" => taken)
    BY <1>3
  <2> QED
    BY <2>1, <2>2, <2>3
<1>5. CASE Raise(Pops(Instr))
  <2>1. PICK k : k = Pops(Instr)
    OBVIOUS
  <2>2. k \in Nat /\ k <= Pops(Instr) /\ Raise(k)
    BY <1>2, <1>5, <2>1
  <2> QED
    BY <1>1, <2>2, Raised
<1>6. ASSUME NEW taken \in BOOLEAN, Instr.when = "always" => taken,
             regs' = [regs EXCEPT !.pc = @ + (IF taken THEN Instr.diff ELSE 1)],
             stack' = Popped(Pops(Instr)),
             UNCHANGED <<code, mode, scopes, catch, saved, callers>>
      PROVE  MachineInv'
  <2>1. PICK diff \in Nat : diff = IF taken THEN Instr.diff ELSE 1
    BY <1>3
  <2>2. /\ regs = [chunk |-> regs.chunk, pc |-> regs.pc, ninstr |-> regs.ninstr,
                   nsize |-> regs.nsize]
        /\ regs.chunk \in Targets /\ regs.pc \in Nat
        /\ regs.ninstr \in Int /\ regs.nsize \in Int
    BY <1>2 DEF Registers
  <2>3. regs' = [chunk |-> regs.chunk, pc |-> regs.pc + diff, ninstr |-> regs.ninstr,
                 nsize |-> regs.nsize]
    BY <1>6, <2>1, <2>2
  <2>4. regs.pc + diff \in Nat
    BY <2>1, <2>2
  <2>5. regs' \in Registers /\ regs'.chunk = regs.chunk
    BY <2>2, <2>3, <2>4 DEF Registers
  <2>6. regs'.pc \in Successors(program[regs.chunk], regs.pc)
    BY <1>1, <1>2, <1>6, <2>1, <2>3 DEF Successors
  <2>7. /\ regs'.ninstr >= regs.ninstr - 1
        /\ regs'.nsize >= regs.nsize - (regs'.pc - regs.pc)
    BY <2>1, <2>2, <2>3
  <2>8. Len(stack) - Pops(Instr) \in 0..Len(stack)
    BY <1>2
  <2>9. stack' = SubSeq(stack, 1, Len(stack) - Pops(Instr))
    BY <1>6 DEF Popped
  <2>10. /\ IsSeq(stack') /\ Len(stack') = Len(stack) - Pops(Instr)
         /\ \A i \in 1..(Len(stack) - Pops(Instr)) : stack'[i] = stack[i]
    BY <1>2, <2>8, <2>9, Prefix
  <2>11. /\ Len(stack') = Len(stack) - Pops(Instr) + Pushes(Instr)
         /\ IsSeq(scopes') /\ Len(scopes') = Len(scopes) - ScopesBefore(Instr) + ScopesAfter(Instr)
         /\ \A i \in 1..(Len(scopes) - ScopesBefore(Instr)) : scopes'[i] = scopes[i]
    <3>1. Len(stack') = Len(stack) - Pops(Instr) + Pushes(Instr)
      BY <1>2, <1>3, <2>10
    <3>2. Len(scopes) = Len(scopes) - ScopesBefore(Instr) + ScopesAfter(Instr)
      BY <1>2, <1>3
    <3> QED
      BY <1>2, <1>6, <3>1, <3>2
  <2>12. mode' = "running" /\ UNCHANGED <<code, saved, catch, callers>>
    BY <1>1, <1>6
  <2> QED
    BY <1>1, <1>3, <2>5, <2>6, <2>7, <2>10, <2>11, <2>12, Proceeds
<1> QED
  BY <1>4, <1>5, <1>6

(* CALL finds a method and its arguments on the stack. *)
LEMMA CallFinds ==
  ASSUME MachineInv, OnInstr("CALL")
  PROVE  /\ mode = "running" /\ Instr.op = "CALL"
         /\ Instr.narg \in Nat /\ Pops(Instr) = Instr.narg + 1 /\ Pushes(Instr) = 1
         /\ ScopesBefore(Instr) = 0 /\ ScopesAfter(Instr) = 0 /\ ~PushesMethod(Instr)
         /\ Len(stack) \in Nat /\ Len(stack) - Pops(Instr) >= 0
         /\ Callee \in DOMAIN Results \cup {"resolve"}
<1>1. mode = "running" /\ Instr.op = "CALL"
  BY DEF OnInstr, Instr
<1>2. /\ Instr = program[regs.chunk][regs.pc] /\ Len(stack) \in Nat
      /\ 0 <= Len(stack) - Pops(Instr) /\ Pops(Instr) \in Nat
      /\ InstrWellFormed(program[regs.chunk], heights[regs.chunk], regs.pc)
  BY <1>1, PopsItsOwn
<1>3. /\ Instr.narg \in Nat /\ Pops(Instr) = Instr.narg + 1 /\ Pushes(Instr) = 1
      /\ ScopesBefore(Instr) = 0 /\ ScopesAfter(Instr) = 0 /\ ~PushesMethod(Instr)
  BY <1>1, <1>2 DEF Pops, Pushes, ScopesBefore, ScopesAfter, PushesMethod, InstrWellFormed
<1>4. stack[Len(stack)].v \in DOMAIN Methods
  BY <1>1, <1>2 DEF MachineInv, Running
<1>5. Top(0) = stack[Len(stack)]
  BY <1>2, <1>3 DEF Top
<1>6. Callee \in DOMAIN Results \cup {"resolve"}
  BY <1>4, <1>5, MachineAssumption DEF Callee
<1> QED
  BY <1>1, <1>2, <1>3, <1>6

(* CALL of a handler *)
LEMMA CallStep == ASSUME MachineInv, InstrCall PROVE MachineInv'
<1>1. OnInstr("CALL") /\ Callee # "resolve"
  BY DEF InstrCall
<1>2. /\ mode = "running" /\ Instr.op = "CALL"
      /\ Instr.narg \in Nat /\ Pops(Instr) = Instr.narg + 1 /\ Pushes(Instr) = 1
      /\ ScopesBefore(Instr) = 0 /\ ScopesAfter(Instr) = 0 /\ ~PushesMethod(Instr)
      /\ Callee \in DOMAIN Results
  BY <1>1, CallFinds
<1>3. PICK k : k = Instr.narg + 1
  OBVIOUS
<1>4. \/ Replace(k, <<Results[Callee].value>>)
      \/ /\ Results[Callee].status # "success" /\ mode' = Results[Callee].status
         /\ stack' = Popped(k) /\ UNCHANGED <<code, scopes, catch, saved, callers>>
  BY <1>3 DEF InstrCall
<1>5. CASE Replace(k, <<Results[Callee].value>>)
  <2>1. PICK values : values = <<Results[Callee].value>>
    OBVIOUS
  <2>2. IsSeq(values) /\ Len(values) = 1 /\ Replace(k, values)
    BY <1>5, <2>1, OneValue
  <2>3. k = Pops(Instr) /\ Len(values) = Pushes(Instr)
    BY <1>2, <1>3, <2>2
  <2> QED
    BY <1>2, <2>2, <2>3, Replaced
<1>6. CASE /\ Results[Callee].status # "success" /\ mode' = Results[Callee].status
           /\ stack' = Popped(k) /\ UNCHANGED <<code, scopes, catch, saved, callers>>
  <2>1. mode' \in {"error", "fail"}
    BY <1>2, <1>6, MachineAssumption
  <2>2. k \in Nat /\ k <= Pops(Instr)
    BY <1>2, <1>3
  <2>3. IsSeq(scopes) /\ Len(scopes) \in Nat
    BY <1>2 DEF MachineInv, Balanced, IsSeq
  <2>4. /\ IsSeq(scopes') /\ Len(scopes') >= Len(scopes)
        /\ \A i \in 1..Len(scopes) : scopes'[i] = scopes[i]
    BY <1>6, <2>3
  <2> QED
    BY <1>2, <1>6, <2>1, <2>2, <2>4, Thrown
<1> QED
  BY <1>4, <1>5, <1>6

(* The registers at the start of a target. *)
LEMMA StartsAt ==
  ASSUME code = program, WellFormed(program, heights), NEW t \in Targets,
         NEW c, c.depth \in Nat, c.scope \in Nat
  PROVE  /\ At(Started(t), c, c.depth, c.scope)
         /\ program[Started(t).chunk][Started(t).pc].op # "CALL"
<1>1. /\ IsSeq(program[t]) /\ IsInstr(program[t], 1) /\ program[t][1].op # "CALL"
      /\ heights[t][1] = [stack |-> 0, scopes |-> 0]
  BY ChunkIsWellFormed
<1>2. Len(program[t]) \in Nat
  BY <1>1 DEF IsSeq
<1>3. NInstr(program[t], 1) \in Nat
  <2>1. 2 \in Nat /\ 2 > 1
    OBVIOUS
  <2> QED
    BY <1>1, <2>1, InstrCounts
<1>4. /\ Started(t) = [chunk |-> t, pc |-> 1, ninstr |-> NInstr(program[t], 1),
                       nsize |-> Len(program[t])]
      /\ Started(t) \in Registers
  BY <1>2, <1>3 DEF Started, Registers
<1>5. /\ Started(t).chunk = t /\ Started(t).pc = 1
      /\ Started(t).ninstr >= NInstr(program[t], 1)
      /\ Started(t).nsize >= Len(program[t]) - 1 + 1
  BY <1>2, <1>3, <1>4
<1>6. c.depth = c.depth + heights[t][1].stack /\ c.scope = c.scope + heights[t][1].scopes
  BY <1>1
<1> QED
  BY <1>1, <1>4, <1>5, <1>6 DEF At

(* CALL of 'resolve' *)
LEMMA ResolveStep == ASSUME MachineInv, InstrCallResolve PROVE MachineInv'
<1>1. OnInstr("CALL")
  BY DEF InstrCallResolve
<1>2. /\ mode = "running" /\ Instr.op = "CALL" /\ Instr.narg \in Nat
      /\ Pops(Instr) = Instr.narg + 1 /\ Len(stack) \in Nat
  BY <1>1, CallFinds
<1>3. /\ code = program /\ WellFormed(program, heights) /\ Frames /\ Balanced /\ Bases
      /\ At(regs, Current, Len(stack), Len(scopes)) /\ stack' = Popped(1)
  BY <1>2 DEF MachineInv, Running, Frames, InstrCallResolve
<1>4. /\ Current.depth \in Nat /\ Current.scope \in Nat /\ Len(scopes) \in Nat
      /\ Current.depth <= Len(stack) - 1 /\ Current.scope <= Len(scopes)
      /\ Instr = program[regs.chunk][regs.pc] /\ regs \in Registers
  BY <1>2, PopsItsOwn, SMTT(60) DEF ScopesBefore
<1>5. CASE ~Resolvable
  <2>1. 1 \in Nat /\ 1 <= Pops(Instr)
    BY <1>2
  <2>2. /\ mode' \in {"error", "fail"} /\ UNCHANGED <<code, catch, saved, callers, scopes>>
    BY <1>5 DEF InstrCallResolve
  <2>3. /\ IsSeq(scopes') /\ Len(scopes') >= Len(scopes)
        /\ \A i \in 1..Len(scopes) : scopes'[i] = scopes[i]
    BY <1>3, <1>4, <2>2 DEF Balanced
  <2> QED
    BY <1>2, <1>3, <2>1, <2>2, <2>3, Thrown
<1>6. CASE Resolvable
  <2> DEFINE n == Len(saved)
             base == [depth |-> Len(stack) - 1, scope |-> Len(scopes)]
             caller == [stack |-> stack', scopes |-> scopes]
  <2>1. /\ IsSeq(saved) /\ IsSeq(callers) /\ IsSeq(catch) /\ IsSeq(stack) /\ IsSeq(scopes)
        /\ n \in Nat /\ Len(callers) = n /\ Len(catch) = n + 1 /\ Current = catch[n + 1]
    BY <1>3 DEF Frames, Bases, Balanced, IsSeq, Current
  <2>2. /\ IsSeq(stack') /\ Len(stack') = Len(stack) - 1
        /\ \A i \in 1..(Len(stack) - 1) : stack'[i] = stack[i]
    <3>1. Len(stack) - 1 \in 0..Len(stack)
      BY <1>2, <1>4
    <3> QED
      BY <1>3, <2>1, <3>1, Prefix DEF Popped
  <2>3. /\ saved' = Append(saved, regs) /\ callers' = Append(callers, caller)
        /\ catch' = Append(catch, base) /\ regs' = Started(ResolvedGoal)
        /\ UNCHANGED <<code, mode, scopes>>
    <3>1. Len(Popped(1)) = Len(stack) - 1
      BY <1>3, <2>2
    <3> QED
      BY <1>6, <3>1 DEF InstrCallResolve, Try
  <2> HIDE DEF n, base, caller
  <2>4. /\ IsSeq(saved') /\ Len(saved') = n + 1 /\ saved'[n + 1] = regs
        /\ \A k \in 1..n : saved'[k] = saved[k]
    <3>1. /\ IsSeq(Append(saved, regs)) /\ Len(Append(saved, regs)) = Len(saved) + 1
          /\ Append(saved, regs)[Len(saved) + 1] = regs
          /\ \A k \in 1..Len(saved) : Append(saved, regs)[k] = saved[k]
      BY <2>1, Appended, SMTT(30)
    <3> QED
      BY <2>3, <3>1, Zenon DEF n
  <2>5. /\ IsSeq(callers') /\ Len(callers') = n + 1 /\ callers'[n + 1] = caller
        /\ \A k \in 1..n : callers'[k] = callers[k]
    <3>1. /\ IsSeq(Append(callers, caller)) /\ Len(Append(callers, caller)) = Len(callers) + 1
          /\ Append(callers, caller)[Len(callers) + 1] = caller
          /\ \A k \in 1..Len(callers) : Append(callers, caller)[k] = callers[k]
      BY <2>1, Appended, ZenonT(60)
    <3> QED
      BY <2>1, <2>3, <3>1, Zenon
  <2>6. /\ IsSeq(catch') /\ Len(catch') = n + 2 /\ catch'[n + 2] = base
        /\ \A k \in 1..(n + 1) : catch'[k] = catch[k]
    <3>1. /\ IsSeq(Append(catch, base)) /\ Len(Append(catch, base)) = Len(catch) + 1
          /\ Append(catch, base)[Len(catch) + 1] = base
          /\ \A k \in 1..Len(catch) : Append(catch, base)[k] = catch[k]
      BY <2>1, Appended, ZenonT(60)
    <3>2. n + 2 = (n + 1) + 1
      BY <2>1
    <3> QED
      BY <2>1, <2>3, <3>1, <3>2, Zenon
  <2>7. /\ base.depth = Len(stack) - 1 /\ base.scope = Len(scopes)
        /\ base.depth \in Nat /\ base.scope \in Nat
        /\ caller.stack = stack' /\ caller.scopes = scopes
    BY <1>2, <1>4 DEF base, caller
  <2>8. Bases'
    <3>1. \A k \in 1..(n + 1) :
            /\ catch[k].depth \in Nat /\ catch[k].scope \in Nat
            /\ catch[k].depth <= Current.depth /\ catch[k].scope <= Current.scope
      BY <1>3, <2>1 DEF Bases, Current
    <3>2. \A k \in 1..(n + 2) : catch'[k].depth \in Nat /\ catch'[k].scope \in Nat
      BY <2>1, <2>6, <2>7, <3>1
    <3>3. ASSUME NEW j \in 1..(n + 2), NEW k \in 1..(n + 2), j <= k
          PROVE  catch'[j].depth <= catch'[k].depth /\ catch'[j].scope <= catch'[k].scope
      <4>1. CASE k \in 1..(n + 1)
        BY <1>3, <2>1, <2>6, <3>3, <4>1 DEF Bases
      <4>2. CASE k = n + 2 /\ j \in 1..(n + 1)
        <5>1. catch'[j] = catch[j] /\ catch'[k] = base
          BY <2>6, <4>2
        <5>2. /\ catch[j].depth \in Nat /\ catch[j].scope \in Nat
              /\ catch[j].depth <= Current.depth /\ catch[j].scope <= Current.scope
          BY <3>1, <4>2
        <5>3. Current.depth <= base.depth /\ Current.scope <= base.scope
          BY <1>4, <2>7
        <5> QED
          BY <1>4, <2>7, <5>1, <5>2, <5>3, SMTT(60)
      <4>3. CASE k = n + 2 /\ j = n + 2
        BY <2>6, <2>7, <4>3
      <4> QED
        BY <2>1, <3>3, <4>1, <4>2, <4>3
    <3>4. catch'[1].depth = 0 /\ catch'[1].scope = 0
      BY <1>3, <2>1, <2>6 DEF Bases
    <3>5. Len(catch') = Len(saved') + 1
      BY <2>1, <2>4, <2>6
    <3> QED
      BY <2>6, <3>2, <3>3, <3>4, <3>5 DEF Bases
  <2>9. ASSUME NEW k \in 1..(n + 1) PROVE Caller(k)' /\ Under(k)'
    <3>1. CASE k \in 1..n
      <4>1. Caller(k) /\ Under(k)
        BY <1>3, <3>1 DEF Frames, n
      <4>2. k \in 1..(n + 1) /\ k + 1 \in 1..(n + 1)
        BY <2>1, <3>1
      <4>3. /\ catch'[k] = catch[k] /\ catch'[k + 1] = catch[k + 1]
            /\ saved'[k] = saved[k] /\ callers'[k] = callers[k]
        BY <2>4, <2>5, <2>6, <3>1, <4>2
      <4>4. Caller(k)'
        BY <4>1, <4>3 DEF Caller, At
      <4>5. /\ catch[k + 1].depth \in Nat /\ catch[k + 1].depth <= Current.depth
        BY <1>3, <2>1, <4>2 DEF Bases, Current
      <4>6. 1..catch[k + 1].depth \subseteq 1..(Len(stack) - 1)
        BY <1>2, <1>4, <4>5, SMTT(60)
      <4>7. Under(k)'
        BY <2>2, <2>3, <4>1, <4>3, <4>6 DEF Under
      <4> QED
        BY <4>4, <4>7
    <3>2. CASE k = n + 1
      <4>1. /\ catch'[k] = Current /\ catch'[k + 1] = base
            /\ saved'[k] = regs /\ callers'[k] = caller
        <5>1. k + 1 = n + 2 /\ k \in 1..(n + 1)
          BY <2>1, <3>2
        <5> QED
          BY <2>1, <2>4, <2>5, <2>6, <3>2, <5>1
      <4>2. Len(stack') + 1 = Len(stack)
        BY <1>2, <2>2
      <4>3. At(saved'[k], catch'[k], Len(callers'[k].stack) + 1, Len(callers'[k].scopes))
        BY <1>3, <2>7, <4>1, <4>2
      <4>4. program[saved'[k].chunk][saved'[k].pc].op = "CALL"
        BY <1>2, <1>4, <4>1
      <4>5. Caller(k)'
        BY <2>1, <2>2, <2>3, <2>7, <4>1, <4>3, <4>4 DEF Caller, At
      <4>6. Under(k)'
        BY <2>3, <2>7, <4>1 DEF Under
      <4> QED
        BY <4>5, <4>6
    <3> QED
      BY <2>1, <3>1, <3>2
  <2>10. Frames'
    BY <2>4, <2>5, <2>8, <2>9 DEF Frames
  <2>11. Current' = base
    BY <2>6 DEF Current
  <2>12. Balanced'
    BY <1>2, <1>4, <2>1, <2>2, <2>3, <2>7, <2>11 DEF Balanced
  <2>13. Running'
    <3>1. ResolvedGoal \in Targets
      BY <1>6, MachineAssumption DEF Resolvable, ResolvedGoal
    <3>2. /\ At(Started(ResolvedGoal), base, base.depth, base.scope)
          /\ program[Started(ResolvedGoal).chunk][Started(ResolvedGoal).pc].op # "CALL"
      BY <1>3, <2>7, <3>1, StartsAt
    <3>3. /\ At(regs', Current', Len(stack'), Len(scopes'))
          /\ program[regs'.chunk][regs'.pc].op # "CALL"
      BY <2>2, <2>3, <2>7, <2>11, <3>2
    <3>4. At(regs, Current, Len(stack), Len(scopes))'
      BY <3>3 DEF At
    <3> QED
      BY <3>3, <3>4 DEF Running
  <2> QED
    BY <1>2, <1>3, <2>3, <2>10, <2>12, <2>13 DEF MachineInv, LeavesNothing
<1> QED
  BY <1>5, <1>6

-------------------------------------------------------------------------------
(* The ends of a vm_exec.                                                  *)

(* What the innermost caller has on the stack and in its scopes, and that  *)
(* nothing of it is lost.                                                  *)
LEMMA InnermostCaller ==
  ASSUME MachineInv, mode # "done", saved # <<>>,
         NEW n, n = Len(saved), NEW r, r = Last(saved), NEW caller, caller = Last(callers)
  PROVE  LET instr == program[r.chunk][r.pc] IN
         /\ n \in Nat /\ n > 0 /\ r = saved[n] /\ caller = callers[n]
         /\ Last(catch) = catch[n + 1] /\ Current = catch[n + 1]
         /\ instr.op = "CALL" /\ instr.narg \in Nat
         /\ catch[n].depth \in Nat /\ catch[n].scope \in Nat
         /\ At(r, catch[n], Len(caller.stack) + 1, Len(caller.scopes))
         /\ IsSeq(caller.stack) /\ Len(caller.stack) = Current.depth
         /\ IsSeq(caller.scopes) /\ Len(caller.scopes) = Current.scope
         /\ \A i \in 1..Len(caller.stack) : stack[i] = caller.stack[i]
         /\ \A i \in 1..Len(caller.scopes) : scopes[i] = caller.scopes[i]
         /\ catch[n].depth <= Len(caller.stack) - instr.narg
         /\ catch[n].scope <= Len(caller.scopes)
<1> DEFINE instr == program[r.chunk][r.pc]
<1>1. WellFormed(program, heights) /\ Frames /\ Bases /\ IsSeq(saved)
  BY DEF MachineInv, Frames
<1>2. n \in Nat /\ n > 0
  <2>1. Len(saved) \in Nat
    BY <1>1 DEF IsSeq
  <2>2. Len(saved) # 0
    BY <1>1, EmptySeq
  <2> QED
    BY <2>1, <2>2
<1>3. r = saved[n] /\ caller = callers[n] /\ Len(catch) = n + 1 /\ n \in 1..n
  BY <1>1, <1>2 DEF Last, Frames, Bases
<1>4. Last(catch) = catch[n + 1] /\ Current = catch[n + 1]
  BY <1>3 DEF Last, Current
<1>5. Caller(n) /\ Under(n)
  BY <1>1, <1>2 DEF Frames
<1>6. /\ At(r, catch[n], Len(caller.stack) + 1, Len(caller.scopes)) /\ instr.op = "CALL"
      /\ IsSeq(caller.stack) /\ Len(caller.stack) = Current.depth
      /\ IsSeq(caller.scopes) /\ Len(caller.scopes) = Current.scope
      /\ \A i \in 1..Len(caller.stack) : stack[i] = caller.stack[i]
      /\ \A i \in 1..Len(caller.scopes) : scopes[i] = caller.scopes[i]
  BY <1>3, <1>4, <1>5 DEF Caller, Under
<1>7. catch[n].depth \in Nat /\ catch[n].scope \in Nat
  BY <1>1, <1>2, <1>3 DEF Bases
<1>8. InstrWellFormed(program[r.chunk], heights[r.chunk], r.pc)
  <2>1. r.chunk \in Targets /\ IsInstr(program[r.chunk], r.pc)
    BY <1>6 DEF At, Registers
  <2> QED
    BY <1>1, <2>1, ChunkIsWellFormed
<1>9. /\ instr.narg \in Nat /\ heights[r.chunk][r.pc] \in Height
      /\ heights[r.chunk][r.pc].stack >= instr.narg + 1
  BY <1>6, <1>8 DEF InstrWellFormed, Pops
<1>10. /\ heights[r.chunk][r.pc].stack \in Nat /\ heights[r.chunk][r.pc].scopes \in Nat
  BY <1>9 DEF Height
<1>11. /\ Len(caller.stack) + 1 = catch[n].depth + heights[r.chunk][r.pc].stack
       /\ Len(caller.scopes) = catch[n].scope + heights[r.chunk][r.pc].scopes
  BY <1>6 DEF At
<1>12. Len(caller.stack) \in Nat
  BY <1>6 DEF IsSeq
<1>13. catch[n].depth <= Len(caller.stack) - instr.narg
  <2> HIDE DEF instr
  <2> QED
    BY <1>7, <1>9, <1>10, <1>11, <1>12, SMTT(60)
<1>14. catch[n].scope <= Len(caller.scopes)
  BY <1>7, <1>10, <1>11, SMTT(60)
<1> QED
  BY <1>2, <1>3, <1>4, <1>6, <1>7, <1>9, <1>13, <1>14

(* The frames that are left when the innermost vm_exec has ended. *)
LEMMA Returned ==
  ASSUME MachineInv, mode # "done", saved # <<>>,
         saved' = Front(saved), callers' = Front(callers), catch' = Front(catch),
         NEW caller, caller = Last(callers),
         NEW m \in Nat, m <= Len(caller.stack), m >= catch[Len(saved)].depth,
         IsSeq(stack'), Len(stack') >= m, \A i \in 1..m : stack'[i] = caller.stack[i],
         scopes' = caller.scopes
  PROVE  Frames' /\ Balanced' /\ Current' = catch[Len(saved)]
<1>1. PICK n, r : n = Len(saved) /\ r = Last(saved)
  OBVIOUS
<1>2. /\ n \in Nat /\ n > 0 /\ Current = catch[n + 1]
      /\ catch[n].depth \in Nat /\ catch[n].scope \in Nat
      /\ IsSeq(caller.stack) /\ Len(caller.stack) = Current.depth
      /\ IsSeq(caller.scopes) /\ Len(caller.scopes) = Current.scope
      /\ \A i \in 1..Len(caller.stack) : stack[i] = caller.stack[i]
      /\ \A i \in 1..Len(caller.scopes) : scopes[i] = caller.scopes[i]
      /\ catch[n].scope <= Len(caller.scopes)
  BY <1>1, InnermostCaller, SMTT(60)
<1>3. /\ Frames /\ Bases /\ IsSeq(saved) /\ IsSeq(callers) /\ IsSeq(catch)
      /\ Len(callers) = n /\ Len(catch) = n + 1 /\ Len(saved) = n
  BY <1>1 DEF MachineInv, Frames, Bases
<1>4. /\ IsSeq(saved') /\ Len(saved') = n - 1 /\ \A k \in 1..(n - 1) : saved'[k] = saved[k]
  <2>1. Len(saved) > 0 /\ Len(saved) - 1 = n - 1
    BY <1>2, <1>3
  <2>2. /\ IsSeq(saved') /\ Len(saved') = Len(saved) - 1
        /\ \A k \in 1..(Len(saved) - 1) : saved'[k] = saved[k]
    BY <1>3, <2>1, FrontAndLast
  <2> QED
    BY <2>1, <2>2
<1>5. /\ IsSeq(callers') /\ Len(callers') = n - 1
      /\ \A k \in 1..(n - 1) : callers'[k] = callers[k]
  <2>1. Len(callers) > 0 /\ Len(callers) - 1 = n - 1
    BY <1>2, <1>3
  <2>2. /\ IsSeq(callers') /\ Len(callers') = Len(callers) - 1
        /\ \A k \in 1..(Len(callers) - 1) : callers'[k] = callers[k]
    BY <1>3, <2>1, FrontAndLast
  <2> QED
    BY <2>1, <2>2
<1>6. /\ IsSeq(catch') /\ Len(catch') = n /\ \A k \in 1..n : catch'[k] = catch[k]
  <2>1. Len(catch) > 0 /\ Len(catch) - 1 = n
    BY <1>2, <1>3
  <2> QED
    BY <1>3, <2>1, FrontAndLast
<1>7. Current' = catch[n] /\ n \in 1..n
  BY <1>2, <1>6 DEF Current
<1>8. Balanced'
  <2>1. Len(stack') \in Nat
    BY DEF IsSeq
  <2>2. Len(stack') >= catch[n].depth
    BY <1>1, <1>2, <2>1
  <2> QED
    BY <1>2, <1>7, <2>2 DEF Balanced
<1>9. Bases'
  <2>1. \A k \in 1..n : k \in 1..(n + 1)
    BY <1>2
  <2>2. Len(catch') = Len(saved') + 1 /\ 1 \in 1..n
    BY <1>2, <1>4, <1>6
  <2> QED
    BY <1>3, <1>6, <2>1, <2>2 DEF Bases
<1>10. ASSUME NEW k \in 1..(n - 1) PROVE Caller(k)' /\ Under(k)'
  <2>1. k \in 1..n /\ k + 1 \in 1..n
    BY <1>2
  <2>2. Caller(k) /\ Under(k)
    BY <1>3, <2>1 DEF Frames
  <2>3. /\ catch'[k] = catch[k] /\ catch'[k + 1] = catch[k + 1]
        /\ saved'[k] = saved[k] /\ callers'[k] = callers[k]
    BY <1>4, <1>5, <1>6, <2>1
  <2>4. Caller(k)'
    BY <2>2, <2>3 DEF Caller, At
  <2>5. /\ catch[k + 1].depth \in Nat /\ catch[k + 1].depth <= catch[n].depth
        /\ catch[k + 1].scope \in Nat /\ catch[k + 1].scope <= catch[n].scope
    <3>1. k + 1 \in 1..(n + 1) /\ n \in 1..(n + 1) /\ k + 1 <= n
      BY <1>2, <2>1
    <3> QED
      BY <1>3, <3>1 DEF Bases
  <2>6. /\ Len(caller.stack) \in Nat /\ Len(caller.scopes) \in Nat
    BY <1>2 DEF IsSeq
  <2>7. /\ 1..catch[k + 1].depth \subseteq 1..m
        /\ 1..catch[k + 1].depth \subseteq 1..Len(caller.stack)
        /\ 1..catch[k + 1].scope \subseteq 1..Len(caller.scopes)
    <3>1. catch[k + 1].depth <= m
      BY <1>1, <1>2, <2>5
    <3>2. catch[k + 1].depth <= Len(caller.stack)
      BY <2>5, <2>6, <3>1
    <3>3. catch[n].scope \in Nat /\ catch[n].scope <= Len(caller.scopes)
      BY <1>2
    <3>4. catch[k + 1].scope <= Len(caller.scopes)
      BY <2>5, <2>6, <3>3, SMTT(60)
    <3> QED
      BY <2>5, <2>6, <3>1, <3>2, <3>4, SMTT(60)
  <2>8. /\ \A i \in 1..catch[k + 1].depth : stack'[i] = callers[k].stack[i]
        /\ \A i \in 1..catch[k + 1].scope : scopes'[i] = callers[k].scopes[i]
    BY <1>2, <2>2, <2>7 DEF Under
  <2>9. Under(k)'
    BY <2>3, <2>8 DEF Under
  <2> QED
    BY <2>4, <2>9
<1> QED
  BY <1>1, <1>4, <1>5, <1>7, <1>8, <1>9, <1>10 DEF Frames

(* A vm_exec that has come to its end has nothing on stack and scopes.     *)
LEMMA EndsEven ==
  ASSUME MachineInv, Halt
  PROVE  /\ mode = "running" /\ OnInstr("HALT") /\ IsSeq(stack) /\ IsSeq(scopes)
         /\ Len(stack) = Current.depth /\ Len(scopes) = Current.scope
<1>1. mode = "running"
  BY DEF Halt
<1>2. /\ At(regs, Current, Len(stack), Len(scopes)) /\ Balanced
      /\ IsInstr(program[regs.chunk], regs.pc) /\ IsSeq(program[regs.chunk])
      /\ InstrWellFormed(program[regs.chunk], heights[regs.chunk], regs.pc)
      /\ Instr = program[regs.chunk][regs.pc] /\ regs \in Registers
      /\ Current.depth \in Nat /\ Current.scope \in Nat
  BY <1>1, PopsItsOwn DEF MachineInv, Running
<1>3. regs.ninstr > 0
  <2>1. regs.pc \in Nat /\ regs.ninstr \in Int
    BY <1>2 DEF Registers
  <2>2. regs.pc + 1 \in Nat /\ regs.pc + 1 > regs.pc
    BY <2>1
  <2>3. /\ NInstr(program[regs.chunk], regs.pc) \in Nat
        /\ NInstr(program[regs.chunk], regs.pc + 1) \in Nat
        /\ NInstr(program[regs.chunk], regs.pc + 1) + 1 <= NInstr(program[regs.chunk], regs.pc)
    BY <1>2, <2>2, InstrCounts
  <2>4. regs.ninstr >= NInstr(program[regs.chunk], regs.pc)
    BY <1>2 DEF At
  <2> QED
    BY <2>1, <2>3, <2>4
<1>4. OnInstr("HALT")
  <2>1. regs.ninstr \in Int
    BY <1>2 DEF Registers
  <2> QED
    BY <1>3, <2>1 DEF Halt, AtEnd
<1>5. heights[regs.chunk][regs.pc] = [stack |-> 0, scopes |-> 0]
  BY <1>2, <1>4 DEF InstrWellFormed, OnInstr, Instr
<1>6. Len(stack) = Current.depth + 0 /\ Len(scopes) = Current.scope + 0
  BY <1>2, <1>5 DEF At
<1> QED
  BY <1>1, <1>2, <1>4, <1>6 DEF Balanced

(* A nested vm_exec that comes to its end finds what its caller had.       *)
LEMMA HaltsNested ==
  ASSUME MachineInv, Halt, saved # <<>>, NEW caller, caller = Last(callers)
  PROVE  stack = caller.stack /\ scopes = caller.scopes
<1>1. /\ mode = "running" /\ IsSeq(stack) /\ IsSeq(scopes)
      /\ Len(stack) = Current.depth /\ Len(scopes) = Current.scope
  BY EndsEven
<1>2. PICK n, r : n = Len(saved) /\ r = Last(saved)
  OBVIOUS
<1>3. /\ IsSeq(caller.stack) /\ Len(caller.stack) = Current.depth
      /\ IsSeq(caller.scopes) /\ Len(caller.scopes) = Current.scope
      /\ \A i \in 1..Len(caller.stack) : stack[i] = caller.stack[i]
      /\ \A i \in 1..Len(caller.scopes) : scopes[i] = caller.scopes[i]
  BY <1>1, <1>2, InnermostCaller
<1>4. stack = caller.stack
  BY <1>1, <1>3, SameSeq
<1>5. scopes = caller.scopes
  BY <1>1, <1>3, SameSeq
<1> QED
  BY <1>4, <1>5

(* HALT *)
LEMMA HaltStep == ASSUME MachineInv, Halt PROVE MachineInv'
<1>1. /\ mode = "running" /\ IsSeq(stack) /\ IsSeq(scopes)
      /\ Len(stack) = Current.depth /\ Len(scopes) = Current.scope
  BY EndsEven
<1>2. /\ code = program /\ WellFormed(program, heights) /\ Frames /\ Bases
  BY <1>1 DEF MachineInv, Frames
<1>3. code' = code /\ scopes' = scopes /\ catch' = Front(catch)
  BY DEF Halt, TryDone
<1>4. CASE saved = <<>>
  <2>1. mode' = "done" /\ UNCHANGED <<stack, saved, callers>>
    BY <1>4 DEF Halt
  <2>2. Len(catch) = 1 /\ IsSeq(catch)
    BY <1>2, <1>4, NoValue DEF Bases
  <2>3. Current.depth = 0 /\ Current.scope = 0
    BY <1>2, <2>2 DEF Bases, Current
  <2>4. stack = <<>> /\ scopes = <<>>
    BY <1>1, <2>3, EmptySeq
  <2>5. catch' = <<>>
    <3>1. IsSeq(Front(catch)) /\ Len(Front(catch)) = 0
      BY <2>2, FrontAndLast
    <3> QED
      BY <1>3, <3>1, EmptySeq
  <2> QED
    BY <1>2, <1>3, <1>4, <2>1, <2>4, <2>5 DEF MachineInv, LeavesNothing
<1>5. CASE saved # <<>>
  <2>1. PICK n, r, caller : n = Len(saved) /\ r = Last(saved) /\ caller = Last(callers)
    OBVIOUS
  <2> DEFINE instr == program[r.chunk][r.pc]
  <2>2. /\ n \in Nat /\ n > 0 /\ instr.op = "CALL" /\ instr.narg \in Nat
        /\ catch[n].depth \in Nat /\ catch[n].scope \in Nat
        /\ At(r, catch[n], Len(caller.stack) + 1, Len(caller.scopes))
        /\ IsSeq(caller.stack) /\ Len(caller.stack) = Current.depth
        /\ IsSeq(caller.scopes) /\ Len(caller.scopes) = Current.scope
        /\ catch[n].depth <= Len(caller.stack) - instr.narg
    BY <1>1, <1>5, <2>1, InnermostCaller, SMTT(60)
  <2>3. stack = caller.stack /\ scopes = caller.scopes
    BY <1>5, <2>1, HaltsNested
  <2>4. /\ mode' = "running" /\ regs' = Advanced(r, 1)
        /\ saved' = Front(saved) /\ callers' = Front(callers)
        /\ stack' = Append(Popped(instr.narg), Integer(1))
    BY <1>1, <1>2, <1>5, <2>1 DEF Halt
  <2>5. PICK m : m = Len(stack) - instr.narg
    OBVIOUS
  <2>6. Len(stack) \in Nat /\ m \in Nat /\ m <= Len(stack) /\ m >= catch[n].depth
    <3>1. Len(stack) \in Nat
      BY <1>1 DEF IsSeq
    <3> HIDE DEF instr
    <3> QED
      BY <2>2, <2>3, <2>5, <3>1, SMTT(60)
  <2>7. PICK under : under = Popped(instr.narg)
    OBVIOUS
  <2>8. IsSeq(under) /\ Len(under) = m /\ \A i \in 1..m : under[i] = stack[i]
    <3>1. m \in 0..Len(stack) /\ under = SubSeq(stack, 1, m)
      BY <2>5, <2>6, <2>7, SMTT(60) DEF Popped
    <3> QED
      BY <1>1, <3>1, Prefix
  <2>9. /\ IsSeq(stack') /\ Len(stack') = m + 1
        /\ \A i \in 1..m : stack'[i] = stack[i]
    <3>1. PICK new : new = Append(under, Integer(1))
      OBVIOUS
    <3>2. IsSeq(Append(under, Integer(1))) /\ Len(Append(under, Integer(1))) = Len(under) + 1
      BY <2>8, Appended
    <3>3. \A i \in 1..Len(under) : Append(under, Integer(1))[i] = under[i]
      BY <2>8, Appended
    <3> QED
      BY <2>4, <2>7, <2>8, <3>2, <3>3, ZenonT(30)
  <2>10. Frames' /\ Balanced' /\ Current' = catch[n]
    <3>1. /\ mode # "done" /\ saved # <<>> /\ caller = Last(callers)
          /\ saved' = Front(saved) /\ callers' = Front(callers) /\ catch' = Front(catch)
          /\ scopes' = caller.scopes
      BY <1>1, <1>3, <1>5, <2>1, <2>3, <2>4
    <3>2. m \in Nat /\ m <= Len(caller.stack) /\ m >= catch[Len(saved)].depth
      BY <2>1, <2>3, <2>6
    <3>3. IsSeq(stack') /\ Len(stack') >= m
      BY <2>6, <2>9
    <3>4. \A i \in 1..m : stack'[i] = caller.stack[i]
      BY <2>3, <2>9
    <3> QED
      BY <2>1, <3>1, <3>2, <3>3, <3>4, Returned
  <2>11. Running'
    <3>1. r \in Registers /\ r.chunk \in Targets /\ r.pc \in Nat
          /\ r.ninstr \in Int /\ r.nsize \in Int
      BY <2>2 DEF At, Registers
    <3>2. r = [chunk |-> r.chunk, pc |-> r.pc, ninstr |-> r.ninstr, nsize |-> r.nsize]
      BY <3>1 DEF Registers
    <3>3. regs' = [chunk |-> r.chunk, pc |-> r.pc + 1, ninstr |-> r.ninstr - 1,
                   nsize |-> r.nsize - 1]
      BY <2>4, <3>2 DEF Advanced
    <3>4. regs' \in Registers
      <4>1. r.pc + 1 \in Nat /\ r.ninstr - 1 \in Int /\ r.nsize - 1 \in Int
        BY <3>1
      <4> QED
        BY <3>1, <3>3, <4>1 DEF Registers
    <3>5. Successors(program[r.chunk], r.pc) = {r.pc + 1}
      BY <2>2 DEF Successors, Words
    <3>6. /\ regs'.chunk = r.chunk /\ regs'.pc \in Successors(program[r.chunk], r.pc)
          /\ regs'.ninstr >= r.ninstr - 1 /\ regs'.nsize >= r.nsize - (regs'.pc - r.pc)
      BY <3>1, <3>3, <3>5
    <3>7. /\ Pops(instr) = instr.narg + 1 /\ Pushes(instr) = 1
          /\ ScopesBefore(instr) = 0 /\ ScopesAfter(instr) = 0 /\ ~PushesMethod(instr)
      BY <2>2 DEF Pops, Pushes, ScopesBefore, ScopesAfter, PushesMethod
    <3>8. PICK c, q, d, s : /\ c = catch[n] /\ q = regs' /\ d = Len(caller.stack) + 1
                            /\ s = Len(caller.scopes)
      OBVIOUS
    <3>9. /\ At(q, c, d - Pops(instr) + Pushes(instr),
                   s - ScopesBefore(instr) + ScopesAfter(instr))
          /\ program[q.chunk][q.pc].op = "CALL" => PushesMethod(instr)
      <4>1. /\ c.depth \in Nat /\ c.scope \in Nat /\ At(r, c, d, s) /\ q \in Registers
            /\ q.chunk = r.chunk /\ q.pc \in Successors(program[r.chunk], r.pc)
            /\ q.ninstr >= r.ninstr - 1 /\ q.nsize >= r.nsize - (q.pc - r.pc)
        BY <2>2, <3>4, <3>6, <3>8
      <4> QED
        BY <1>2, <4>1, AtNext
    <3>10. d - Pops(instr) + Pushes(instr) = Len(stack')
      <4> HIDE DEF instr
      <4>1. Len(stack') = Len(stack) - instr.narg + 1
        BY <2>5, <2>9
      <4>2. d = Len(stack) + 1 /\ Len(stack) \in Nat /\ instr.narg \in Nat
        BY <2>2, <2>3, <2>6, <3>8
      <4>3. Pops(instr) = instr.narg + 1 /\ Pushes(instr) = 1
        BY <3>7
      <4> QED
        BY <4>1, <4>2, <4>3, SMTT(60)
    <3>11. s - ScopesBefore(instr) + ScopesAfter(instr) = Len(scopes')
      <4>1. Len(caller.scopes) \in Nat
        BY <2>2 DEF IsSeq
      <4> QED
        BY <1>3, <2>3, <3>7, <3>8, <4>1
    <3>12. At(q, c, Len(stack'), Len(scopes'))
      BY <3>9, <3>10, <3>11
    <3>13. At(regs, Current, Len(stack), Len(scopes))'
      BY <2>10, <3>8, <3>12 DEF At
    <3> QED
      BY <3>7, <3>8, <3>9, <3>13 DEF Running
  <2> QED
    BY <1>2, <1>3, <2>4, <2>10, <2>11 DEF MachineInv, LeavesNothing
<1> QED
  BY <1>4, <1>5

(* What the handler of an exception leaves on the stack. *)
LEMMA Unwound ==
  ASSUME IsSeq(stack), NEW c, c.depth \in Nat, Len(stack) >= c.depth,
         NEW left, left = IF Len(stack) > c.depth THEN SubSeq(stack, 1, c.depth) ELSE stack
  PROVE  /\ IsSeq(left) /\ Len(left) = c.depth
         /\ \A i \in 1..c.depth : left[i] = stack[i]
<1>1. Len(stack) \in Nat
  BY DEF IsSeq
<1>2. CASE Len(stack) > c.depth
  <2>1. c.depth \in 0..Len(stack) /\ left = SubSeq(stack, 1, c.depth)
    BY <1>1, <1>2
  <2> QED
    BY <2>1, Prefix
<1>3. CASE ~(Len(stack) > c.depth)
  BY <1>1, <1>3
<1> QED
  BY <1>2, <1>3

(* The scopes that the handler of VM_TRY leaves are those it found at entry. *)
LEMMA UnwoundScopes ==
  ASSUME IsSeq(scopes), NEW c, c.scope \in Nat, Len(scopes) >= c.scope
  PROVE  /\ IsSeq(ScopesLeft(c)) /\ Len(ScopesLeft(c)) = c.scope
         /\ \A i \in 1..c.scope : ScopesLeft(c)[i] = scopes[i]
<1>1. Len(scopes) \in Nat /\ c.scope \in 0..Len(scopes)
  BY DEF IsSeq
<1>2. ScopesLeft(c) = SubSeq(scopes, 1, c.scope)
  BY DEF ScopesLeft
<1> QED
  BY <1>1, <1>2, Prefix

(* Where the saved registers continue. *)
LEMMA RestoresChunk ==
  ASSUME MachineInv, mode # "done", saved # <<>>, NEW r, r = Last(saved)
  PROVE  Advanced(r, 1).chunk = r.chunk
<1>1. PICK n, caller : n = Len(saved) /\ caller = Last(callers)
  OBVIOUS
<1>2. At(r, catch[n], Len(caller.stack) + 1, Len(caller.scopes))
  BY <1>1, InnermostCaller
<1> QED
  BY <1>2 DEF At, Registers, Advanced

(* An exception that a nested vm_exec handles: the caller's stack without  *)
(* the arguments, and its scopes.                                          *)
LEMMA HandlesNested ==
  ASSUME MachineInv, Handle, saved # <<>>, NEW caller, caller = Last(callers),
         NEW narg, narg = program[Last(saved).chunk][Last(saved).pc].narg
  PROVE  /\ mode \in {"error", "fail"} /\ mode' = mode /\ regs' = Last(saved)
         /\ saved' = Front(saved) /\ callers' = Front(callers) /\ catch' = Front(catch)
         /\ stack' = SubSeq(caller.stack, 1, Len(caller.stack) - narg)
         /\ scopes' = caller.scopes
<1>1. /\ mode \in {"error", "fail"} /\ mode' = mode /\ regs' = Last(saved)
      /\ saved' = Front(saved) /\ callers' = Front(callers) /\ catch' = Front(catch)
      /\ code = program /\ Balanced
  BY DEF Handle, TryDone, MachineInv
<1>2. PICK n, r, c : n = Len(saved) /\ r = Last(saved) /\ c = Last(catch)
  OBVIOUS
<1>3. /\ c = catch[n + 1] /\ Current = catch[n + 1]
      /\ IsSeq(caller.stack) /\ Len(caller.stack) = Current.depth
      /\ IsSeq(caller.scopes) /\ Len(caller.scopes) = Current.scope
      /\ \A i \in 1..Len(caller.stack) : stack[i] = caller.stack[i]
      /\ \A i \in 1..Len(caller.scopes) : scopes[i] = caller.scopes[i]
  BY <1>1, <1>2, InnermostCaller
<1>4. c.depth = Len(caller.stack) /\ c.scope = Len(caller.scopes)
  BY <1>3
<1>5. c.depth \in Nat /\ c.scope \in Nat
  BY <1>3, <1>4 DEF IsSeq
<1>6. IsSeq(stack) /\ IsSeq(scopes) /\ Len(stack) >= c.depth /\ Len(scopes) >= c.scope
  BY <1>1, <1>3 DEF Balanced
<1>7. PICK left : left = IF Len(stack) > c.depth THEN SubSeq(stack, 1, c.depth) ELSE stack
  OBVIOUS
<1>8. left = caller.stack
  <2>1. IsSeq(left) /\ Len(left) = c.depth /\ \A i \in 1..c.depth : left[i] = stack[i]
    BY <1>5, <1>6, <1>7, Unwound
  <2>2. Len(left) = Len(caller.stack) /\ \A i \in 1..Len(left) : left[i] = caller.stack[i]
    BY <1>3, <1>4, <2>1
  <2> QED
    BY <1>3, <2>1, <2>2, SameSeq
<1>9. ScopesLeft(c) = caller.scopes
  <2>1. /\ IsSeq(ScopesLeft(c)) /\ Len(ScopesLeft(c)) = c.scope
        /\ \A i \in 1..c.scope : ScopesLeft(c)[i] = scopes[i]
    BY <1>5, <1>6, UnwoundScopes
  <2>2. /\ Len(ScopesLeft(c)) = Len(caller.scopes)
        /\ \A i \in 1..Len(ScopesLeft(c)) : ScopesLeft(c)[i] = caller.scopes[i]
    BY <1>3, <1>4, <2>1
  <2> QED
    BY <1>3, <2>1, <2>2, SameSeq
<1>10. stack' = SubSeq(left, 1, Len(left) - narg) /\ scopes' = ScopesLeft(c)
  BY <1>1, <1>2, <1>7 DEF Handle
<1> QED
  BY <1>1, <1>8, <1>9, <1>10

(* Exceptions *)
LEMMA HandleStep == ASSUME MachineInv, Handle PROVE MachineInv'
<1>1. /\ mode \in {"error", "fail"} /\ code' = code /\ catch' = Front(catch)
      /\ code = program /\ WellFormed(program, heights) /\ Frames /\ Balanced /\ Bases
  BY DEF Handle, TryDone, MachineInv, Frames
<1>2. CASE saved = <<>>
  <2>1. Len(catch) = 1 /\ IsSeq(catch) /\ saved' = saved /\ mode' = "done"
    BY <1>1, <1>2, NoValue DEF Bases, Handle
  <2>2. PICK c : c = Last(catch)
    OBVIOUS
  <2>3. c.depth = 0 /\ c.scope = 0 /\ c = Current
    BY <1>1, <2>1, <2>2 DEF Bases, Last, Current
  <2>4. PICK left : left = IF Len(stack) > c.depth THEN SubSeq(stack, 1, c.depth) ELSE stack
    OBVIOUS
  <2>5. /\ IsSeq(stack) /\ IsSeq(scopes) /\ c.depth \in Nat /\ c.scope \in Nat
        /\ Len(stack) >= c.depth /\ Len(scopes) >= c.scope
    BY <1>1, <2>3 DEF Balanced
  <2>6. IsSeq(left) /\ Len(left) = 0 /\ IsSeq(ScopesLeft(c)) /\ Len(ScopesLeft(c)) = 0
    BY <2>3, <2>4, <2>5, Unwound, UnwoundScopes
  <2>7. stack' = left /\ scopes' = ScopesLeft(c)
    BY <1>2, <2>2, <2>4 DEF Handle
  <2>8. stack' = <<>> /\ scopes' = <<>>
    BY <2>6, <2>7, EmptySeq
  <2>9. catch' = <<>>
    <3>1. IsSeq(Front(catch)) /\ Len(Front(catch)) = 0
      BY <2>1, FrontAndLast
    <3> QED
      BY <1>1, <3>1, EmptySeq
  <2> QED
    BY <1>1, <1>2, <2>1, <2>8, <2>9 DEF MachineInv, LeavesNothing
<1>3. CASE saved # <<>>
  <2>1. PICK n, r, caller, narg :
          /\ n = Len(saved) /\ r = Last(saved) /\ caller = Last(callers)
          /\ narg = program[Last(saved).chunk][Last(saved).pc].narg
    OBVIOUS
  <2>2. /\ mode' = mode /\ saved' = Front(saved) /\ callers' = Front(callers)
        /\ stack' = SubSeq(caller.stack, 1, Len(caller.stack) - narg)
        /\ scopes' = caller.scopes
    BY <1>3, <2>1, HandlesNested
  <2>3. /\ IsSeq(caller.stack) /\ narg \in Nat /\ catch[n].depth \in Nat
        /\ catch[n].depth <= Len(caller.stack) - narg
    BY <1>1, <1>3, <2>1, InnermostCaller
  <2>4. PICK m : m = Len(caller.stack) - narg
    OBVIOUS
  <2>5. m \in Nat /\ m <= Len(caller.stack) /\ m \in 0..Len(caller.stack)
    <3>1. Len(caller.stack) \in Nat
      BY <2>3 DEF IsSeq
    <3> QED
      BY <2>3, <2>4, <3>1, SMTT(60)
  <2>6. IsSeq(stack') /\ Len(stack') >= m /\ \A i \in 1..m : stack'[i] = caller.stack[i]
    <3>1. /\ IsSeq(SubSeq(caller.stack, 1, m)) /\ Len(SubSeq(caller.stack, 1, m)) = m
          /\ \A i \in 1..m : SubSeq(caller.stack, 1, m)[i] = caller.stack[i]
      BY <2>3, <2>5, Prefix
    <3>2. stack' = SubSeq(caller.stack, 1, m)
      BY <2>2, <2>4
    <3> QED
      BY <2>5, <3>1, <3>2
  <2>7. mode # "done" /\ m >= catch[Len(saved)].depth
    BY <1>1, <2>1, <2>3, <2>4, SMTT(60)
  <2>8. Frames' /\ Balanced'
    BY <1>1, <1>3, <2>1, <2>2, <2>5, <2>6, <2>7, Returned
  <2> QED
    BY <1>1, <2>2, <2>8 DEF MachineInv, LeavesNothing
<1> QED
  BY <1>2, <1>3

(* The machine begins at the first instruction of the goal. *)
LEMMA BeginsAt == ASSUME MachineInit PROVE MachineInv
<1>1. /\ code = program /\ WellFormed(program, heights) /\ mode = "running"
      /\ regs = Started(Goal) /\ stack = <<>> /\ scopes = <<>> /\ saved = <<>>
      /\ callers = <<>> /\ catch = <<[depth |-> 0, scope |-> 0]>>
  BY NoValue DEF MachineInit, Idle, Try
<1>2. /\ IsSeq(catch) /\ Len(catch) = 1 /\ catch[1] = [depth |-> 0, scope |-> 0]
  BY <1>1, OneValue
<1>3. /\ IsSeq(<<>>) /\ Len(<<>>) = 0
  BY NoValue
<1>4. Frames
  BY <1>1, <1>2, <1>3 DEF Frames, Bases
<1>5. Current.depth = 0 /\ Current.scope = 0
  BY <1>2 DEF Current
<1>6. Balanced
  BY <1>1, <1>3, <1>5 DEF Balanced
<1>7. Running
  <2>1. PICK c : c = Current
    OBVIOUS
  <2>2. Goal \in Targets /\ c.depth \in Nat /\ c.scope \in Nat
    BY <1>5, <2>1, MachineAssumption
  <2>3. /\ At(Started(Goal), c, c.depth, c.scope)
        /\ program[Started(Goal).chunk][Started(Goal).pc].op # "CALL"
    BY <1>1, <2>2, StartsAt
  <2> QED
    BY <1>1, <1>3, <1>5, <2>1, <2>3 DEF Running
<1> QED
  BY <1>1, <1>4, <1>6, <1>7 DEF MachineInv, LeavesNothing

(* Every step of the machine keeps the invariant. *)
LEMMA MachineStep == ASSUME MachineInv, [MachineNext]_vars PROVE MachineInv'
<1>1. CASE UNCHANGED vars
  BY <1>1, SMTT(60) DEF MachineInv, vars, machine, Frames, Bases, Caller, Under, At,
                           Balanced, Running, Current, LeavesNothing
<1>2. CASE MachineNext
  BY <1>2, PushStep, ScopeStep, ValueEffect, ValueStep, BranchStep, CallStep, ResolveStep, HaltStep,
     HandleStep DEF MachineNext
<1> QED
  BY <1>1, <1>2

(* On every reachable state pc is at an instruction, stack and scopes have *)
(* the height that the code gives them there, and the frames of recursive  *)
(* 'resolve' calls are intact below (src/vm.c:63-88, src/builtin.c:152).   *)
THEOREM MachineInductive == MachineSpec => []MachineInv
<1>1. MachineInit => MachineInv
  BY BeginsAt
<1>2. MachineInv /\ [MachineNext]_vars => MachineInv'
  BY MachineStep
<1> QED
  BY <1>1, <1>2, PTL DEF MachineSpec

-------------------------------------------------------------------------------
(* A vm_exec leaves nothing on stack and scopes, however it ends: code     *)
(* that runs to HALT, an error or a handler that fails, of the goal or of  *)
(* whatever it resolves recursively (src/vm.c:76-88).                      *)
THEOREM NothingIsLeft == MachineSpec => []LeavesNothing
<1>1. MachineInv => LeavesNothing
  BY DEF MachineInv
<1> QED
  BY <1>1, MachineInductive, PTL

(* The loop of vm_run never ends before HALT, although BRANCH leaves       *)
(* ninstr and nsize behind (src/vm-instr.c:58-94): it never runs into      *)
(* data, and no check of nsize fails on complete code.                     *)
THEOREM CodeIsCovered == MachineSpec => []CodeCovered
<1>1. MachineInv => CodeCovered
  BY DEF MachineInv, Running, At, CodeCovered, IsInstr
<1> QED
  BY <1>1, MachineInductive, PTL

(* A recursive 'resolve' is neutral for the code that calls it: after the  *)
(* nested vm_exec, its scopes are as they were, and so is its stack but    *)
(* for arguments and status (src/builtin.c:152-177).                       *)
THEOREM NestedCallsAreNeutral == MachineSpec => NestedCallIsNeutral
<1> DEFINE Neutral ==
      Len(callers') < Len(callers) =>
        LET caller == Last(callers)
            narg   == code[regs'.chunk][Last(saved).pc].narg
            under  == SubSeq(caller.stack, 1, Len(caller.stack) - narg)
        IN /\ scopes' = caller.scopes
           /\ stack' = IF mode' = "running" THEN Append(under, Integer(1)) ELSE under
<1>1. ASSUME MachineInv, MachineNext, Len(callers') < Len(callers) PROVE Neutral
  <2>1. PICK caller, narg, r : /\ caller = Last(callers) /\ r = Last(saved)
                               /\ narg = program[r.chunk][r.pc].narg
    OBVIOUS
  <2>2. callers' # callers
    <3>1. SUFFICES ASSUME callers' = callers PROVE FALSE
      OBVIOUS
    <3>2. Len(callers') < Len(callers) /\ Len(callers') = Len(callers)
      BY <1>1, <3>1
    <3>3. mode # "done"
      BY <1>1, ZenonT(30) DEF MachineNext, InstrPush, InstrPushGlobal, InstrPushLocals,
            InstrPopLocals, InstrPopDiscard, InstrGetLocal, InstrFilter, InstrGetField, InstrSetField, InstrSet,
            InstrCmp, InstrNot, InstrBranch, InstrCall, InstrCallResolve, Halt, Handle, OnInstr
    <3>4. Len(callers) \in Nat
      BY <1>1, <3>3, SMTT(60) DEF MachineInv, Frames, IsSeq
    <3> QED
      BY <3>2, <3>4
  <2>3. CASE Halt
    <3>1. saved # <<>>
      BY <2>2, <2>3 DEF Halt
    <3>2. stack = caller.stack /\ scopes = caller.scopes
      BY <1>1, <2>1, <2>3, <3>1, HaltsNested, SMTT(60)
    <3>3. /\ code = program /\ mode' = "running" /\ regs' = Advanced(r, 1) /\ scopes' = scopes
          /\ stack' = Append(Popped(code[r.chunk][r.pc].narg), Integer(1))
      BY <1>1, <2>1, <2>3, <3>1 DEF Halt, MachineInv
    <3>4. regs'.chunk = r.chunk
      BY <1>1, <2>1, <2>3, <3>1, <3>3, EndsEven, RestoresChunk, SMTT(60)
    <3> QED
      BY <2>1, <3>2, <3>3, <3>4, ZenonT(30) DEF Popped
  <2>4. CASE Handle
    <3>1. saved # <<>>
      BY <2>2, <2>4 DEF Handle
    <3>2. /\ mode \in {"error", "fail"} /\ mode' = mode /\ regs' = r
          /\ stack' = SubSeq(caller.stack, 1, Len(caller.stack) - narg)
          /\ scopes' = caller.scopes
      BY <1>1, <2>1, <2>4, <3>1, HandlesNested
    <3>3. code = program
      BY <1>1 DEF MachineInv
    <3> QED
      BY <2>1, <3>2, <3>3
  <2>5. CASE InstrCallResolve
    <3>1. /\ callers' = Append(callers, [stack |-> stack', scopes |-> scopes])
          /\ OnInstr("CALL")
      BY <2>2, <2>5 DEF InstrCallResolve
    <3>2. IsSeq(callers) /\ Len(callers) \in Nat
      BY <1>1, <3>1 DEF OnInstr, MachineInv, Frames, IsSeq
    <3>3. PICK x : callers' = Append(callers, x)
      BY <3>1
    <3>4. Len(Append(callers, x)) = Len(callers) + 1
      BY <3>2, Appended
    <3> QED
      BY <1>1, <3>2, <3>3, <3>4
  <2>6. CASE ~Halt /\ ~Handle /\ ~InstrCallResolve
    <3>1. callers' = callers
      BY <1>1, <2>6, ZenonT(30) DEF MachineNext, InstrPush, InstrPushGlobal, PushChecked,
         InstrPushLocals, InstrPopLocals, InstrPopDiscard, InstrGetLocal, InstrFilter, InstrGetField,
         InstrSetField, InstrSet, InstrCmp, InstrNot, InstrBranch, InstrCall, Raise, Replace
    <3> QED
      BY <2>2, <3>1, SMTT(60)
  <2> QED
    BY <2>3, <2>4, <2>5, <2>6
<1>2. MachineInv /\ [MachineNext]_vars => [Neutral]_vars
  BY <1>1
<1> QED
  BY <1>2, MachineInductive, PTL DEF MachineSpec, NestedCallIsNeutral

-------------------------------------------------------------------------------
(* Types.  GET LOCAL and the status that 'resolve' returns are pushed      *)
(* without growing the stack.  For the second there is room because the    *)
(* method's id has been popped when the nested vm_exec begins.             *)
Typed(r) == r.chunk \in Targets /\ {r.pc, r.ninstr, r.nsize} \subseteq Nat

Room ==
  /\ nalloc \in Nat /\ Len(stack) <= nalloc
  /\ \A k \in 1..Len(callers) : Len(callers[k].stack) < nalloc

ScopesTyped == \A i \in DOMAIN scopes : DOMAIN scopes[i] = Locals

Nested ==
  /\ mode \in {"running", "error", "fail", "done"}
  /\ status \in {"none", "success", "error", "fail"}
  /\ (mode = "done") = (status # "none")
  /\ Len(catch) = Len(saved) + IF mode = "done" THEN 0 ELSE 1
  /\ Len(callers) = Len(saved)

TypeInv == Typed(regs) /\ Room /\ ScopesTyped /\ Nested /\ DOMAIN facts = DOMAIN Store

(* Registers at an instruction have their types. *)
LEMMA AtIsTyped ==
  ASSUME WellFormed(program, heights), NEW c, NEW d, NEW s, NEW r, At(r, c, d, s)
  PROVE  Typed(r)
<1>1. /\ r \in Registers /\ r.chunk \in Targets /\ r.pc \in Nat
      /\ r.ninstr \in Int /\ r.nsize \in Int /\ IsInstr(program[r.chunk], r.pc)
  BY DEF At, Registers
<1>2. IsSeq(program[r.chunk])
  BY <1>1, ChunkIsWellFormed
<1>3. r.pc + 1 \in Nat /\ r.pc + 1 > r.pc
  BY <1>1
<1>4. NInstr(program[r.chunk], r.pc) \in Nat
  BY <1>1, <1>2, <1>3, InstrCounts
<1>5. Len(program[r.chunk]) \in Nat /\ r.pc <= Len(program[r.chunk])
  BY <1>1, <1>2 DEF IsSeq, IsInstr
<1>6. r.ninstr >= NInstr(program[r.chunk], r.pc) /\ r.nsize >= Len(program[r.chunk]) - r.pc + 1
  BY DEF At
<1>7. r.ninstr \in Nat
  BY <1>1, <1>4, <1>6
<1>8. r.nsize \in Nat
  BY <1>1, <1>5, <1>6, SMTT(60)
<1> QED
  BY <1>1, <1>7, <1>8 DEF Typed

(* A step of the running vm_exec keeps the types when the stack fits. *)
LEMMA TypesKept ==
  ASSUME MachineInv, MachineInv', TypeInv, mode = "running",
         mode' = "running" \/ (mode' \in {"error", "fail"} /\ regs' = regs),
         UNCHANGED <<status, catch, saved, callers>>,
         nalloc' \in Nat, nalloc' >= nalloc, Len(stack') <= nalloc',
         ScopesTyped', DOMAIN facts' = DOMAIN facts
  PROVE  TypeInv'
<1>1. Typed(regs')
  <2>1. CASE regs' = regs
    BY <2>1 DEF TypeInv
  <2>2. CASE mode' = "running"
    <3>1. /\ WellFormed(program, heights)
          /\ At(regs', Current', Len(stack'), Len(scopes'))
      BY <2>2, SMTT(60) DEF MachineInv, Running, At
    <3> QED
      BY <3>1, AtIsTyped
  <2> QED
    BY <2>1, <2>2
<1>2. Room'
  <2>1. IsSeq(callers) /\ nalloc \in Nat
    BY DEF MachineInv, Frames, TypeInv, Room
  <2>2. ASSUME NEW k \in 1..Len(callers) PROVE Len(callers[k].stack) < nalloc'
    <3>1. IsSeq(callers[k].stack)
      BY DEF MachineInv, Frames, Caller
    <3>2. Len(callers[k].stack) \in Nat /\ Len(callers[k].stack) < nalloc
      BY <3>1 DEF IsSeq, TypeInv, Room
    <3> QED
      BY <2>1, <3>2
  <2> QED
    BY <2>2 DEF Room
<1>3. Nested'
  BY DEF TypeInv, Nested
<1>4. Typed(regs)'
  BY <1>1 DEF Typed
<1> QED
  BY <1>2, <1>3, <1>4 DEF TypeInv

(* Where only the stack is worked on, that it fits is all there is to see. *)
LEMMA ReplacedFits ==
  ASSUME MachineInv, MachineInv', TypeInv, mode = "running",
         NEW k \in Nat, k <= Pops(Instr), NEW values, IsSeq(values), Replace(k, values),
         nalloc' \in Nat, nalloc' >= nalloc, Len(stack) - k + Len(values) <= nalloc',
         DOMAIN facts' = DOMAIN facts
  PROVE  TypeInv'
<1>1. /\ stack' = Popped(k) \o values
      /\ UNCHANGED <<mode, status, scopes, catch, saved, callers>>
  BY DEF Replace
<1>2. k \in 0..Len(stack) /\ IsSeq(stack)
  <2>1. /\ Current.depth \in Nat /\ Len(stack) \in Nat /\ Pops(Instr) \in Nat
        /\ Current.depth <= Len(stack) - Pops(Instr) /\ IsSeq(stack)
    BY PopsItsOwn DEF MachineInv, Balanced
  <2> QED
    BY <2>1, SMTT(60)
<1>3. Len(stack') = Len(stack) - k + Len(values)
  BY <1>1, <1>2, PopsAndPushes DEF IsReplaced
<1>4. ScopesTyped'
  BY <1>1 DEF TypeInv, ScopesTyped
<1>5. Len(stack') <= nalloc' /\ mode' = "running"
  BY <1>1, <1>3
<1> QED
  BY <1>1, <1>4, <1>5, TypesKept

(* What is left of the stack after an exception is no higher. *)
LEMMA ThrownFits ==
  ASSUME MachineInv, MachineInv', TypeInv, mode = "running", mode' \in {"error", "fail"},
         NEW k \in Nat, k <= Pops(Instr), stack' = Popped(k),
         UNCHANGED <<status, regs, catch, saved, callers>>,
         nalloc' \in Nat, nalloc' >= nalloc, ScopesTyped', DOMAIN facts' = DOMAIN facts
  PROVE  TypeInv'
<1>1. /\ Current.depth \in Nat /\ Len(stack) \in Nat /\ Pops(Instr) \in Nat
      /\ Current.depth <= Len(stack) - Pops(Instr) /\ IsSeq(stack)
  BY PopsItsOwn DEF MachineInv, Balanced
<1>2. Len(stack) - k \in 0..Len(stack)
  BY <1>1, SMTT(60)
<1>3. Len(stack') = Len(stack) - k
  BY <1>1, <1>2, Prefix DEF Popped
<1>4. nalloc \in Nat /\ Len(stack) <= nalloc
  BY DEF TypeInv, Room
<1>5. Len(stack') <= nalloc'
  BY <1>1, <1>2, <1>3, <1>4
<1> QED
  BY <1>5, TypesKept

LEMMA RaisedFits ==
  ASSUME MachineInv, MachineInv', TypeInv, mode = "running",
         NEW k \in Nat, k <= Pops(Instr), Raise(k)
  PROVE  TypeInv'
<1>1. /\ mode' \in {"error", "fail"} /\ stack' = Popped(k)
      /\ UNCHANGED <<status, regs, catch, saved, callers>>
      /\ nalloc' = nalloc /\ scopes' = scopes /\ facts' = facts
  BY DEF Raise
<1>2. nalloc' \in Nat /\ nalloc' >= nalloc /\ ScopesTyped'
  BY <1>1 DEF TypeInv, Room, ScopesTyped
<1> QED
  BY <1>1, <1>2, ThrownFits

(* A stack that is grown for n entries has room for them. *)
LEMMA LongerFits ==
  ASSUME TypeInv, NEW n \in Int, nalloc' = Longer(n)
  PROVE  nalloc' \in Nat /\ nalloc' >= nalloc /\ nalloc' >= n
BY DEF TypeInv, Room, Longer

(* PUSH grows the stack. *)
LEMMA PushTypes ==
  ASSUME MachineInv, MachineInv', TypeInv, InstrPush \/ InstrPushGlobal
  PROVE  TypeInv'
<1>1. PICK val : mode = "running" /\ PushChecked(val)
  BY DEF InstrPush, InstrPushGlobal, OnInstr
<1>2. 0 \in Nat /\ 0 <= Pops(Instr) /\ Len(stack) \in Nat
  BY <1>1, PopsItsOwn
<1>3. CASE Raise(0)
  BY <1>1, <1>2, <1>3, RaisedFits
<1>4. CASE Replace(0, <<val>>) /\ nalloc' = Longer(Len(stack) + 1) /\ UNCHANGED facts
  <2>1. IsSeq(<<val>>) /\ Len(<<val>>) = 1
    BY OneValue
  <2>2. PICK values : values = <<val>>
    OBVIOUS
  <2>3. Len(stack) + 1 \in Int /\ Len(stack) - 0 + Len(values) = Len(stack) + 1
    BY <1>2, <2>1, <2>2
  <2>4. nalloc' \in Nat /\ nalloc' >= nalloc /\ nalloc' >= Len(stack) + 1
    BY <1>4, <2>3, LongerFits
  <2>5. Replace(0, values) /\ IsSeq(values) /\ DOMAIN facts' = DOMAIN facts
        /\ Len(stack) - 0 + Len(values) <= nalloc'
    BY <1>4, <2>1, <2>2, <2>3, <2>4
  <2> QED
    BY <1>1, <1>2, <2>4, <2>5, ReplacedFits
<1> QED
  BY <1>1, <1>3, <1>4 DEF PushChecked

(* GET LOCAL pushes only where there is room; the others push nothing that *)
(* they have not popped before.                                            *)
LEMMA ValueTypes ==
  ASSUME MachineInv, MachineInv', TypeInv, NEW k, Works(k)
  PROVE  TypeInv'
<1>1. /\ mode = "running" /\ k = Pops(Instr) /\ nalloc' = nalloc
      /\ DOMAIN facts' = DOMAIN facts
  BY DEF Works
<1>2. k \in Nat /\ Len(stack) \in Nat /\ k <= Pops(Instr)
  BY <1>1, PopsItsOwn
<1>3. nalloc \in Nat /\ Len(stack) <= nalloc
  BY DEF TypeInv, Room
<1>4. nalloc' \in Nat /\ nalloc' >= nalloc
  BY <1>1, <1>3
<1>5. CASE Replace(k, <<>>)
  <2>1. PICK values : values = <<>>
    OBVIOUS
  <2>2. IsSeq(values) /\ Len(values) = 0 /\ Replace(k, values)
    BY <1>5, <2>1, NoValue
  <2>3. Len(stack) - k + Len(values) <= nalloc'
    BY <1>1, <1>2, <1>3, <2>2
  <2> QED
    BY <1>1, <1>2, <1>4, <2>2, <2>3, ReplacedFits
<1>6. ASSUME NEW val, Replace(k, <<val>>), k > 0 \/ Len(stack) # nalloc PROVE TypeInv'
  <2>1. PICK values : values = <<val>>
    OBVIOUS
  <2>2. IsSeq(values) /\ Len(values) = 1 /\ Replace(k, values)
    BY <1>6, <2>1, OneValue
  <2>3. Len(stack) - k + Len(values) <= nalloc'
    BY <1>1, <1>2, <1>3, <1>6, <2>2
  <2> QED
    BY <1>1, <1>2, <1>4, <2>2, <2>3, ReplacedFits
<1>7. ASSUME NEW r \in Nat, r <= k, Raise(r) PROVE TypeInv'
  BY <1>1, <1>7, RaisedFits
<1> QED
  BY <1>5, <1>6, <1>7 DEF Works

(* PUSH LOCALS adds a scope of all local variables. *)
LEMMA ScopeTypes ==
  ASSUME MachineInv, MachineInv', TypeInv, InstrPushLocals \/ InstrPopLocals
  PROVE  TypeInv'
<1>1. mode = "running" /\ Instr.op \in {"PUSH_LOCALS", "POP_LOCALS"}
  BY DEF InstrPushLocals, InstrPopLocals, OnInstr, Instr
<1>2. /\ IsSeq(scopes) /\ IsSeq(stack) /\ Len(stack) \in Nat /\ Len(scopes) \in Nat
      /\ Pops(Instr) \in Nat /\ Len(stack) - Pops(Instr) \in 0..Len(stack)
  <2>1. /\ IsSeq(scopes) /\ IsSeq(stack) /\ Len(stack) \in Nat /\ Len(scopes) \in Nat
        /\ Pops(Instr) \in Nat /\ Current.depth <= Len(stack) - Pops(Instr)
        /\ Current.depth \in Nat
    BY <1>1, PopsItsOwn, SMTT(60) DEF MachineInv, Balanced
  <2> QED
    BY <2>1, SMTT(60)
<1>3. nalloc \in Nat /\ Len(stack) <= nalloc /\ DOMAIN scopes = 1..Len(scopes)
  BY <1>2 DEF TypeInv, Room, IsSeq
<1>4. CASE InstrPushLocals
  <2>1. \E scope :
          /\ DOMAIN scope = Locals /\ scopes' = Append(scopes, scope)
          /\ UNCHANGED <<status, nalloc, catch, saved, facts, callers>>
          /\ \/ stack' = Popped(2 * Instr.n) /\ mode' = mode
             \/ mode' = "error" /\ UNCHANGED <<stack, regs>>
    <3> DEFINE n == Instr.n
               Id(i) == Top(2 * (i - 1))
               Val(i) == Top(2 * i - 1)
               Given(x) == {i \in 1..n : Id(i).v = x /\ Val(i).type # "nil"}
               Latest(x) == CHOOSE i \in Given(x) : \A j \in Given(x) : j <= i
               scope == [x \in Locals |-> IF Given(x) = {} THEN Unset ELSE Val(Latest(x))]
               empty == [x \in Locals |-> Unset]
    <3>1. DOMAIN scope = Locals /\ DOMAIN empty = Locals
      OBVIOUS
    <3>2. /\ UNCHANGED <<status, nalloc, catch, saved, facts, callers>>
          /\ \/ /\ stack' = Popped(2 * n) /\ scopes' = Append(scopes, scope)
                /\ mode' = mode
             \/ /\ mode' = "error" /\ scopes' = Append(scopes, empty)
                /\ UNCHANGED <<stack, regs>>
      BY <1>4, Zenon DEF InstrPushLocals
    <3> HIDE DEF scope, empty
    <3> QED
      BY <3>1, <3>2, Zenon
  <2>2. PICK scope :
          /\ DOMAIN scope = Locals /\ scopes' = Append(scopes, scope)
          /\ UNCHANGED <<status, nalloc, catch, saved, facts, callers>>
          /\ \/ stack' = Popped(2 * Instr.n) /\ mode' = mode
             \/ mode' = "error" /\ UNCHANGED <<stack, regs>>
    BY <2>1
  <2>3. ScopesTyped'
    <3>1. /\ IsSeq(Append(scopes, scope)) /\ Len(Append(scopes, scope)) = Len(scopes) + 1
          /\ \A i \in 1..Len(scopes) : Append(scopes, scope)[i] = scopes[i]
          /\ Append(scopes, scope)[Len(scopes) + 1] = scope
      BY <1>2, Appended, SMTT(60)
    <3>2. DOMAIN Append(scopes, scope) = 1..(Len(scopes) + 1)
      BY <3>1 DEF IsSeq
    <3>3. ASSUME NEW i \in 1..(Len(scopes) + 1)
          PROVE  DOMAIN Append(scopes, scope)[i] = Locals
      <4>1. CASE i = Len(scopes) + 1
        BY <2>2, <3>1, <4>1
      <4>2. CASE i # Len(scopes) + 1
        <5>1. i \in 1..Len(scopes)
          BY <1>2, <4>2
        <5>2. DOMAIN scopes[i] = Locals
          BY <1>3, <5>1 DEF TypeInv, ScopesTyped
        <5> QED
          BY <3>1, <5>1, <5>2
      <4> QED
        BY <4>1, <4>2
    <3> QED
      BY <2>2, <3>2, <3>3 DEF ScopesTyped
  <2>4. Len(stack') <= nalloc
    <3>1. Pops(Instr) = 2 * Instr.n
      BY <1>4 DEF InstrPushLocals, OnInstr, Instr, Pops
    <3>2. CASE stack' = Popped(2 * Instr.n)
      <4>1. Len(Popped(2 * Instr.n)) = Len(stack) - Pops(Instr)
        BY <1>2, <3>1, Prefix DEF Popped
      <4> QED
        BY <1>2, <1>3, <3>2, <4>1
    <3> QED
      BY <1>3, <2>2, <3>2
  <2>5. nalloc' \in Nat /\ nalloc' >= nalloc /\ Len(stack') <= nalloc'
    BY <1>3, <2>2, <2>4
  <2> QED
    BY <1>1, <2>2, <2>3, <2>5, TypesKept
<1>5. CASE InstrPopLocals
  <2>1. CASE scopes = <<>>
    <3>1. 0 \in Nat /\ 0 <= Pops(Instr) /\ Raise(0)
      BY <1>2, <1>5, <2>1 DEF InstrPopLocals
    <3> QED
      BY <1>1, <3>1, RaisedFits
  <2>2. CASE scopes # <<>>
    <3>1. /\ scopes' = Front(scopes)
          /\ UNCHANGED <<mode, status, stack, nalloc, catch, saved, facts, callers>>
      BY <1>5, <2>2 DEF InstrPopLocals
    <3>2. Len(scopes) > 0
      BY <1>2, <2>2, EmptySeq
    <3>3. /\ IsSeq(Front(scopes)) /\ Len(Front(scopes)) = Len(scopes) - 1
          /\ \A i \in 1..(Len(scopes) - 1) : Front(scopes)[i] = scopes[i]
      BY <1>2, <3>2, FrontAndLast
    <3>4. DOMAIN Front(scopes) = 1..(Len(scopes) - 1)
      BY <3>3 DEF IsSeq
    <3>5. \A i \in 1..(Len(scopes) - 1) : DOMAIN scopes[i] = Locals
      BY <1>2, <1>3 DEF TypeInv, ScopesTyped
    <3>6. ScopesTyped'
      BY <3>1, <3>3, <3>4, <3>5 DEF ScopesTyped
    <3>7. nalloc' \in Nat /\ nalloc' >= nalloc /\ Len(stack') <= nalloc'
      BY <1>3, <3>1
    <3> QED
      BY <1>1, <3>1, <3>6, <3>7, TypesKept
  <2> QED
    BY <2>1, <2>2
<1> QED
  BY <1>4, <1>5

(* BRANCH *)
LEMMA BranchTypes ==
  ASSUME MachineInv, MachineInv', TypeInv, InstrBranch
  PROVE  TypeInv'
<1>1. mode = "running" /\ Instr.op = "BRANCH"
  BY DEF InstrBranch, OnInstr, Instr
<1>2. PICK k : k = IF Instr.when = "always" THEN 0 ELSE 1
  OBVIOUS
<1>3. k = Pops(Instr)
  BY <1>1, <1>2 DEF Pops
<1>4. /\ k \in Nat /\ k <= Pops(Instr) /\ IsSeq(stack) /\ Len(stack) \in Nat
      /\ Len(stack) - k \in 0..Len(stack)
  <2>1. /\ Current.depth \in Nat /\ Len(stack) \in Nat /\ k \in Nat
        /\ Current.depth <= Len(stack) - k /\ IsSeq(stack)
    BY <1>1, <1>3, PopsItsOwn DEF MachineInv, Balanced
  <2> QED
    BY <1>3, <2>1, SMTT(60)
<1>5. \/ Raise(k)
      \/ /\ stack' = Popped(k)
         /\ UNCHANGED <<mode, status, nalloc, scopes, catch, saved, facts, callers>>
  BY <1>2, Zenon DEF InstrBranch
<1>6. CASE Raise(k)
  BY <1>1, <1>4, <1>6, RaisedFits
<1>7. CASE /\ stack' = Popped(k)
           /\ UNCHANGED <<mode, status, nalloc, scopes, catch, saved, facts, callers>>
  <2>1. Len(stack') = Len(stack) - k
    BY <1>4, <1>7, Prefix DEF Popped
  <2>2. nalloc \in Nat /\ Len(stack) <= nalloc
    BY DEF TypeInv, Room
  <2>3. nalloc' \in Nat /\ nalloc' >= nalloc /\ Len(stack') <= nalloc'
    BY <1>4, <1>7, <2>1, <2>2
  <2>4. ScopesTyped'
    BY <1>7 DEF TypeInv, ScopesTyped
  <2> QED
    BY <1>1, <1>7, <2>3, <2>4, TypesKept
<1> QED
  BY <1>5, <1>6, <1>7

(* CALL of a handler grows the stack for what it makes room for itself. *)
LEMMA CallTypes ==
  ASSUME MachineInv, MachineInv', TypeInv, InstrCall
  PROVE  TypeInv'
<1>1. /\ OnInstr("CALL") /\ mode = "running" /\ Instr.narg \in Nat
      /\ Pops(Instr) = Instr.narg + 1 /\ Len(stack) \in Nat
      /\ Callee \in DOMAIN Results
  BY CallFinds DEF InstrCall
<1>2. PICK k, n : k = Instr.narg + 1 /\ n = Len(stack) - 1 + Instr.narg
  OBVIOUS
<1>3. /\ nalloc' = Longer(n) /\ facts' = facts
      /\ \/ Replace(k, <<Results[Callee].value>>)
         \/ /\ Results[Callee].status # "success" /\ mode' = Results[Callee].status
            /\ stack' = Popped(k)
            /\ UNCHANGED <<status, regs, scopes, catch, saved, callers>>
  BY <1>2 DEF InstrCall
<1>4. k \in Nat /\ k <= Pops(Instr) /\ k > 0 /\ n \in Int
  BY <1>1, <1>2
<1>5. nalloc' \in Nat /\ nalloc' >= nalloc
  BY <1>3, <1>4, LongerFits
<1>6. nalloc \in Nat /\ Len(stack) <= nalloc
  BY DEF TypeInv, Room
<1>7. CASE Replace(k, <<Results[Callee].value>>)
  <2>1. PICK values : values = <<Results[Callee].value>>
    OBVIOUS
  <2>2. IsSeq(values) /\ Len(values) = 1 /\ Replace(k, values)
    BY <1>7, <2>1, OneValue
  <2>3. Len(stack) - k + Len(values) <= nalloc'
    BY <1>1, <1>4, <1>5, <1>6, <2>2
  <2> QED
    BY <1>1, <1>3, <1>4, <1>5, <2>2, <2>3, ReplacedFits
<1>8. CASE /\ Results[Callee].status # "success" /\ mode' = Results[Callee].status
           /\ stack' = Popped(k)
           /\ UNCHANGED <<status, regs, scopes, catch, saved, callers>>
  <2>1. mode' \in {"error", "fail"}
    BY <1>1, <1>8, MachineAssumption
  <2>2. ScopesTyped'
    BY <1>8 DEF TypeInv, ScopesTyped
  <2> QED
    BY <1>1, <1>3, <1>4, <1>5, <1>8, <2>1, <2>2, ThrownFits
<1> QED
  BY <1>3, <1>7, <1>8

(* 'resolve' keeps its caller's stack, which has one entry less than before *)
(* the call.                                                                *)
LEMMA ResolveTypes ==
  ASSUME MachineInv, MachineInv', TypeInv, InstrCallResolve
  PROVE  TypeInv'
<1>1. /\ OnInstr("CALL") /\ mode = "running" /\ Instr.narg \in Nat
      /\ Pops(Instr) = Instr.narg + 1 /\ Len(stack) \in Nat
      /\ Len(stack) - Pops(Instr) >= 0 /\ IsSeq(stack)
  BY CallFinds DEF InstrCallResolve, MachineInv, Balanced
<1>2. PICK n : n = Len(stack) - 1 + Instr.narg
  OBVIOUS
<1>3. nalloc' = Longer(n) /\ n \in Int /\ stack' = Popped(1) /\ facts' = facts
      /\ UNCHANGED <<status, scopes>>
  BY <1>1, <1>2 DEF InstrCallResolve
<1>4. nalloc' \in Nat /\ nalloc' >= nalloc
  BY <1>3, LongerFits
<1>5. nalloc \in Nat /\ Len(stack) <= nalloc
  BY DEF TypeInv, Room
<1>6. Len(stack') = Len(stack) - 1 /\ Len(stack') < nalloc'
  <2>1. Len(stack) - 1 \in 0..Len(stack)
    BY <1>1
  <2>2. Len(Popped(1)) = Len(stack) - 1
    BY <1>1, <2>1, Prefix DEF Popped
  <2> QED
    BY <1>1, <1>3, <1>4, <1>5, <2>2
<1>7. ScopesTyped'
  BY <1>3 DEF TypeInv, ScopesTyped
<1>8. CASE ~Resolvable
  <2>1. mode' = "error" /\ UNCHANGED <<regs, catch, saved, callers>>
    BY <1>8 DEF InstrCallResolve
  <2>2. 1 \in Nat /\ 1 <= Pops(Instr)
    BY <1>1
  <2>3. DOMAIN facts' = DOMAIN facts
    BY <1>3
  <2>4. mode' \in {"error", "fail"} /\ UNCHANGED <<status, regs, catch, saved, callers>>
    BY <1>3, <2>1
  <2> QED
    BY <1>1, <1>3, <1>4, <1>7, <2>2, <2>3, <2>4, ThrownFits
<1>9. CASE Resolvable
  <2>1. PICK caller, c :
          /\ caller = [stack |-> stack', scopes |-> scopes] /\ c = Try(Popped(1))
          /\ saved' = Append(saved, regs) /\ catch' = Append(catch, c)
          /\ callers' = Append(callers, caller) /\ mode' = mode
    BY <1>9 DEF InstrCallResolve
  <2>2. IsSeq(saved) /\ IsSeq(callers) /\ IsSeq(catch)
    BY <1>1 DEF MachineInv, Frames, Bases
  <2>3. /\ Len(saved') = Len(saved) + 1 /\ Len(saved) \in Nat
        /\ Len(catch') = Len(catch) + 1 /\ Len(catch) \in Nat
    BY <2>1, <2>2, Appended
  <2>4. /\ Len(callers) \in Nat /\ Len(callers') = Len(callers) + 1
        /\ \A k \in 1..Len(callers) : callers'[k] = callers[k]
        /\ callers'[Len(callers) + 1] = caller
    BY <2>1, <2>2, Appended
  <2>5. Nested'
    BY <1>1, <1>3, <2>1, <2>3, <2>4 DEF TypeInv, Nested
  <2>6. Room'
    <3>1. ASSUME NEW k \in 1..Len(callers') PROVE Len(callers'[k].stack) < nalloc'
      <4>1. CASE k = Len(callers) + 1
        <5>1. callers'[k].stack = stack'
          BY <2>1, <2>4, <4>1
        <5> QED
          BY <1>6, <5>1
      <4>2. CASE k # Len(callers) + 1
        <5>1. k \in 1..Len(callers)
          BY <2>4, <4>2
        <5>2. IsSeq(callers[k].stack)
          BY <1>1, <5>1 DEF MachineInv, Frames, Caller
        <5>3. Len(callers[k].stack) \in Nat /\ Len(callers[k].stack) < nalloc
          BY <5>1, <5>2 DEF IsSeq, TypeInv, Room
        <5>4. callers'[k] = callers[k]
          BY <2>4, <5>1
        <5> QED
          BY <1>4, <1>5, <5>3, <5>4
      <4> QED
        BY <4>1, <4>2
    <3>2. Len(stack') <= nalloc'
      BY <1>1, <1>4, <1>6
    <3> QED
      BY <1>4, <3>1, <3>2 DEF Room
  <2>7. Typed(regs)'
    <3>1. mode' = "running"
      BY <1>1, <2>1
    <3>2. /\ WellFormed(program, heights)
          /\ At(regs', Current', Len(stack'), Len(scopes'))
      BY <3>1, SMTT(60) DEF MachineInv, Running, At
    <3>3. Typed(regs')
      BY <3>2, AtIsTyped
    <3> QED
      BY <3>3 DEF Typed
  <2>8. DOMAIN facts' = DOMAIN Store
    BY <1>3 DEF TypeInv
  <2> QED
    BY <1>7, <2>5, <2>6, <2>7, <2>8 DEF TypeInv
<1> QED
  BY <1>8, <1>9

(* The frames that are left when a nested vm_exec has ended. *)
LEMMA FramesDropped ==
  ASSUME MachineInv, TypeInv, mode # "done", mode' = mode, saved # <<>>,
         UNCHANGED <<status, nalloc, facts>>,
         saved' = Front(saved), callers' = Front(callers), catch' = Front(catch)
  PROVE  /\ Nested' /\ DOMAIN facts' = DOMAIN Store /\ nalloc' \in Nat
         /\ \A k \in 1..Len(callers') : Len(callers'[k].stack) < nalloc'
         /\ Len(Last(callers).stack) \in Nat /\ Len(Last(callers).stack) < nalloc
<1>1. /\ IsSeq(saved) /\ IsSeq(callers) /\ IsSeq(catch)
      /\ Len(callers) = Len(saved) /\ Len(catch) = Len(saved) + 1
  BY DEF MachineInv, Frames, Bases
<1>2. Len(saved) \in Nat /\ Len(saved) > 0
  <2>1. Len(saved) \in Nat
    BY <1>1 DEF IsSeq
  <2> QED
    BY <1>1, <2>1, EmptySeq
<1>3. /\ Len(saved') = Len(saved) - 1 /\ Len(catch') = Len(catch) - 1
      /\ Len(callers') = Len(callers) - 1
      /\ \A k \in 1..(Len(callers) - 1) : callers'[k] = callers[k]
      /\ Last(callers) = callers[Len(callers)]
  BY <1>1, <1>2, FrontAndLast
<1>4. Nested'
  BY <1>1, <1>2, <1>3 DEF TypeInv, Nested
<1>5. /\ nalloc \in Nat
      /\ \A k \in 1..Len(callers) : Len(callers[k].stack) < nalloc
  BY DEF TypeInv, Room
<1>6. \A k \in 1..Len(callers') : Len(callers'[k].stack) < nalloc'
  BY <1>1, <1>2, <1>3, <1>5
<1>7. Len(callers) \in 1..Len(callers)
  BY <1>1, <1>2
<1>8. Len(Last(callers).stack) \in Nat
  BY <1>1, <1>3, <1>7 DEF MachineInv, Frames, Caller, IsSeq
<1> QED
  BY <1>3, <1>4, <1>5, <1>6, <1>7, <1>8 DEF TypeInv

(* HALT: the caller has kept room for the status that is pushed. *)
LEMMA HaltTypes ==
  ASSUME MachineInv, MachineInv', TypeInv, Halt
  PROVE  TypeInv'
<1>1. /\ mode = "running" /\ catch' = Front(catch)
      /\ UNCHANGED <<nalloc, scopes, facts>>
  BY DEF Halt, TryDone
<1>2. ScopesTyped'
  BY <1>1 DEF TypeInv, ScopesTyped
<1>3. CASE saved = <<>>
  <2>1. /\ mode' = "done" /\ status' = "success" /\ UNCHANGED <<regs, stack, saved, callers>>
    BY <1>3 DEF Halt
  <2>2. catch' = <<>>
    BY <2>1 DEF MachineInv, LeavesNothing
  <2>3. Len(catch') = Len(saved') + 0
    BY <1>3, <2>1, <2>2
  <2>4. Nested'
    BY <2>1, <2>3 DEF TypeInv, Nested
  <2>5. Room' /\ Typed(regs)'
    BY <1>1, <2>1 DEF TypeInv, Room, Typed
  <2> QED
    BY <1>1, <1>2, <2>4, <2>5 DEF TypeInv
<1>4. CASE saved # <<>>
  <2>1. PICK n, r, caller : n = Len(saved) /\ r = Last(saved) /\ caller = Last(callers)
    OBVIOUS
  <2> DEFINE narg == program[r.chunk][r.pc].narg
  <2>2. narg \in Nat
    BY <1>1, <1>4, <2>1, InnermostCaller
  <2>3. stack = caller.stack
    BY <1>4, <2>1, HaltsNested
  <2>4. /\ mode' = mode /\ status' = status
        /\ saved' = Front(saved) /\ callers' = Front(callers)
        /\ stack' = Append(Popped(narg), Integer(1))
    BY <1>4, <2>1 DEF Halt, MachineInv
  <2>5. /\ Nested' /\ DOMAIN facts' = DOMAIN Store /\ nalloc' \in Nat
        /\ \A k \in 1..Len(callers') : Len(callers'[k].stack) < nalloc'
        /\ Len(caller.stack) \in Nat /\ Len(caller.stack) < nalloc
    BY <1>1, <1>4, <2>1, <2>4, FramesDropped
  <2> HIDE DEF narg
  <2>6. Len(stack) - narg \in 0..Len(stack)
    <3>1. catch[n].depth \in Nat /\ catch[n].depth <= Len(caller.stack) - narg
      BY <1>1, <1>4, <2>1, InnermostCaller DEF narg
    <3> QED
      BY <2>2, <2>3, <2>5, <3>1, SMTT(60)
  <2>7. IsSeq(Popped(narg)) /\ Len(Popped(narg)) = Len(stack) - narg
    <3>1. IsSeq(stack)
      BY EndsEven
    <3> QED
      BY <2>6, <3>1, Prefix DEF Popped
  <2>8. Len(stack') = Len(stack) - narg + 1
    <3>1. PICK under, x : under = Popped(narg) /\ x = Integer(1)
      OBVIOUS
    <3>2. Len(Append(under, x)) = Len(under) + 1
      BY <2>7, <3>1, Appended
    <3> QED
      BY <2>4, <2>7, <3>1, <3>2
  <2>9. Len(stack') <= nalloc'
    <3>1. nalloc \in Nat /\ nalloc' = nalloc
      BY <1>1 DEF TypeInv, Room
    <3> QED
      BY <2>2, <2>3, <2>5, <2>8, <3>1
  <2>10. Room'
    BY <2>5, <2>9 DEF Room
  <2>11. Typed(regs)'
    <3>1. /\ WellFormed(program, heights)
          /\ At(regs', Current', Len(stack'), Len(scopes'))
      BY <1>1, <2>4, SMTT(60) DEF MachineInv, Running, At
    <3>2. Typed(regs')
      BY <3>1, AtIsTyped
    <3> QED
      BY <3>2 DEF Typed
  <2> QED
    BY <1>2, <2>5, <2>10, <2>11 DEF TypeInv
<1> QED
  BY <1>3, <1>4

(* The handler of VM_TRY only takes away. *)
LEMMA HandleTypes ==
  ASSUME MachineInv, MachineInv', TypeInv, Handle
  PROVE  TypeInv'
<1>1. /\ mode \in {"error", "fail"} /\ catch' = Front(catch) /\ UNCHANGED <<nalloc, facts>>
      /\ Frames /\ Bases /\ Balanced
  BY DEF Handle, TryDone, MachineInv, Frames
<1>2. PICK c : c = Last(catch)
  OBVIOUS
<1>3. /\ c = Current /\ c.depth \in Nat /\ c.scope \in Nat
  <2>1. IsSeq(catch) /\ Len(catch) \in 1..Len(catch)
    BY <1>1 DEF Bases, Frames, IsSeq
  <2> QED
    BY <1>1, <1>2, <2>1 DEF Last, Current, Bases
<1>4. /\ IsSeq(stack) /\ IsSeq(scopes) /\ Len(stack) >= c.depth /\ Len(scopes) >= c.scope
  BY <1>1, <1>3 DEF Balanced
<1>5. ScopesTyped'
  <2>1. /\ IsSeq(ScopesLeft(c)) /\ Len(ScopesLeft(c)) = c.scope
        /\ \A i \in 1..c.scope : ScopesLeft(c)[i] = scopes[i]
    BY <1>3, <1>4, UnwoundScopes
  <2>2. DOMAIN ScopesLeft(c) = 1..c.scope /\ DOMAIN scopes = 1..Len(scopes)
    BY <1>4, <2>1 DEF IsSeq
  <2>3. 1..c.scope \subseteq 1..Len(scopes)
    <3>1. Len(scopes) \in Nat
      BY <1>4 DEF IsSeq
    <3> QED
      BY <1>3, <1>4, <3>1
  <2>4. scopes' = ScopesLeft(c)
    BY <1>2 DEF Handle
  <2>5. \A i \in 1..c.scope : DOMAIN scopes[i] = Locals
    BY <2>2, <2>3 DEF TypeInv, ScopesTyped
  <2> QED
    BY <2>1, <2>2, <2>4, <2>5 DEF ScopesTyped
<1>6. nalloc \in Nat /\ Len(stack) <= nalloc /\ nalloc' = nalloc
  BY <1>1 DEF TypeInv, Room
<1>7. CASE saved = <<>>
  <2>1. /\ mode' = "done" /\ status' = mode /\ UNCHANGED <<regs, saved, callers>>
    BY <1>7 DEF Handle
  <2>2. catch' = <<>> /\ stack' = <<>>
    BY <2>1 DEF MachineInv, LeavesNothing
  <2>3. Len(catch') = Len(saved') + 0 /\ Len(stack') = 0
    BY <1>7, <2>1, <2>2
  <2>4. Nested'
    BY <1>1, <2>1, <2>3 DEF TypeInv, Nested
  <2>5. Room' /\ Typed(regs)'
    BY <1>6, <2>1, <2>3 DEF TypeInv, Room, Typed
  <2> QED
    BY <1>1, <1>5, <2>4, <2>5 DEF TypeInv
<1>8. CASE saved # <<>>
  <2>1. PICK n, r, caller, narg :
          /\ n = Len(saved) /\ r = Last(saved) /\ caller = Last(callers)
          /\ narg = program[Last(saved).chunk][Last(saved).pc].narg
    OBVIOUS
  <2>2. /\ mode' = mode /\ regs' = r /\ saved' = Front(saved) /\ callers' = Front(callers)
        /\ stack' = SubSeq(caller.stack, 1, Len(caller.stack) - narg)
    BY <1>8, <2>1, HandlesNested
  <2>3. /\ IsSeq(caller.stack) /\ narg \in Nat /\ catch[n].depth \in Nat
        /\ catch[n].depth <= Len(caller.stack) - narg
        /\ At(r, catch[n], Len(caller.stack) + 1, Len(caller.scopes))
    BY <1>1, <1>8, <2>1, InnermostCaller
  <2>4. status' = status /\ mode # "done"
    BY <1>1, <1>8 DEF Handle
  <2>5. /\ Nested' /\ DOMAIN facts' = DOMAIN Store /\ nalloc' \in Nat
        /\ \A k \in 1..Len(callers') : Len(callers'[k].stack) < nalloc'
        /\ Len(caller.stack) \in Nat /\ Len(caller.stack) < nalloc
    BY <1>1, <1>8, <2>1, <2>2, <2>4, FramesDropped
  <2>6. Len(stack') <= nalloc'
    <3>1. PICK m : m = Len(caller.stack) - narg
      OBVIOUS
    <3>2. m \in 0..Len(caller.stack)
      BY <2>3, <2>5, <3>1, SMTT(60)
    <3>3. Len(SubSeq(caller.stack, 1, m)) = m
      BY <2>3, <3>2, Prefix
    <3> QED
      BY <1>6, <2>2, <2>5, <3>1, <3>2, <3>3
  <2>7. Room'
    BY <2>5, <2>6 DEF Room
  <2>8. Typed(regs)'
    <3>1. Typed(r)
      BY <2>3, AtIsTyped DEF MachineInv
    <3> QED
      BY <2>2, <3>1 DEF Typed
  <2> QED
    BY <1>5, <2>5, <2>7, <2>8 DEF TypeInv
<1> QED
  BY <1>7, <1>8

(* The machine begins with the types. *)
LEMMA BeginsTyped == ASSUME MachineInit PROVE TypeInv
<1>1. /\ mode = "running" /\ status = "none" /\ regs = Started(Goal) /\ stack = <<>>
      /\ nalloc = StackSize /\ scopes = <<>> /\ saved = <<>> /\ callers = <<>>
      /\ facts = Store /\ Len(catch) = 1
  BY DEF MachineInit, Idle, Try
<1>2. Len(<<>>) = 0 /\ DOMAIN <<>> = {}
  OBVIOUS
<1>3. Typed(regs)
  <2>1. WellFormed(program, heights) /\ At(regs, Current, Len(stack), Len(scopes))
    BY <1>1, BeginsAt, SMTT(60) DEF MachineInv, Running
  <2> QED
    BY <2>1, AtIsTyped
<1>4. Room /\ ScopesTyped /\ Nested
  BY <1>1, <1>2, MachineAssumption DEF Room, ScopesTyped, Nested
<1> QED
  BY <1>1, <1>3, <1>4 DEF TypeInv

(* Every step keeps the types. *)
LEMMA TypeStep ==
  ASSUME MachineInv, TypeInv, [MachineNext]_vars
  PROVE  TypeInv'
<1>1. MachineInv'
  BY MachineStep
<1>2. CASE UNCHANGED vars
  BY <1>2 DEF vars, machine, TypeInv, Typed, Room, ScopesTyped, Nested
<1>3. CASE MachineNext
  BY <1>1, <1>3, PushTypes, ScopeTypes, ValueEffect, ValueTypes, BranchTypes, CallTypes,
     ResolveTypes, HaltTypes, HandleTypes DEF MachineNext
<1> QED
  BY <1>2, <1>3

(* The registers stay natural numbers although BRANCH subtracts nothing    *)
(* from them, the stack stays within what is allocated for it although not *)
(* every push grows it (src/vm-instr.c:109-114,737-760), every scope holds *)
(* every local variable, and VM_TRY, saved contexts and nested vm_execs    *)
(* are paired (src/builtin.c:152-177).                                     *)
THEOREM MachineTypes == MachineSpec => []MachineTypeOK
<1>1. MachineInit => TypeInv
  BY BeginsTyped
<1>2. MachineInv /\ TypeInv /\ [MachineNext]_vars => TypeInv'
  BY TypeStep
<1>3. TypeInv => MachineTypeOK
  BY DEF TypeInv, Typed, Room, ScopesTyped, Nested, MachineTypeOK
<1> QED
  BY <1>1, <1>2, <1>3, MachineInductive, PTL DEF MachineSpec

-------------------------------------------------------------------------------
(* The compiler. *)

-------------------------------------------------------------------------------
(* Pieces of code.                                                         *)

(* The instruction at pc, with the piece c around it and the heights h     *)
(* before every instruction, goes on in c or right behind it.              *)
Fits(c, h, pc) ==
  LET instr == c[pc] IN
  /\ instr.op \in Opcodes \ {"HALT"}
  /\ instr.op = "PUSH_LOCALS" => instr.n \in Nat
  /\ instr.op = "CALL" => instr.narg \in Nat
  /\ instr.op = "BRANCH" => instr.diff \in Nat /\ instr.when \in {"always", "true", "false"}
  /\ h[pc].stack >= Pops(instr) /\ h[pc].scopes >= ScopesBefore(instr)
  /\ \A next \in Successors(c, pc) :
       /\ next > pc /\ next \in 1 .. Len(c) + 1 /\ h[next] = After(instr, h[pc])
       /\ next <= Len(c) => c[next].op # "DATA"
       /\ next <= Len(c) /\ c[next].op = "CALL" => PushesMethod(instr)

Reached(c, pc) == \E q \in 1 .. pc - 1 : c[q].op # "DATA" /\ pc \in Successors(c, q)

(* The piece c turns the heights a into b, when it is entered at its       *)
(* beginning, and is entered nowhere else but at the instructions X.       *)
Piece(c, h, a, b, X) ==
  /\ IsSeq(c) /\ (Len(c) > 0 => c[1].op \notin {"DATA", "CALL"})
  /\ h \in [1 .. Len(c) + 1 -> Height] /\ h[1] = a /\ h[Len(c) + 1] = b
  /\ \A pc \in 1 .. Len(c) : c[pc].op # "DATA" => Fits(c, h, pc)
  /\ \A pc \in 2 .. Len(c) + 1 :
       pc \notin X /\ (pc <= Len(c) => c[pc].op # "DATA") => Reached(c, pc)

(* A piece that leaves k values more than it found, whatever there was.    *)
Higher(a, k) == [stack |-> a.stack + k, scopes |-> a.scopes]

Turns(c, a, b) == \E h : Piece(c, h, a, b, {})

(* The same for a piece into which branches from before may go, to the     *)
(* instruction at x, where the heights are e.                              *)
Opened(c, a, b, x, e) ==
  \E h : /\ Piece(c, h, a, b, {x})
         /\ x \in 1 .. Len(c) + 1 /\ h[x] = e
         /\ x <= Len(c) => c[x].op \notin {"DATA", "CALL"}

Leaves(c, k) == \A a \in Height : Turns(c, a, Higher(a, k))

LeavesOne(c) == Leaves(c, 1)
LeavesNone(c) == Leaves(c, 0)

ExprTrees ==
  INSTANCE Recursion
  WITH Base <- Leafs, Step <- ExprsOf, Body <- ExprCode, Good <- LeavesOne

StatementTrees ==
  INSTANCE Recursion
  WITH Base <- SimpleStatements, Step <- StatementsOf, Body <- StatementCode, Good <- LeavesNone

-------------------------------------------------------------------------------
LEMMA PieceTypes ==
  ASSUME NEW c, NEW h, NEW a, NEW b, NEW X, Piece(c, h, a, b, X)
  PROVE  /\ Len(c) \in Nat /\ a \in Height /\ b \in Height
         /\ \A i \in 1 .. Len(c) + 1 : h[i] \in Height
BY DEF Piece, IsSeq

(* Where an instruction leads to depends on nothing but itself. *)
LEMMA SuccessorsMoved ==
  ASSUME NEW c, NEW C, NEW o \in Nat, NEW pc \in Nat, C[o + pc] = c[pc],
         c[pc].op = "BRANCH" => c[pc].diff \in Nat
  PROVE  /\ \A next \in Successors(c, pc) : o + next \in Successors(C, o + pc)
         /\ \A next \in Successors(C, o + pc) : next - o \in Successors(c, pc)
<1>1. Words(c[pc]) \in {1, 2}
  BY WordsAreFew
<1>2. CASE c[pc].op = "HALT"
  BY <1>2 DEF Successors
<1>3. CASE c[pc].op = "BRANCH"
  BY <1>3 DEF Successors
<1>4. CASE c[pc].op \notin {"HALT", "BRANCH"}
  BY <1>1, <1>4 DEF Successors
<1> QED
  BY <1>2, <1>3, <1>4

(* A piece within a larger one, behind o other words. *)
Within(c, h, o, C, H) ==
  /\ o \in Nat /\ Len(C) \in Nat /\ o + Len(c) <= Len(C)
  /\ \A i \in 1 .. Len(c) : C[o + i] = c[i]
  /\ \A i \in 1 .. Len(c) + 1 : H[o + i] = h[i]
  /\ o + Len(c) < Len(C) => C[o + Len(c) + 1].op \notin {"DATA", "CALL"}

LEMMA Placed ==
  ASSUME NEW c, NEW h, NEW a, NEW b, NEW X, Piece(c, h, a, b, X),
         NEW C, NEW H, NEW o, Within(c, h, o, C, H)
  PROVE  /\ \A i \in 1 .. Len(c) : C[o + i].op # "DATA" => Fits(C, H, o + i)
         /\ \A i \in 2 .. Len(c) + 1 :
              i \notin X /\ (i <= Len(c) => C[o + i].op # "DATA") => Reached(C, o + i)
<1>1. /\ Len(c) \in Nat /\ o \in Nat /\ Len(C) \in Nat /\ o + Len(c) <= Len(C)
      /\ \A i \in 1 .. Len(c) : C[o + i] = c[i]
      /\ \A i \in 1 .. Len(c) + 1 : H[o + i] = h[i]
      /\ o + Len(c) < Len(C) => C[o + Len(c) + 1].op \notin {"DATA", "CALL"}
  BY PieceTypes DEF Within
<1>2. ASSUME NEW i \in 1 .. Len(c), C[o + i].op # "DATA" PROVE Fits(C, H, o + i)
  <2>0. i \in Nat /\ i \in 1 .. Len(c) + 1 /\ C[o + i] = c[i]
    BY <1>1
  <2>1. Fits(c, h, i) /\ C[o + i] = c[i] /\ H[o + i] = h[i] /\ i \in Nat
    BY <1>1, <1>2, <2>0 DEF Piece
  <2>2. ASSUME NEW next \in Successors(C, o + i)
        PROVE  /\ next > o + i /\ next \in 1 .. Len(C) + 1 /\ H[next] = After(C[o + i], H[o + i])
               /\ next <= Len(C) => C[next].op # "DATA"
               /\ next <= Len(C) /\ C[next].op = "CALL" => PushesMethod(C[o + i])
    <3>1. PICK m : m = next - o
      OBVIOUS
    <3>2. m \in Successors(c, i)
      BY <1>1, <2>1, <2>2, <3>1, SuccessorsMoved DEF Fits
    <3>3. /\ m > i /\ m \in 1 .. Len(c) + 1 /\ h[m] = After(c[i], h[i])
          /\ m <= Len(c) => c[m].op # "DATA"
          /\ m <= Len(c) /\ c[m].op = "CALL" => PushesMethod(c[i])
      BY <2>1, <3>2 DEF Fits
    <3>4. next = o + m
      <4>1. next \in Int
        <5>1. Words(c[i]) \in {1, 2}
          BY WordsAreFew
        <5> QED
          BY <1>1, <2>1, <2>2, <5>1 DEF Successors, Fits
      <4> QED
        BY <1>1, <3>1, <4>1
    <3>5. H[next] = h[m]
      BY <1>1, <3>3, <3>4
    <3>6. CASE m <= Len(c)
      <4>1. C[next] = c[m]
        BY <1>1, <3>3, <3>4, <3>6
      <4> QED
        BY <1>1, <2>1, <3>3, <3>4, <3>5, <3>6, <4>1
    <3>7. CASE m = Len(c) + 1
      <4>1. next = o + Len(c) + 1
        BY <1>1, <3>4, <3>7
      <4> QED
        BY <1>1, <2>1, <3>3, <3>4, <3>5, <3>7, <4>1
    <3>8. m <= Len(c) \/ m = Len(c) + 1
      <4>1. m \in 1 .. Len(c) + 1 /\ Len(c) \in Nat
        BY <1>1, <3>3
      <4> QED
        BY <4>1
    <3> QED
      BY <3>6, <3>7, <3>8
  <2> QED
    BY <2>1, <2>2 DEF Fits
<1>3. ASSUME NEW i \in 2 .. Len(c) + 1, i \notin X, i <= Len(c) => C[o + i].op # "DATA"
      PROVE  Reached(C, o + i)
  <2>1. i <= Len(c) => c[i].op # "DATA"
    BY <1>1, <1>3
  <2>2. PICK q \in 1 .. i - 1 : c[q].op # "DATA" /\ i \in Successors(c, q)
    BY <1>3, <2>1 DEF Piece, Reached
  <2>3. q \in Nat /\ q \in 1 .. Len(c) /\ C[o + q] = c[q] /\ o + q \in 1 .. (o + i) - 1
    BY <1>1
  <2>4. Fits(c, h, q)
    BY <2>2, <2>3 DEF Piece
  <2>5. o + i \in Successors(C, o + q)
    BY <1>1, <2>2, <2>3, <2>4, SuccessorsMoved DEF Fits
  <2> QED
    BY <2>2, <2>3, <2>5 DEF Reached
<1> QED
  BY <1>2, <1>3

-------------------------------------------------------------------------------
(* One instruction, followed by its data. *)
LEMMA SingleInstr ==
  ASSUME NEW c, NEW a \in Height, IsSeq(c), Len(c) = Words(c[1]),
         \A i \in 2 .. Len(c) : c[i].op = "DATA",
         c[1].op \in Opcodes \ {"HALT", "CALL", "BRANCH"},
         c[1].op = "PUSH_LOCALS" => c[1].n \in Nat,
         a.stack >= Pops(c[1]), a.scopes >= ScopesBefore(c[1])
  PROVE  Turns(c, a, After(c[1], a))
<1> DEFINE b == After(c[1], a)
           h == [i \in 1 .. Len(c) + 1 |-> IF i = Len(c) + 1 THEN b ELSE a]
<1>1. Len(c) \in {1, 2} /\ Successors(c, 1) = {Len(c) + 1}
  BY WordsAreFew DEF Successors
<1>2. b \in Height
  <2>1. Pops(c[1]) \in Nat /\ Pushes(c[1]) \in Nat
        /\ ScopesBefore(c[1]) \in Nat /\ ScopesAfter(c[1]) \in Nat
    BY DEF Pops, Pushes, ScopesBefore, ScopesAfter, Opcodes
  <2> QED
    BY <2>1 DEF After, Height
<1> HIDE DEF b
<1>3. h \in [1 .. Len(c) + 1 -> Height] /\ h[1] = a /\ h[Len(c) + 1] = b
  BY <1>1, <1>2
<1>4. Fits(c, h, 1)
  <2> HIDE DEF h
  <2> QED
    BY <1>1, <1>3 DEF Fits, b
<1>5. ASSUME NEW pc \in 1 .. Len(c), c[pc].op # "DATA" PROVE Fits(c, h, pc)
  BY <1>1, <1>4, <1>5
<1>6. c[1].op \notin {"DATA", "CALL"}
  BY DEF Opcodes
<1>7. ASSUME NEW pc \in 2 .. Len(c) + 1, pc <= Len(c) => c[pc].op # "DATA" PROVE Reached(c, pc)
  BY <1>1, <1>6, <1>7 DEF Reached
<1>8. Piece(c, h, a, b, {})
  <2> HIDE DEF h
  <2> QED
    BY <1>3, <1>5, <1>6, <1>7 DEF Piece
<1> QED
  BY <1>8 DEF Turns, b

(* PUSH has one word of data, or none. *)
LEMMA PushWords ==
  ASSUME NEW val
  PROVE  /\ IsSeq(Push(val)) /\ Len(Push(val)) \in {1, 2}
         /\ Push(val)[1] = [op |-> "PUSH", val |-> val] /\ Words(Push(val)[1]) = Len(Push(val))
         /\ \A i \in 2 .. Len(Push(val)) : Push(val)[i].op = "DATA"
<1> DEFINE instr == [op |-> "PUSH", val |-> val]
           data == [op |-> "DATA"]
<1>1. \/ Push(val) = <<instr>> \o <<>>
      \/ Push(val) = <<instr>> \o <<data>>
  BY DEF Push, Data, Word
<1>2. Words(instr) = Len(Push(val))
  BY DEF Words
<1> HIDE DEF instr, data
<1>3. /\ IsSeq(<<instr>>) /\ Len(<<instr>>) = 1 /\ <<instr>>[1] = instr
      /\ IsSeq(<<data>>) /\ Len(<<data>>) = 1 /\ <<data>>[1] = data
      /\ IsSeq(<<>>) /\ Len(<<>>) = 0
  BY OneValue, NoValue
<1>4. CASE Push(val) = <<instr>> \o <<>>
  <2>1. /\ IsSeq(<<instr>> \o <<>>) /\ Len(<<instr>> \o <<>>) = 1
        /\ (<<instr>> \o <<>>)[1] = instr
    BY <1>3, Concatenated
  <2> QED
    BY <1>2, <1>4, <2>1 DEF instr
<1>5. CASE Push(val) = <<instr>> \o <<data>>
  <2>1. /\ IsSeq(<<instr>> \o <<data>>) /\ Len(<<instr>> \o <<data>>) = 2
        /\ (<<instr>> \o <<data>>)[1] = instr /\ (<<instr>> \o <<data>>)[1 + 1] = data
    BY <1>3, Concatenated
  <2>2. (<<instr>> \o <<data>>)[2].op = "DATA"
    BY <2>1 DEF data
  <2> QED
    BY <1>2, <1>5, <2>1, <2>2 DEF instr
<1> QED
  BY <1>1, <1>4, <1>5

(* What a piece of one instruction does. *)
LEMMA PushPiece ==
  ASSUME NEW val PROVE Leaves(Push(val), 1)
<1>1. ASSUME NEW a \in Height PROVE Turns(Push(val), a, Higher(a, 1))
  <2> DEFINE c == Push(val)
  <2>1. /\ IsSeq(c) /\ Len(c) = Words(c[1]) /\ c[1] = [op |-> "PUSH", val |-> val]
        /\ \A i \in 2 .. Len(c) : c[i].op = "DATA"
    BY PushWords
  <2>2. c[1].op = "PUSH"
    BY <2>1
  <2> HIDE DEF c
  <2>3. /\ Pops(c[1]) = 0 /\ Pushes(c[1]) = 1 /\ ScopesBefore(c[1]) = 0 /\ ScopesAfter(c[1]) = 0
        /\ c[1].op \in Opcodes \ {"HALT", "CALL", "BRANCH"}
    BY <2>2 DEF Pops, Pushes, ScopesBefore, ScopesAfter, Opcodes
  <2>4. a.stack \in Nat /\ a.scopes \in Nat
    BY DEF Height
  <2>5. After(c[1], a) = Higher(a, 1)
    BY <2>3, <2>4 DEF After, Higher
  <2>6. Turns(c, a, After(c[1], a))
    BY <2>1, <2>2, <2>3, <2>4, SingleInstr
  <2> QED
    BY <2>5, <2>6 DEF c
<1> QED
  BY <1>1 DEF Leaves

(* Every instruction of one word. *)
LEMMA WordPiece ==
  ASSUME NEW instr, NEW a \in Height,
         instr.op \in Opcodes \ {"HALT", "CALL", "BRANCH", "PUSH", "PUSH_GLOBAL"},
         instr.op = "PUSH_LOCALS" => instr.n \in Nat,
         a.stack >= Pops(instr), a.scopes >= ScopesBefore(instr)
  PROVE  Turns(<<instr>>, a, After(instr, a))
<1> DEFINE c == <<instr>>
<1>1. IsSeq(c) /\ Len(c) = 1 /\ c[1] = instr
  BY OneValue
<1>2. Words(instr) = 1
  BY DEF Words
<1> HIDE DEF c
<1>3. Len(c) = Words(c[1]) /\ \A i \in 2 .. Len(c) : c[i].op = "DATA"
  BY <1>1, <1>2
<1>4. Turns(c, a, After(c[1], a))
  BY <1>1, <1>3, SingleInstr
<1> QED
  BY <1>1, <1>4 DEF c

(* PUSH_GLOBAL, with the name as data. *)
LEMMA GlobalPiece ==
  ASSUME NEW name PROVE Leaves(PushGlobal(name), 1)
<1>1. ASSUME NEW a \in Height PROVE Turns(PushGlobal(name), a, Higher(a, 1))
  <2> DEFINE instr == [op |-> "PUSH_GLOBAL", name |-> name]
             data == [op |-> "DATA"]
             c == <<instr>> \o <<data>>
  <2>1. PushGlobal(name) = c
    BY DEF PushGlobal, Data, Word
  <2>2. instr.op = "PUSH_GLOBAL" /\ data.op = "DATA"
    OBVIOUS
  <2> HIDE DEF instr, data
  <2>3. IsSeq(c) /\ Len(c) = 2 /\ c[1] = instr /\ c[2] = data
    <3>1. /\ IsSeq(<<instr>>) /\ Len(<<instr>>) = 1 /\ <<instr>>[1] = instr
          /\ IsSeq(<<data>>) /\ Len(<<data>>) = 1 /\ <<data>>[1] = data
      BY OneValue
    <3>2. IsSeq(c) /\ Len(c) = 1 + 1 /\ c[1] = instr /\ c[1 + 1] = data
      BY <3>1, Concatenated
    <3> QED
      BY <3>2
  <2> HIDE DEF c
  <2>4. /\ Pops(c[1]) = 0 /\ Pushes(c[1]) = 1 /\ ScopesBefore(c[1]) = 0 /\ ScopesAfter(c[1]) = 0
        /\ c[1].op \in Opcodes \ {"HALT", "CALL", "BRANCH"} /\ Words(c[1]) = 2
        /\ c[1].op # "PUSH_LOCALS"
    BY <2>2, <2>3 DEF Pops, Pushes, ScopesBefore, ScopesAfter, Opcodes, Words
  <2>5. a.stack \in Nat /\ a.scopes \in Nat
    BY DEF Height
  <2>6. After(c[1], a) = Higher(a, 1)
    BY <2>4, <2>5 DEF After, Higher
  <2>7. Len(c) = Words(c[1]) /\ \A i \in 2 .. Len(c) : c[i].op = "DATA"
    BY <2>2, <2>3, <2>4
  <2>8. IsSeq(c) /\ a.stack >= Pops(c[1]) /\ a.scopes >= ScopesBefore(c[1])
    BY <2>3, <2>4, <2>5
  <2>9. Turns(c, a, After(c[1], a))
    <3> HIDE DEF Turns, After
    <3> QED
      BY <2>4, <2>7, <2>8, SingleInstr
  <2> QED
    BY <2>1, <2>6, <2>9
<1> QED
  BY <1>1 DEF Leaves

(* The PUSH of a method's id, and the call. *)
LEMMA CallPiece ==
  ASSUME NEW a \in Height, NEW id \in DOMAIN Methods, NEW narg \in Nat, a.stack >= narg
  PROVE  Turns(Push(Integer(id)) \o Call(narg), a,
               [stack |-> a.stack - narg + 1, scopes |-> a.scopes])
<1> DEFINE p == Push(Integer(id))
           call == [op |-> "CALL", narg |-> narg]
           C == p \o <<call>>
           n == Len(p)
           b == [stack |-> a.stack - narg + 1, scopes |-> a.scopes]
           H == [i \in 1 .. n + 2 |-> IF i = n + 2 THEN b
                                      ELSE IF i = n + 1 THEN Higher(a, 1) ELSE a]
<1>1. /\ IsSeq(p) /\ n \in {1, 2} /\ p[1].op = "PUSH" /\ p[1].val.v = id /\ Words(p[1]) = n
      /\ \A i \in 2 .. n : p[i].op = "DATA"
  <2>1. p[1] = [op |-> "PUSH", val |-> Integer(id)]
    BY PushWords
  <2>2. IsSeq(p) /\ n \in {1, 2} /\ Words(p[1]) = n /\ \A i \in 2 .. n : p[i].op = "DATA"
    BY PushWords
  <2>3. Integer(id).v = id
    BY DEF Integer, Value
  <2>4. p[1].op = "PUSH" /\ p[1].val = Integer(id)
    <3> HIDE DEF p
    <3> QED
      BY <2>1
  <2> QED
    BY <2>2, <2>3, <2>4
<1>2. call.op = "CALL" /\ call.narg = narg /\ Call(narg) = <<call>>
  BY DEF Call
<1> HIDE DEF p, call
<1>3. /\ IsSeq(C) /\ Len(C) = n + 1 /\ C[n + 1] = call
      /\ \A i \in 1 .. n : C[i] = p[i]
  <2>1. IsSeq(<<call>>) /\ Len(<<call>>) = 1 /\ <<call>>[1] = call
    BY OneValue
  <2> QED
    BY <1>1, <2>1, Concatenated
<1> HIDE DEF C
<1>4. /\ C[1].op = "PUSH" /\ C[1].val.v = id /\ Words(C[1]) = n
      /\ \A i \in 2 .. n : C[i].op = "DATA"
  BY <1>1, <1>3
<1>5. /\ a.stack \in Nat /\ a.scopes \in Nat /\ b \in Height /\ Higher(a, 1) \in Height
      /\ b.stack = a.stack - narg + 1 /\ b.scopes = a.scopes
      /\ Higher(a, 1).stack = a.stack + 1 /\ Higher(a, 1).scopes = a.scopes
  BY DEF Height, Higher
<1> HIDE DEF b
<1>6. /\ H \in [1 .. Len(C) + 1 -> Height]
      /\ H[1] = a /\ H[n + 1] = Higher(a, 1) /\ H[Len(C) + 1] = b
  BY <1>1, <1>3, <1>5
<1> HIDE DEF H
<1>7. Fits(C, H, 1)
  <2>1. Pops(C[1]) = 0 /\ Pushes(C[1]) = 1 /\ ScopesBefore(C[1]) = 0 /\ ScopesAfter(C[1]) = 0
    BY <1>4 DEF Pops, Pushes, ScopesBefore, ScopesAfter
  <2>2. Successors(C, 1) = {n + 1} /\ After(C[1], a) = Higher(a, 1)
    BY <1>1, <1>4, <1>5, <2>1 DEF Successors, After, Higher
  <2>3. PushesMethod(C[1])
    BY <1>4 DEF PushesMethod
  <2>4. C[n + 1].op # "DATA"
    BY <1>2, <1>3
  <2> QED
    BY <1>1, <1>3, <1>4, <1>5, <1>6, <2>1, <2>2, <2>3, <2>4 DEF Fits, Opcodes
<1>8. Fits(C, H, n + 1)
  <2>1. /\ C[n + 1].op = "CALL" /\ C[n + 1].narg = narg
    BY <1>2, <1>3
  <2>2. /\ Pops(C[n + 1]) = narg + 1 /\ Pushes(C[n + 1]) = 1
        /\ ScopesBefore(C[n + 1]) = 0 /\ ScopesAfter(C[n + 1]) = 0
    BY <2>1 DEF Pops, Pushes, ScopesBefore, ScopesAfter
  <2>3. Successors(C, n + 1) = {n + 2}
    BY <1>1, <2>1 DEF Successors, Words
  <2>4. After(C[n + 1], Higher(a, 1)) = b
    BY <1>5, <2>2 DEF After, b
  <2> QED
    BY <1>1, <1>3, <1>5, <1>6, <2>1, <2>2, <2>3, <2>4 DEF Fits, Opcodes
<1>9. ASSUME NEW pc \in 1 .. Len(C), C[pc].op # "DATA" PROVE Fits(C, H, pc)
  BY <1>1, <1>3, <1>4, <1>7, <1>8, <1>9
<1>10. ASSUME NEW pc \in 2 .. Len(C) + 1, pc <= Len(C) => C[pc].op # "DATA"
       PROVE  Reached(C, pc)
  <2>1. CASE pc = n + 1
    <3>1. pc \in Successors(C, 1) /\ 1 \in 1 .. pc - 1
      BY <1>1, <1>4, <2>1 DEF Successors
    <3> QED
      BY <1>4, <3>1 DEF Reached
  <2>2. CASE pc = n + 2
    <3>1. C[n + 1].op = "CALL"
      BY <1>2, <1>3
    <3>2. pc \in Successors(C, n + 1) /\ n + 1 \in 1 .. pc - 1
      BY <1>1, <2>2, <3>1 DEF Successors, Words
    <3> QED
      BY <3>1, <3>2 DEF Reached
  <2> QED
    BY <1>1, <1>3, <1>4, <1>10, <2>1, <2>2
<1>11. Piece(C, H, a, b, {})
  BY <1>3, <1>4, <1>6, <1>9, <1>10 DEF Piece
<1> QED
  BY <1>2, <1>11 DEF Turns, C, p, b

(* One piece after the other. *)
Follows(c1, c2, h2, a, b, X, H) ==
  /\ Piece(c1 \o c2, H, a, b, {Len(c1) + y : y \in X})
  /\ \A i \in 1 .. Len(c2) + 1 : H[Len(c1) + i] = h2[i]

LEMMA Behind ==
  ASSUME NEW c1, NEW h1, NEW c2, NEW h2, NEW a, NEW m, NEW b, NEW X,
         Piece(c1, h1, a, m, {}), Piece(c2, h2, m, b, X)
  PROVE  \E H : Follows(c1, c2, h2, a, b, X, H)
<1> DEFINE n1 == Len(c1)
           n2 == Len(c2)
           C == c1 \o c2
           H == [i \in 1 .. n1 + n2 + 1 |-> IF i <= n1 THEN h1[i] ELSE h2[i - n1]]
           Y == {n1 + y : y \in X}
<1>3. /\ IsSeq(C) /\ Len(c1) \in Nat /\ Len(c2) \in Nat /\ Len(C) = Len(c1) + Len(c2)
      /\ \A i \in 1 .. Len(c1) : C[i] = c1[i]
      /\ \A i \in 1 .. Len(c2) : C[Len(c1) + i] = c2[i]
  BY Concatenated DEF Piece
<1> HIDE DEF C
<1>4. /\ \A i \in 1 .. n1 + 1 : H[0 + i] = h1[i]
      /\ \A i \in 1 .. n2 + 1 : H[n1 + i] = h2[i]
  <2>1. h1[n1 + 1] = h2[1]
    BY DEF Piece
  <2> QED
    BY <1>3, <2>1
<1>5. H \in [1 .. Len(C) + 1 -> Height] /\ H[1] = a /\ H[Len(C) + 1] = b
  <2>1. ASSUME NEW i \in 1 .. n1 + n2 + 1 PROVE H[i] \in Height
    BY <1>3, PieceTypes
  <2>2. H[1] = a
    BY <1>3, <1>4 DEF Piece
  <2>3. H[n1 + n2 + 1] = b
    BY <1>3, <1>4 DEF Piece
  <2> QED
    BY <1>3, <2>1, <2>2, <2>3
<1> HIDE DEF H
<1>6. n2 > 0 => C[n1 + 1].op \notin {"DATA", "CALL"}
  BY <1>3 DEF Piece
<1>7. /\ \A i \in 1 .. n1 : C[0 + i].op # "DATA" => Fits(C, H, 0 + i)
      /\ \A i \in 2 .. n1 + 1 : (i <= n1 => C[0 + i].op # "DATA") => Reached(C, 0 + i)
  <2>1. Within(c1, h1, 0, C, H)
    BY <1>3, <1>4, <1>6 DEF Within
  <2>2. \A i : i \notin {}
    OBVIOUS
  <2> QED
    BY <2>1, <2>2, Placed
<1>8. /\ \A i \in 1 .. n2 : C[n1 + i].op # "DATA" => Fits(C, H, n1 + i)
      /\ \A i \in 2 .. n2 + 1 :
           i \notin X /\ (i <= n2 => C[n1 + i].op # "DATA") => Reached(C, n1 + i)
  <2>1. Within(c2, h2, n1, C, H)
    BY <1>3, <1>4 DEF Within
  <2> QED
    BY <2>1, Placed
<1>9. ASSUME NEW pc \in 1 .. Len(C), C[pc].op # "DATA" PROVE Fits(C, H, pc)
  <2>1. CASE pc <= n1
    BY <1>3, <1>7, <1>9, <2>1
  <2>2. CASE pc > n1
    <3>1. pc - n1 \in 1 .. n2 /\ n1 + (pc - n1) = pc
      BY <1>3, <2>2
    <3> QED
      BY <1>8, <1>9, <3>1
  <2> QED
    BY <1>3, <2>1, <2>2
<1>10. ASSUME NEW pc \in 2 .. Len(C) + 1, pc \notin Y, pc <= Len(C) => C[pc].op # "DATA"
       PROVE  Reached(C, pc)
  <2>1. CASE pc <= n1 + 1 /\ n1 > 0
    <3>1. pc \in 2 .. n1 + 1 /\ 0 + pc = pc /\ (pc <= n1 => C[0 + pc].op # "DATA")
      BY <1>3, <1>10, <2>1
    <3> QED
      BY <1>7, <3>1
  <2>2. CASE pc > n1 + 1 \/ n1 = 0
    <3>1. /\ pc - n1 \in 2 .. n2 + 1 /\ n1 + (pc - n1) = pc
          /\ pc - n1 <= n2 => C[n1 + (pc - n1)].op # "DATA"
      BY <1>3, <1>10, <2>2
    <3>2. pc - n1 \notin X
      BY <1>10, <3>1
    <3> QED
      BY <1>8, <3>1, <3>2
  <2> QED
    BY <1>3, <2>1, <2>2
<1>11. Len(C) > 0 => C[1].op \notin {"DATA", "CALL"}
  <2>1. CASE n1 > 0
    <3>1. C[1] = c1[1]
      BY <1>3, <2>1
    <3> QED
      BY <2>1, <3>1 DEF Piece
  <2>2. CASE n1 = 0
    BY <1>3, <1>6, <2>2
  <2> QED
    BY <1>3, <2>1, <2>2
<1>12. Piece(C, H, a, b, Y)
  BY <1>3, <1>5, <1>9, <1>10, <1>11 DEF Piece
<1> HIDE DEF Y
<1>13. \E K : /\ Piece(C, K, a, b, Y)
              /\ \A i \in 1 .. n2 + 1 : K[n1 + i] = h2[i]
  BY <1>4, <1>12
<1> QED
  BY <1>13 DEF C, Y, Follows

LEMMA Joined ==
  ASSUME NEW c1, NEW c2, NEW a, NEW m, NEW b, Turns(c1, a, m), Turns(c2, m, b)
  PROVE  Turns(c1 \o c2, a, b)
<1>1. PICK h1 : Piece(c1, h1, a, m, {})
  BY DEF Turns
<1>2. PICK h2 : Piece(c2, h2, m, b, {})
  BY DEF Turns
<1>3. PICK X : X = {}
  OBVIOUS
<1>4. PICK H : Follows(c1, c2, h2, a, b, X, H)
  BY <1>1, <1>2, <1>3, Behind
<1>5. {Len(c1) + y : y \in X} = {}
  BY <1>3
<1> QED
  BY <1>4, <1>5 DEF Turns, Follows

LEMMA JoinedOpened ==
  ASSUME NEW c1, NEW c2, NEW a, NEW m, NEW b, NEW x, NEW e,
         Turns(c1, a, m), Opened(c2, m, b, x, e)
  PROVE  Opened(c1 \o c2, a, b, Len(c1) + x, e)
<1>1. PICK h1 : Piece(c1, h1, a, m, {})
  BY DEF Turns
<1>2. PICK h2 : /\ Piece(c2, h2, m, b, {x})
                /\ x \in 1 .. Len(c2) + 1 /\ h2[x] = e
                /\ x <= Len(c2) => c2[x].op \notin {"DATA", "CALL"}
  BY DEF Opened
<1>3. PICK H : /\ Piece(c1 \o c2, H, a, b, {Len(c1) + x})
               /\ \A i \in 1 .. Len(c2) + 1 : H[Len(c1) + i] = h2[i]
  <2>1. PICK X : X = {x} /\ Piece(c2, h2, m, b, X)
    BY <1>2
  <2>2. PICK H : Follows(c1, c2, h2, a, b, X, H)
    BY <1>1, <1>2, <2>1, Behind
  <2>3. {Len(c1) + y : y \in X} = {Len(c1) + x}
    BY <2>1
  <2> QED
    BY <2>2, <2>3 DEF Follows
<1>5. /\ Len(c1) \in Nat /\ Len(c2) \in Nat /\ Len(c1 \o c2) = Len(c1) + Len(c2)
      /\ \A i \in 1 .. Len(c2) : (c1 \o c2)[Len(c1) + i] = c2[i]
  BY <1>1, <1>2, Concatenated DEF Piece
<1>6. /\ Len(c1) + x \in 1 .. Len(c1 \o c2) + 1 /\ H[Len(c1) + x] = e
      /\ Len(c1) + x <= Len(c1 \o c2) => (c1 \o c2)[Len(c1) + x].op \notin {"DATA", "CALL"}
  <2>1. Len(c1) + x \in 1 .. Len(c1 \o c2) + 1 /\ H[Len(c1) + x] = e
    BY <1>2, <1>3, <1>5
  <2>2. CASE x <= Len(c2)
    BY <1>2, <1>5, <2>1, <2>2
  <2>3. CASE x = Len(c2) + 1
    BY <1>5, <2>1, <2>3
  <2> QED
    BY <1>2, <1>5, <2>1, <2>2, <2>3
<1> QED
  BY <1>3, <1>6 DEF Opened
(* What ends with a piece may be jumped over. *)
LEMMA Closed ==
  ASSUME NEW c, NEW a, NEW b, Turns(c, a, b)
  PROVE  Opened(c, a, b, Len(c) + 1, b)
<1>1. PICK h : Piece(c, h, a, b, {})
  BY DEF Turns
<1>2. Len(c) \in Nat
  BY <1>1, PieceTypes
<1>3. Piece(c, h, a, b, {Len(c) + 1}) /\ h[Len(c) + 1] = b
  BY <1>1 DEF Piece
<1> QED
  BY <1>2, <1>3 DEF Opened

(* A conditional branch into the piece behind it. *)
LEMMA Jump ==
  ASSUME NEW c, NEW a, NEW b, NEW x, Opened(c, a, b, x, a), NEW when \in {"true", "false"}
  PROVE  /\ Turns(Branch(when, x) \o c, Higher(a, 1), b)
         /\ Opened(Branch(when, x) \o c, Higher(a, 1), b, x + 1, a)
<1>1. PICK h : /\ Piece(c, h, a, b, {x})
               /\ x \in 1 .. Len(c) + 1 /\ h[x] = a
               /\ x <= Len(c) => c[x].op \notin {"DATA", "CALL"}
  BY DEF Opened
<1> DEFINE br == [op |-> "BRANCH", when |-> when, diff |-> x]
           C == <<br>> \o c
           n == Len(c)
           H == [i \in 1 .. n + 2 |-> IF i = 1 THEN Higher(a, 1) ELSE h[i - 1]]
<1>2. Branch(when, x) = <<br>> /\ br.op = "BRANCH" /\ br.when = when /\ br.diff = x
  BY DEF Branch
<1> HIDE DEF br
<1>3. /\ IsSeq(C) /\ Len(c) \in Nat /\ Len(C) = Len(c) + 1 /\ C[1] = br
      /\ \A i \in 1 .. Len(c) : C[1 + i] = c[i]
  <2>1. IsSeq(<<br>>) /\ Len(<<br>>) = 1 /\ <<br>>[1] = br
    BY OneValue
  <2> QED
    BY <1>1, <2>1, Concatenated DEF Piece
<1> HIDE DEF C
<1>4. /\ a \in Height /\ a.stack \in Nat /\ a.scopes \in Nat
      /\ Higher(a, 1) \in Height /\ Higher(a, 1).stack = a.stack + 1
      /\ Higher(a, 1).scopes = a.scopes
  <2>1. a \in Height
    BY <1>1, PieceTypes
  <2> QED
    BY <2>1 DEF Height, Higher
<1>5. /\ H[1] = Higher(a, 1)
      /\ \A i \in 1 .. n + 1 : H[1 + i] = h[i]
  BY <1>3
<1>6. H \in [1 .. Len(C) + 1 -> Height] /\ H[Len(C) + 1] = b
  <2>1. ASSUME NEW i \in 1 .. n + 2 PROVE H[i] \in Height
    BY <1>1, <1>3, <1>4, PieceTypes
  <2>2. H[Len(C) + 1] = b
    BY <1>1, <1>3, <1>5 DEF Piece
  <2> QED
    BY <1>3, <2>1, <2>2
<1> HIDE DEF H
<1>7. Within(c, h, 1, C, H)
  BY <1>3, <1>5 DEF Within
<1>8. /\ \A i \in 1 .. n : C[1 + i].op # "DATA" => Fits(C, H, 1 + i)
      /\ \A i \in 2 .. n + 1 :
           i \notin {x} /\ (i <= n => C[1 + i].op # "DATA") => Reached(C, 1 + i)
  BY <1>1, <1>7, Placed
<1>9. /\ C[1].op = "BRANCH" /\ C[1].when = when /\ C[1].diff = x
      /\ Successors(C, 1) = {x + 1, 2}
  <2>1. C[1].op = "BRANCH" /\ C[1].when = when /\ C[1].diff = x
    BY <1>2, <1>3
  <2> QED
    BY <1>1, <2>1 DEF Successors
<1>10. H[2] = a /\ H[x + 1] = a
  BY <1>1, <1>3, <1>5 DEF Piece
<1>11. 2 <= Len(C) => C[2].op \notin {"DATA", "CALL"}
  <2>1. 2 <= Len(C) => C[1 + 1] = c[1] /\ Len(c) > 0
    BY <1>3
  <2> QED
    BY <1>1, <2>1 DEF Piece
<1>12. x + 1 <= Len(C) => C[x + 1].op \notin {"DATA", "CALL"}
  <2>1. x + 1 <= Len(C) => C[1 + x] = c[x] /\ x <= n
    BY <1>1, <1>3
  <2>2. 1 + x = x + 1
    BY <1>1
  <2> QED
    BY <1>1, <2>1, <2>2
<1>13. Fits(C, H, 1)
  <2>1. Pops(C[1]) = 1 /\ Pushes(C[1]) = 0 /\ ScopesBefore(C[1]) = 0 /\ ScopesAfter(C[1]) = 0
    BY <1>9 DEF Pops, Pushes, ScopesBefore, ScopesAfter
  <2>2. After(C[1], Higher(a, 1)) = a
    <3>1. a = [stack |-> a.stack, scopes |-> a.scopes]
      BY <1>4 DEF Height
    <3> QED
      BY <1>4, <2>1, <3>1 DEF After
  <2>3. C[1].op \in Opcodes \ {"HALT"}
    BY <1>9 DEF Opcodes
  <2>4. \A next \in Successors(C, 1) : next > 1 /\ next \in 1 .. Len(C) + 1 /\ H[next] = a
    BY <1>1, <1>3, <1>9, <1>10
  <2>5. \A next \in Successors(C, 1) : next <= Len(C) => C[next].op \notin {"DATA", "CALL"}
    BY <1>9, <1>11, <1>12
  <2>6. H[1].stack >= Pops(C[1]) /\ H[1].scopes >= ScopesBefore(C[1])
    BY <1>4, <1>5, <2>1
  <2> QED
    BY <1>1, <1>5, <1>9, <2>2, <2>3, <2>4, <2>5, <2>6 DEF Fits
<1>14. ASSUME NEW pc \in 1 .. Len(C), C[pc].op # "DATA" PROVE Fits(C, H, pc)
  <2>1. CASE pc = 1
    BY <1>13, <2>1
  <2>2. CASE pc > 1
    <3>1. pc - 1 \in 1 .. n /\ 1 + (pc - 1) = pc
      BY <1>3, <2>2
    <3> QED
      BY <1>8, <1>14, <3>1
  <2> QED
    BY <1>3, <2>1, <2>2
<1>15. ASSUME NEW pc \in 2 .. Len(C) + 1, pc <= Len(C) => C[pc].op # "DATA"
       PROVE  Reached(C, pc)
  <2>1. CASE pc \in {2, x + 1}
    BY <1>9, <2>1 DEF Reached
  <2>2. CASE pc \notin {2, x + 1}
    <3>1. pc - 1 \in 2 .. n + 1 /\ 1 + (pc - 1) = pc /\ pc - 1 \notin {x}
      BY <1>1, <1>3, <2>2
    <3>2. pc - 1 <= n => C[1 + (pc - 1)].op # "DATA"
      BY <1>3, <1>15, <3>1
    <3> QED
      BY <1>8, <3>1, <3>2
  <2> QED
    BY <2>1, <2>2
<1>16. /\ Piece(C, H, Higher(a, 1), b, {}) /\ Piece(C, H, Higher(a, 1), b, {x + 1})
  BY <1>3, <1>5, <1>6, <1>9, <1>14, <1>15 DEF Piece
<1>17. x + 1 \in 1 .. Len(C) + 1
  BY <1>1, <1>3
<1>18. Turns(C, Higher(a, 1), b) /\ Opened(C, Higher(a, 1), b, x + 1, a)
  BY <1>10, <1>12, <1>16, <1>17 DEF Turns, Opened
<1> QED
  BY <1>2, <1>18 DEF C
(* An unconditional branch over a piece that is entered from before. *)
LEMMA Else ==
  ASSUME NEW c, NEW a, NEW b, Turns(c, a, b)
  PROVE  Opened(Branch("always", Len(c) + 1) \o c, b, b, 2, a)
<1>1. PICK h : Piece(c, h, a, b, {})
  BY DEF Turns
<1> DEFINE br == [op |-> "BRANCH", when |-> "always", diff |-> Len(c) + 1]
           C == <<br>> \o c
           n == Len(c)
           H == [i \in 1 .. n + 2 |-> IF i = 1 THEN b ELSE h[i - 1]]
<1>2. /\ Branch("always", Len(c) + 1) = <<br>>
      /\ br.op = "BRANCH" /\ br.when = "always" /\ br.diff = n + 1
  BY DEF Branch
<1> HIDE DEF br
<1>3. /\ IsSeq(C) /\ Len(c) \in Nat /\ Len(C) = Len(c) + 1 /\ C[1] = br
      /\ \A i \in 1 .. Len(c) : C[1 + i] = c[i]
  <2>1. IsSeq(<<br>>) /\ Len(<<br>>) = 1 /\ <<br>>[1] = br
    BY OneValue
  <2> QED
    BY <1>1, <2>1, Concatenated DEF Piece
<1> HIDE DEF C
<1>4. b \in Height /\ b.stack \in Nat /\ b.scopes \in Nat
  <2>1. b \in Height
    BY <1>1, PieceTypes
  <2> QED
    BY <2>1 DEF Height
<1>5. /\ H[1] = b
      /\ \A i \in 1 .. n + 1 : H[1 + i] = h[i]
  BY <1>3
<1>6. H \in [1 .. Len(C) + 1 -> Height] /\ H[Len(C) + 1] = b
  <2>1. ASSUME NEW i \in 1 .. n + 2 PROVE H[i] \in Height
    BY <1>1, <1>3, <1>4, PieceTypes
  <2>2. H[Len(C) + 1] = b
    BY <1>1, <1>3, <1>5 DEF Piece
  <2> QED
    BY <1>3, <2>1, <2>2
<1> HIDE DEF H
<1>7. Within(c, h, 1, C, H)
  BY <1>3, <1>5 DEF Within
<1>8. /\ \A i \in 1 .. n : C[1 + i].op # "DATA" => Fits(C, H, 1 + i)
      /\ \A i \in 2 .. n + 1 : (i <= n => C[1 + i].op # "DATA") => Reached(C, 1 + i)
  <2>1. \A i : i \notin {}
    OBVIOUS
  <2> QED
    BY <1>1, <1>7, <2>1, Placed
<1>9. /\ C[1].op = "BRANCH" /\ C[1].when = "always" /\ C[1].diff = n + 1
      /\ Successors(C, 1) = {n + 2}
  <2>1. C[1].op = "BRANCH" /\ C[1].when = "always" /\ C[1].diff = n + 1
    BY <1>2, <1>3
  <2>2. 1 + (n + 1) = n + 2
    BY <1>3
  <2> QED
    BY <2>1, <2>2 DEF Successors
<1>10. H[2] = a
  BY <1>1, <1>3, <1>5 DEF Piece
<1>11. 2 <= Len(C) => C[2].op \notin {"DATA", "CALL"}
  <2>1. 2 <= Len(C) => C[1 + 1] = c[1] /\ Len(c) > 0
    BY <1>3
  <2> QED
    BY <1>1, <2>1 DEF Piece
<1>12. Fits(C, H, 1)
  <2>1. Pops(C[1]) = 0 /\ Pushes(C[1]) = 0 /\ ScopesBefore(C[1]) = 0 /\ ScopesAfter(C[1]) = 0
    BY <1>9 DEF Pops, Pushes, ScopesBefore, ScopesAfter
  <2>2. After(C[1], b) = b
    <3>1. b = [stack |-> b.stack, scopes |-> b.scopes]
      BY <1>4 DEF Height
    <3> QED
      BY <1>4, <2>1, <3>1 DEF After
  <2>3. C[1].op \in Opcodes \ {"HALT"}
    BY <1>9 DEF Opcodes
  <2>4. \A next \in Successors(C, 1) :
          next > 1 /\ next \in 1 .. Len(C) + 1 /\ H[next] = b /\ ~(next <= Len(C))
    BY <1>3, <1>6, <1>9
  <2>5. H[1].stack >= Pops(C[1]) /\ H[1].scopes >= ScopesBefore(C[1])
    BY <1>4, <1>5, <2>1
  <2> QED
    BY <1>3, <1>5, <1>9, <2>2, <2>3, <2>4, <2>5 DEF Fits
<1>13. ASSUME NEW pc \in 1 .. Len(C), C[pc].op # "DATA" PROVE Fits(C, H, pc)
  <2>1. CASE pc = 1
    BY <1>12, <2>1
  <2>2. CASE pc > 1
    <3>1. pc - 1 \in 1 .. n /\ 1 + (pc - 1) = pc
      BY <1>3, <2>2
    <3> QED
      BY <1>8, <1>13, <3>1
  <2> QED
    BY <1>3, <2>1, <2>2
<1>14. ASSUME NEW pc \in 2 .. Len(C) + 1, pc \notin {2}, pc <= Len(C) => C[pc].op # "DATA"
       PROVE  Reached(C, pc)
  <2>1. pc - 1 \in 2 .. n + 1 /\ 1 + (pc - 1) = pc
    BY <1>3, <1>14
  <2>2. pc - 1 <= n => C[1 + (pc - 1)].op # "DATA"
    BY <1>3, <1>14, <2>1
  <2> QED
    BY <1>8, <2>1, <2>2
<1>15. Piece(C, H, b, b, {2})
  BY <1>3, <1>5, <1>6, <1>9, <1>13, <1>14 DEF Piece
<1>16. 2 \in 1 .. Len(C) + 1
  BY <1>3
<1>17. Opened(C, b, b, 2, a)
  BY <1>10, <1>11, <1>15, <1>16 DEF Opened
<1> QED
  BY <1>2, <1>17 DEF C

-------------------------------------------------------------------------------
(* Code put together.                                                      *)

Associates(r, s, t) == (r \o s) \o t = r \o (s \o t)

LEMMA Reassociated ==
  ASSUME NEW r, NEW s, NEW t, IsSeq(r), IsSeq(s), IsSeq(t)
  PROVE  Associates(r, s, t)
<1>1. /\ IsSeq(r \o s) /\ Len(r) \in Nat /\ Len(s) \in Nat /\ Len(r \o s) = Len(r) + Len(s)
      /\ \A i \in 1 .. Len(r) : (r \o s)[i] = r[i]
      /\ \A i \in 1 .. Len(s) : (r \o s)[Len(r) + i] = s[i]
  BY Concatenated
<1>2. /\ IsSeq(s \o t) /\ Len(t) \in Nat /\ Len(s \o t) = Len(s) + Len(t)
      /\ \A i \in 1 .. Len(s) : (s \o t)[i] = s[i]
      /\ \A i \in 1 .. Len(t) : (s \o t)[Len(s) + i] = t[i]
  BY Concatenated
<1> DEFINE L == (r \o s) \o t
           R == r \o (s \o t)
<1>3. /\ IsSeq(L) /\ Len(L) = Len(r) + Len(s) + Len(t)
      /\ \A i \in 1 .. Len(r) + Len(s) : L[i] = (r \o s)[i]
      /\ \A i \in 1 .. Len(t) : L[Len(r) + Len(s) + i] = t[i]
  BY <1>1, Concatenated
<1>4. /\ IsSeq(R) /\ Len(R) = Len(r) + Len(s) + Len(t)
      /\ \A i \in 1 .. Len(r) : R[i] = r[i]
      /\ \A i \in 1 .. Len(s) + Len(t) : R[Len(r) + i] = (s \o t)[i]
  BY <1>1, <1>2, Concatenated
<1> HIDE DEF L, R
<1>5. ASSUME NEW i \in 1 .. Len(L) PROVE L[i] = R[i]
  <2>1. CASE i <= Len(r)
    BY <1>1, <1>3, <1>4, <2>1
  <2>2. CASE i > Len(r) /\ i <= Len(r) + Len(s)
    <3>1. PICK j \in 1 .. Len(s) : i = Len(r) + j
      <4>1. i - Len(r) \in 1 .. Len(s) /\ i = Len(r) + (i - Len(r))
        BY <1>1, <1>3, <2>2
      <4> QED
        BY <4>1
    <3> QED
      BY <1>1, <1>2, <1>3, <1>4, <2>2, <3>1
  <2>3. CASE i > Len(r) + Len(s)
    <3>1. PICK j \in 1 .. Len(t) : i = Len(r) + Len(s) + j
      <4>1. i - (Len(r) + Len(s)) \in 1 .. Len(t) /\ i = Len(r) + Len(s) + (i - (Len(r) + Len(s)))
        BY <1>1, <1>2, <1>3, <2>3
      <4> QED
        BY <4>1
    <3>2. L[i] = t[j]
      BY <1>3, <3>1
    <3>3. Len(s) + j \in 1 .. Len(s) + Len(t) /\ Len(r) + (Len(s) + j) = i
      BY <1>1, <1>2, <3>1
    <3>4. R[i] = (s \o t)[Len(s) + j]
      BY <1>4, <3>3
    <3> QED
      BY <1>2, <3>1, <3>2, <3>4
  <2> QED
    BY <1>1, <1>3, <2>1, <2>2, <2>3
<1>6. L = R
  BY <1>3, <1>4, <1>5, SameSeq
<1> QED
  BY <1>6 DEF L, R, Associates

(* The same for more; as definitions, they do not lead the prover astray. *)
Four(q, r, s, t) == ((q \o r) \o s) \o t = q \o (r \o (s \o t))

Seven(q, r, s, t, u, v, w) ==
  (((((q \o r) \o s) \o t) \o u) \o v) \o w = q \o (r \o (s \o (t \o (u \o (v \o w)))))

LEMMA FourPieces ==
  ASSUME NEW q, NEW r, NEW s, NEW t, IsSeq(q), IsSeq(r), IsSeq(s), IsSeq(t)
  PROVE  Four(q, r, s, t)
<1>1. IsSeq(q \o r) /\ IsSeq(s \o t)
  BY Concatenated
<1>2. Associates(q \o r, s, t) /\ Associates(q, r, s \o t)
  BY <1>1, Reassociated
<1> QED
  BY <1>2 DEF Associates, Four

LEMMA SevenPieces ==
  ASSUME NEW q, NEW r, NEW s, NEW t, NEW u, NEW v, NEW w,
         IsSeq(q), IsSeq(r), IsSeq(s), IsSeq(t), IsSeq(u), IsSeq(v), IsSeq(w)
  PROVE  Seven(q, r, s, t, u, v, w)
<1> DEFINE a == q \o r
           b == a \o s
           c == b \o t
           d == c \o u
           z == v \o w
           y == u \o z
           x == t \o y
           p == s \o x
<1>1. IsSeq(a) /\ IsSeq(b) /\ IsSeq(c) /\ IsSeq(d)
  BY Concatenated
<1>2. IsSeq(z) /\ IsSeq(y) /\ IsSeq(x) /\ IsSeq(p)
  BY Concatenated
<1>3. /\ Associates(d, v, w) /\ Associates(c, u, z) /\ Associates(b, t, y)
      /\ Associates(a, s, x) /\ Associates(q, r, p)
  <2> HIDE DEF a, b, c, d, x, y, z, p
  <2> QED
    BY <1>1, <1>2, Reassociated
<1> QED
  BY <1>3 DEF Associates, Seven

LEMMA TurnsSeq ==
  ASSUME NEW c, NEW a, NEW b, Turns(c, a, b)
  PROVE  IsSeq(c) /\ Len(c) \in Nat /\ a \in Height /\ b \in Height
BY PieceTypes DEF Turns, Piece

LEMMA BranchSeq ==
  ASSUME NEW when, NEW diff
  PROVE  IsSeq(Branch(when, diff)) /\ Len(Branch(when, diff)) = 1
BY OneValue DEF Branch

(* No code at all. *)
LEMMA NoCode == ASSUME NEW a \in Height PROVE Turns(<<>>, a, a)
<1> DEFINE h == [i \in 1 .. 1 |-> a]
<1>1. IsSeq(<<>>) /\ Len(<<>>) = 0
  BY NoValue
<1>2. Piece(<<>>, h, a, a, {})
  BY <1>1 DEF Piece
<1> QED
  BY <1>2 DEF Turns

LEMMA HigherTypes ==
  ASSUME NEW a \in Height, NEW k \in Nat
  PROVE  /\ Higher(a, k) \in Height /\ Higher(a, k).stack = a.stack + k
         /\ Higher(a, k).scopes = a.scopes /\ a.stack \in Nat /\ a.scopes \in Nat
         /\ Higher(Higher(a, k), 1) = Higher(a, k + 1) /\ Higher(a, 0) = a
<1>1. /\ a.stack \in Nat /\ a.scopes \in Nat
      /\ a = [stack |-> a.stack, scopes |-> a.scopes]
  BY DEF Height
<1> QED
  BY <1>1 DEF Height, Higher

LEMMA CompileIfTurns ==
  ASSUME NEW condition, NEW then, NEW else, NEW hasElse \in BOOLEAN, NEW a \in Height,
         Turns(condition, a, Higher(a, 1)), Turns(then, a, a), Turns(else, a, a)
  PROVE  Turns(CompileIf(condition, then, else, hasElse), a, a)
<1>1. /\ IsSeq(condition) /\ Len(condition) \in Nat /\ IsSeq(then) /\ Len(then) \in Nat
      /\ IsSeq(else) /\ Len(else) \in Nat
  BY TurnsSeq
<1> DEFINE tail == IF hasElse THEN Branch("always", Len(else) + 1) \o else ELSE <<>>
           x == IF hasElse THEN Len(then) + 2 ELSE Len(then) + 1
           br == Branch("false", x)
<1>2. CompileIf(condition, then, else, hasElse) = ((condition \o br) \o then) \o tail
  <2>1. /\ (Len(condition) + 1 + Len(then)) - Len(condition) + 1 = Len(then) + 2
        /\ (Len(condition) + 1 + Len(then)) - Len(condition) = Len(then) + 1
        /\ ((Len(condition) + 1 + Len(then)) + 1 + Len(else)) - (Len(condition) + 1 + Len(then))
             = Len(else) + 1
    BY <1>1
  <2>2. CASE hasElse
    BY <2>1, <2>2 DEF CompileIf
  <2>3. CASE ~hasElse
    BY <2>1, <2>3 DEF CompileIf
  <2> QED
    BY <2>2, <2>3
<1>3. IsSeq(br) /\ Opened(then \o tail, a, a, x, a)
  <2>1. IsSeq(br)
    BY BranchSeq
  <2>2. CASE hasElse
    <3>1. Opened(tail, a, a, 2, a)
      BY <2>2, Else
    <3> HIDE DEF tail
    <3>2. Opened(then \o tail, a, a, Len(then) + 2, a)
      BY <3>1, JoinedOpened
    <3> QED
      BY <2>1, <2>2, <3>2
  <2>3. CASE ~hasElse
    <3>1. Turns(tail, a, a) /\ Len(tail) = 0
      BY <2>3, NoCode, NoValue
    <3> HIDE DEF tail
    <3>2. Turns(then \o tail, a, a)
      BY <3>1, Joined
    <3>3. Len(then \o tail) = Len(then)
      <4>1. IsSeq(tail)
        BY <3>1, TurnsSeq
      <4> QED
        BY <1>1, <3>1, <4>1, Concatenated
    <3>4. Opened(then \o tail, a, a, Len(then \o tail) + 1, a)
      BY <3>2, Closed
    <3> QED
      BY <2>1, <2>3, <3>3, <3>4
  <2> QED
    BY <2>2, <2>3
<1>4. IsSeq(tail) /\ IsSeq(condition \o br)
  <2>1. IsSeq(Branch("always", Len(else) + 1) \o else)
    BY <1>1, BranchSeq, Concatenated
  <2> QED
    BY <1>1, <1>3, <2>1, NoValue, Concatenated
<1> HIDE DEF tail, x
<1>5. Turns(br \o (then \o tail), Higher(a, 1), a)
  BY <1>3, Jump
<1>6. Turns(condition \o (br \o (then \o tail)), a, a)
  BY <1>5, Joined
<1> HIDE DEF br
<1>7. ((condition \o br) \o then) \o tail = condition \o (br \o (then \o tail))
  <2>1. Four(condition, br, then, tail)
    BY <1>1, <1>3, <1>4, FourPieces
  <2> QED
    BY <2>1 DEF Four
<1> QED
  BY <1>2, <1>6, <1>7
(* A value that fits into one word, and its type. *)
LEMMA BitPiece ==
  ASSUME NEW bit \in {0, 1}
  PROVE  Leaves(Push(Integer(bit)), 1) /\ Len(Push(Integer(bit))) = 1
<1>1. Integer(bit).type = "integer" /\ Integer(bit).v = bit
  BY DEF Integer, Value
<1>2. bit \in 0 .. Wide - 1
  BY WideAssumption
<1>3. Push(Integer(bit)) = <<[op |-> "PUSH", val |-> Integer(bit)]>> \o <<>>
  BY <1>1, <1>2 DEF Push
<1> DEFINE p == <<[op |-> "PUSH", val |-> Integer(bit)]>>
<1>4. Len(p \o <<>>) = 1
  <2>1. IsSeq(p) /\ Len(p) = 1
    BY OneValue
  <2> HIDE DEF p
  <2> QED
    BY <2>1, NoValue, Concatenated
<1> QED
  BY <1>3, <1>4, PushPiece

LEMMA CompileBooleanTurns ==
  ASSUME NEW arg1, NEW arg2, NEW when \in {"true", "false"}, NEW otherwise \in {0, 1},
         NEW result \in {0, 1}, NEW a \in Height,
         Turns(arg1, a, Higher(a, 1)), Turns(arg2, a, Higher(a, 1))
  PROVE  Turns(CompileBoolean(arg1, arg2, when, otherwise, result), a, Higher(a, 1))
<1> DEFINE b == Higher(a, 1)
           n == Len(arg2)
           br1 == Branch(when, n + 4)
           br2 == Branch(when, 3)
           p2 == Push(Integer(otherwise))
           br3 == Branch("always", 2)
           p3 == Push(Integer(result))
<1>1. /\ IsSeq(arg1) /\ Len(arg1) \in Nat /\ IsSeq(arg2) /\ n \in Nat /\ b \in Height
  BY TurnsSeq
<1>2. IsSeq(br1) /\ IsSeq(br2) /\ IsSeq(br3)
  BY BranchSeq
<1>3. Turns(p2, a, b) /\ Turns(p3, a, b) /\ Len(p2) = 1 /\ Len(p3) = 1
  BY BitPiece DEF Leaves
<1>4. IsSeq(p2) /\ IsSeq(p3)
  BY <1>3, TurnsSeq
<1>5. CompileBoolean(arg1, arg2, when, otherwise, result)
        = (((((arg1 \o br1) \o arg2) \o br2) \o p2) \o br3) \o p3
  <2>1. /\ (Len(arg1) + Len(arg2) + 3) - Len(arg1) + 1 = n + 4
        /\ (Len(arg1) + Len(arg2) + 3) - (Len(arg1) + Len(arg2) + 1) + 1 = 3
    BY <1>1
  <2> QED
    BY <2>1 DEF CompileBoolean
<1> HIDE DEF b, p2, p3
<1>6. Opened(br3 \o p3, b, b, 2, a)
  <2>1. Len(p3) + 1 = 2
    BY <1>3
  <2> QED
    BY <1>3, <2>1, Else
<1>7. Opened(p2 \o (br3 \o p3), a, b, 3, a)
  <2>1. Len(p2) + 2 = 3
    BY <1>3
  <2> HIDE DEF br3
  <2> QED
    BY <1>3, <1>6, <2>1, JoinedOpened
<1> HIDE DEF br3
<1>8. Opened(br2 \o (p2 \o (br3 \o p3)), b, b, 4, a)
  <2>1. 3 + 1 = 4
    OBVIOUS
  <2> QED
    BY <1>7, <2>1, Jump DEF b
<1> HIDE DEF br2
<1>9. Opened(arg2 \o (br2 \o (p2 \o (br3 \o p3))), a, b, n + 4, a)
  BY <1>8, JoinedOpened DEF b
<1>10. Turns(br1 \o (arg2 \o (br2 \o (p2 \o (br3 \o p3)))), b, b)
  BY <1>9, Jump DEF b
<1> HIDE DEF br1
<1>11. Turns(arg1 \o (br1 \o (arg2 \o (br2 \o (p2 \o (br3 \o p3))))), a, b)
  BY <1>10, Joined DEF b
<1>12. (((((arg1 \o br1) \o arg2) \o br2) \o p2) \o br3) \o p3
         = arg1 \o (br1 \o (arg2 \o (br2 \o (p2 \o (br3 \o p3)))))
  <2>1. Seven(arg1, br1, arg2, br2, p2, br3, p3)
    BY <1>1, <1>2, <1>4, SevenPieces
  <2> QED
    BY <2>1 DEF Seven
<1> QED
  BY <1>5, <1>11, <1>12 DEF b
(* What an instruction of one word does, from its pops and pushes. *)
LEMMA PopPiece ==
  ASSUME NEW instr, NEW a \in Height, NEW p \in Nat, NEW q \in Nat,
         instr.op \in {"GET_LOCAL", "FILTER", "GET_FIELD", "SET_FIELD", "SET", "CMP", "POP_DISCARD"},
         Pops(instr) = p, Pushes(instr) = q
  PROVE  Turns(<<instr>>, Higher(a, p), Higher(a, q))
<1> DEFINE b == Higher(a, p)
<1>1. b \in Height /\ b.stack = a.stack + p /\ b.scopes = a.scopes /\ a.stack \in Nat
      /\ a.scopes \in Nat
  BY HigherTypes
<1>2. /\ instr.op \in Opcodes \ {"HALT", "CALL", "BRANCH", "PUSH", "PUSH_GLOBAL"}
      /\ instr.op # "PUSH_LOCALS" /\ ScopesBefore(instr) = 0 /\ ScopesAfter(instr) = 0
  BY DEF Opcodes, ScopesBefore, ScopesAfter
<1> HIDE DEF b
<1>3. b.stack >= Pops(instr) /\ b.scopes >= ScopesBefore(instr)
  BY <1>1, <1>2
<1>4. Turns(<<instr>>, b, After(instr, b))
  BY <1>1, <1>2, <1>3, WordPiece
<1>5. After(instr, b) = Higher(a, q)
  BY <1>1, <1>2 DEF After, Higher
<1> QED
  BY <1>4, <1>5 DEF b

LEMMA PushValuePiece == ASSUME NEW e PROVE Leaves(PushValue(e), 1)
<1>1. CASE e.kind = "local"
  <2> DEFINE instr == [op |-> "GET_LOCAL", x |-> e.x]
  <2>1. instr.op = "GET_LOCAL" /\ Pops(instr) = 0 /\ Pushes(instr) = 1
    BY DEF Pops, Pushes
  <2>2. PushValue(e) = <<instr>>
    BY <1>1 DEF PushValue, GetLocal
  <2> HIDE DEF instr
  <2>3. ASSUME NEW a \in Height PROVE Turns(<<instr>>, a, Higher(a, 1))
    <3>1. Turns(<<instr>>, Higher(a, 0), Higher(a, 1))
      BY <2>1, PopPiece
    <3> QED
      BY <3>1, HigherTypes
  <2> QED
    BY <2>2, <2>3 DEF Leaves
<1>2. CASE e.kind # "local"
  BY <1>2, PushPiece DEF PushValue
<1> QED
  BY <1>1, <1>2

(* A piece that leaves k values, applied on top of others. *)
LEMMA OnTop ==
  ASSUME NEW c, NEW b, NEW a \in Height, NEW k \in Nat, Turns(b, a, Higher(a, k)), Leaves(c, 1)
  PROVE  Turns(b \o c, a, Higher(a, k + 1))
<1>1. Higher(a, k) \in Height /\ Higher(Higher(a, k), 1) = Higher(a, k + 1)
  BY HigherTypes
<1>2. Turns(c, Higher(a, k), Higher(a, k + 1))
  BY <1>1 DEF Leaves
<1> QED
  BY <1>2, Joined

LEMMA CompileFactsLeaves == ASSUME NEW e PROVE Leaves(CompileFacts(e), 1)
<1>1. ASSUME NEW a \in Height PROVE Turns(CompileFacts(e), a, Higher(a, 1))
  <2> DEFINE g == PushGlobal(e.name)
             p1 == Push(Integer(e.select[1].op))
             p2 == PushValue(e.select[1].value)
             p3 == Push(FieldName)
             instr == [op |-> "FILTER", n |-> 1]
  <2>1. Turns(g, a, Higher(a, 1)) /\ Higher(a, 1) \in Height
    BY GlobalPiece, HigherTypes DEF Leaves
  <2>2. CASE e.select = <<>>
    <3>1. Turns(g \o <<>>, a, Higher(a, 1))
      BY <2>1, NoCode, Joined
    <3> QED
      BY <2>2, <3>1 DEF CompileFacts
  <2>3. CASE e.select # <<>>
    <3> DEFINE b == Higher(a, 1)
    <3>1. Leaves(p1, 1) /\ Leaves(p2, 1) /\ Leaves(p3, 1)
      BY PushPiece, PushValuePiece
    <3>2. instr.op = "FILTER" /\ Pops(instr) = 4 /\ Pushes(instr) = 1
      BY DEF Pops, Pushes
    <3>3. CompileFacts(e) = g \o (((p1 \o p2) \o p3) \o <<instr>>)
      BY <2>3 DEF CompileFacts, Filter
    <3> HIDE DEF g, p1, p2, p3, instr
    <3>4. Turns(p1, b, Higher(b, 1))
      BY <2>1, <3>1 DEF Leaves
    <3>5. Turns((p1 \o p2) \o p3, b, Higher(b, 3))
      <4> HIDE DEF b
      <4>1. b \in Height /\ 1 + 1 = 2 /\ 2 + 1 = 3
        BY <2>1 DEF b
      <4>2. Turns(p1 \o p2, b, Higher(b, 1 + 1))
        BY <3>1, <3>4, <4>1, OnTop
      <4>3. Turns((p1 \o p2) \o p3, b, Higher(b, 2 + 1))
        BY <3>1, <4>1, <4>2, OnTop
      <4> QED
        BY <4>1, <4>3
    <3>6. Higher(b, 3) = Higher(a, 4)
      <4>1. a.stack \in Nat /\ b.stack = a.stack + 1 /\ b.scopes = a.scopes
        BY HigherTypes
      <4> HIDE DEF b
      <4>2. b.stack + 3 = a.stack + 4
        BY <4>1
      <4> QED
        BY <4>1, <4>2 DEF Higher
    <3>7. Turns(<<instr>>, Higher(a, 4), b)
      BY <3>2, PopPiece
    <3>8. Turns(((p1 \o p2) \o p3) \o <<instr>>, b, b)
      BY <3>5, <3>6, <3>7, Joined
    <3>9. Turns(g \o (((p1 \o p2) \o p3) \o <<instr>>), a, b)
      BY <2>1, <3>8, Joined
    <3> QED
      BY <3>3, <3>9
  <2> QED
    BY <2>2, <2>3
<1> QED
  BY <1>1 DEF Leaves

LEMMA CompileVarrefLeaves == ASSUME NEW e PROVE Leaves(CompileVarref(e), 1)
<1>1. ASSUME NEW a \in Height PROVE Turns(CompileVarref(e), a, Higher(a, 1))
  <2> DEFINE f == CompileFacts(e)
             p == Push(FieldName)
             instr == [op |-> "GET_FIELD"]
  <2>1. Turns(f, a, Higher(a, 1)) /\ Higher(a, 1) \in Height
    BY CompileFactsLeaves, HigherTypes DEF Leaves
  <2>2. CASE ~e.field
    <3>1. Turns(f \o <<>>, a, Higher(a, 1))
      BY <2>1, NoCode, Joined
    <3> QED
      BY <2>2, <3>1 DEF CompileVarref
  <2>3. CASE e.field
    <3>1. instr.op = "GET_FIELD" /\ Pops(instr) = 2 /\ Pushes(instr) = 1
      BY DEF Pops, Pushes
    <3>2. CompileVarref(e) = f \o (p \o <<instr>>)
      BY <2>3 DEF CompileVarref, Word
    <3>3. Turns(p, Higher(a, 1), Higher(a, 2))
      <4>1. Turns(p, Higher(a, 1), Higher(Higher(a, 1), 1))
        BY <2>1, PushPiece DEF Leaves
      <4>2. Higher(Higher(a, 1), 1) = Higher(a, 1 + 1)
        BY HigherTypes
      <4> QED
        BY <4>1, <4>2
    <3> HIDE DEF f, p, instr
    <3>4. Turns(<<instr>>, Higher(a, 2), Higher(a, 1))
      BY <3>1, PopPiece
    <3>5. Turns(p \o <<instr>>, Higher(a, 1), Higher(a, 1))
      BY <3>3, <3>4, Joined
    <3>6. Turns(f \o (p \o <<instr>>), a, Higher(a, 1))
      BY <2>1, <3>5, Joined
    <3> QED
      BY <3>2, <3>6
  <2> QED
    BY <2>2, <2>3
<1> QED
  BY <1>1 DEF Leaves

LEMMA CompileAssignLeaves ==
  ASSUME NEW s, Leaves(CompileExpr[s.rvalue], 1) PROVE Leaves(CompileAssign(s), 0)
<1>1. ASSUME NEW a \in Height PROVE Turns(CompileAssign(s), a, a)
  <2> DEFINE r == CompileExpr[s.rvalue]
             f == CompileFacts(s.lvalue)
             p == Push(FieldName)
             set == [op |-> "SET"]
             setField == [op |-> "SET_FIELD"]
  <2>1. Higher(a, 0) = a /\ 1 + 1 = 2 /\ 2 + 1 = 3
    BY HigherTypes
  <2>2. Leaves(f, 1) /\ Leaves(p, 1)
    BY CompileFactsLeaves, PushPiece
  <2>3. /\ set.op = "SET" /\ Pops(set) = 2 /\ Pushes(set) = 0
        /\ setField.op = "SET_FIELD" /\ Pops(setField) = 3 /\ Pushes(setField) = 0
    BY DEF Pops, Pushes
  <2>4. CompileAssign(s) = (r \o f) \o IF s.lvalue.field THEN p \o <<setField>> ELSE <<set>>
    BY DEF CompileAssign, Word
  <2>5. Turns(r, a, Higher(a, 1))
    BY DEF Leaves
  <2> HIDE DEF r, f, p, set, setField
  <2>6. Turns(r \o f, a, Higher(a, 2))
    BY <2>1, <2>2, <2>5, OnTop
  <2>7. CASE ~s.lvalue.field
    <3>1. Turns(<<set>>, Higher(a, 2), a)
      BY <2>1, <2>3, PopPiece
    <3>2. Turns((r \o f) \o <<set>>, a, a)
      BY <2>6, <3>1, Joined
    <3> QED
      BY <2>4, <2>7, <3>2
  <2>8. CASE s.lvalue.field
    <3>1. Turns(<<setField>>, Higher(a, 3), a)
      BY <2>1, <2>3, PopPiece
    <3>2. Turns(p, Higher(a, 2), Higher(a, 3))
      <4>1. Higher(a, 2) \in Height /\ Higher(Higher(a, 2), 1) = Higher(a, 3)
        BY HigherTypes
      <4> QED
        BY <2>2, <4>1 DEF Leaves
    <3>3. Turns(p \o <<setField>>, Higher(a, 2), a)
      BY <3>1, <3>2, Joined
    <3>4. Turns((r \o f) \o (p \o <<setField>>), a, a)
      BY <2>6, <3>3, Joined
    <3> QED
      BY <2>4, <2>8, <3>4
  <2> QED
    BY <2>7, <2>8
<1> QED
  BY <1>1, HigherTypes DEF Leaves
-------------------------------------------------------------------------------
(* Trees one after the other.                                              *)

LEMMA FlattenExists ==
  ASSUME NEW ss, NEW n \in Nat
  PROVE  \E f : f = [i \in 1 .. n |-> IF i = 1 THEN ss[i] ELSE f[i - 1] \o ss[i]]
<1> DEFINE Upto(m, f) == f = [i \in 1 .. m |-> IF i = 1 THEN ss[i] ELSE f[i - 1] \o ss[i]]
           S == {m \in Nat : \E f : Upto(m, f)}
<1>1. 0 \in S
  <2>1. Upto(0, [i \in 1 .. 0 |-> <<>>])
    OBVIOUS
  <2> QED
    BY <2>1
<1>2. ASSUME NEW m \in Nat, m \in S PROVE m + 1 \in S
  <2>1. PICK f : Upto(m, f)
    BY <1>2
  <2> DEFINE next(i) == IF i = 1 THEN ss[i] ELSE f[i - 1] \o ss[i]
             g == [i \in 1 .. m + 1 |-> next(i)]
  <2>2. ASSUME NEW i \in 1 .. m PROVE f[i] = g[i]
    <3>1. f[i] = next(i)
      BY <2>1
    <3>2. g[i] = next(i)
      <4> HIDE DEF next
      <4> QED
        OBVIOUS
    <3> QED
      BY <3>1, <3>2
  <2>3. ASSUME NEW i \in 1 .. m + 1, i # 1 PROVE f[i - 1] = g[i - 1]
    <3>1. i - 1 \in 1 .. m
      BY <2>3
    <3> HIDE DEF g
    <3> QED
      BY <2>2, <3>1
  <2>4. ASSUME NEW i \in 1 .. m + 1
        PROVE  next(i) = IF i = 1 THEN ss[i] ELSE g[i - 1] \o ss[i]
    <3> HIDE DEF g
    <3> QED
      BY <2>3
  <2>5. g = [i \in 1 .. m + 1 |-> IF i = 1 THEN ss[i] ELSE g[i - 1] \o ss[i]]
    <3> HIDE DEF next
    <3> QED
      BY <2>4
  <2>6. Upto(m + 1, g)
    <3> HIDE DEF g
    <3> QED
      BY <2>5
  <2> HIDE DEF Upto, g
  <2> QED
    BY <2>6
<1>3. Nat \subseteq S
  <2> HIDE DEF S
  <2> QED
    BY <1>1, <1>2, ExprTrees!Induction
<1> QED
  BY <1>3

(* Pieces that fit together, from one to the next. *)
LEMMA FlattenTurns ==
  ASSUME NEW ss, NEW g, IsSeq(ss), g[0] \in Height,
         \A i \in 1 .. Len(ss) : Turns(ss[i], g[i - 1], g[i])
  PROVE  Turns(FlattenSeq(ss), g[0], g[Len(ss)])
<1> DEFINE n == Len(ss)
           Upto(f) == f = [i \in 1 .. n |-> IF i = 1 THEN ss[i] ELSE f[i - 1] \o ss[i]]
           flatten == CHOOSE f : Upto(f)
<1>1. n \in Nat
  BY DEF IsSeq
<1>2. CASE n = 0
  <2>1. ss = <<>> /\ FlattenSeq(ss) = ss
    BY <1>2, EmptySeq DEF FlattenSeq
  <2> QED
    BY <1>2, <2>1, NoCode
<1>3. CASE n > 0
  <2>1. Upto(flatten)
    <3>1. \E f : Upto(f)
      BY <1>1, FlattenExists
    <3> QED
      BY <3>1
  <2>2. FlattenSeq(ss) = flatten[n]
    BY <1>3 DEF FlattenSeq
  <2> HIDE DEF flatten
  <2> DEFINE S == {m \in Nat : m + 1 <= n => Turns(flatten[m + 1], g[0], g[m + 1])}
  <2>3. 0 \in S
    <3>1. flatten[1] = ss[1]
      BY <1>1, <1>3, <2>1
    <3> QED
      BY <1>1, <1>3, <3>1
  <2>4. ASSUME NEW m \in Nat, m \in S PROVE m + 1 \in S
    <3>1. CASE ~((m + 1) + 1 <= n)
      BY <3>1
    <3>2. CASE (m + 1) + 1 <= n
      <4>1. (m + 1) + 1 \in 1 .. n /\ ((m + 1) + 1) - 1 = m + 1 /\ (m + 1) + 1 # 1 /\ m + 1 <= n
        BY <1>1, <3>2
      <4>2. flatten[(m + 1) + 1] = flatten[m + 1] \o ss[(m + 1) + 1]
        BY <2>1, <4>1
      <4>3. Turns(flatten[m + 1], g[0], g[m + 1])
        BY <2>4, <4>1
      <4>4. Turns(ss[(m + 1) + 1], g[m + 1], g[(m + 1) + 1])
        BY <4>1
      <4>5. Turns(flatten[(m + 1) + 1], g[0], g[(m + 1) + 1])
        BY <4>2, <4>3, <4>4, Joined
      <4> QED
        BY <4>5
    <3> QED
      BY <3>1, <3>2
  <2>5. Nat \subseteq S
    <3> HIDE DEF S
    <3> QED
      BY <2>3, <2>4, ExprTrees!Induction
  <2>6. n - 1 \in Nat /\ (n - 1) + 1 = n
    BY <1>1, <1>3
  <2>7. Turns(flatten[(n - 1) + 1], g[0], g[(n - 1) + 1])
    BY <2>5, <2>6
  <2> QED
    BY <2>2, <2>6, <2>7
<1> QED
  BY <1>1, <1>2, <1>3
LEMMA FlattenLeaves ==
  ASSUME NEW ss, IsSeq(ss), NEW k \in {0, 1, 2}, \A i \in 1 .. Len(ss) : Leaves(ss[i], k),
         NEW a \in Height
  PROVE  Len(ss) \in Nat /\ Turns(FlattenSeq(ss), a, Higher(a, k * Len(ss)))
<1> DEFINE n == Len(ss)
           g == [i \in 0 .. n |-> Higher(a, k * i)]
<1>1. n \in Nat
  BY DEF IsSeq
<1>2. ASSUME NEW i \in Nat PROVE k * i \in Nat /\ k * (i + 1) = k * i + k
  <2>1. CASE k = 0
    BY <2>1
  <2>2. CASE k = 1
    BY <2>2
  <2>3. CASE k = 2
    BY <2>3
  <2> QED
    BY <2>1, <2>2, <2>3
<1>3. ASSUME NEW i \in Nat
      PROVE  Higher(a, k * i) \in Height /\ Higher(Higher(a, k * i), k) = Higher(a, k * (i + 1))
  <2>1. PICK j \in Nat : j = k * i /\ k * (i + 1) = j + k
    BY <1>2
  <2>2. Higher(a, j) \in Height /\ Higher(a, j).stack = a.stack + j /\ a.stack \in Nat
        /\ Higher(a, j).scopes = a.scopes
    BY HigherTypes
  <2>3. (a.stack + j) + k = a.stack + (j + k)
    BY <2>2
  <2>4. Higher(Higher(a, j), k) = Higher(a, j + k)
    BY <2>2, <2>3 DEF Higher
  <2> QED
    BY <2>1, <2>2, <2>4
<1>4. ASSUME NEW i \in 1 .. n PROVE Turns(ss[i], g[i - 1], g[i])
  <2>1. PICK m \in Nat : m + 1 = i /\ m = i - 1 /\ m \in 0 .. n /\ i \in 0 .. n
    <3>1. i - 1 \in Nat /\ (i - 1) + 1 = i /\ i - 1 \in 0 .. n /\ i \in 0 .. n
      BY <1>1
    <3> QED
      BY <3>1
  <2>2. g[m] = Higher(a, k * m) /\ g[i] = Higher(a, k * (m + 1))
    BY <2>1
  <2>3. Turns(ss[i], Higher(a, k * m), Higher(Higher(a, k * m), k))
    <3>1. Higher(a, k * m) \in Height /\ Leaves(ss[i], k)
      BY <1>3
    <3> QED
      BY <3>1 DEF Leaves
  <2> HIDE DEF g
  <2> QED
    BY <1>3, <2>1, <2>2, <2>3
<1>5. g[0] = a /\ g[n] = Higher(a, k * n)
  <2>1. k * 0 = 0 /\ 0 \in 0 .. n /\ n \in 0 .. n
    BY <1>1, <1>2
  <2>2. g[0] = Higher(a, 0) /\ g[n] = Higher(a, k * n)
    BY <2>1
  <2> QED
    BY <2>2, HigherTypes
<1> HIDE DEF g
<1>6. Turns(FlattenSeq(ss), g[0], g[n])
  BY <1>4, <1>5, FlattenTurns
<1> QED
  BY <1>1, <1>5, <1>6

(* What has the positions of a sequence is one. *)
LEMMA Mapped ==
  ASSUME NEW s, IsSeq(s), NEW m, m = [i \in DOMAIN s |-> m[i]]
  PROVE  IsSeq(m) /\ Len(m) = Len(s) /\ DOMAIN s = 1 .. Len(s)
<1>1. Len(s) \in Nat /\ DOMAIN s = 1 .. Len(s)
  BY DEF IsSeq
<1>2. m \in Seq({m[i] : i \in DOMAIN s})
  BY <1>1
<1>3. Len(m) = Len(s)
  BY <1>1, <1>2
<1> QED
  BY <1>1, <1>2, <1>3 DEF IsSeq

LEMMA EachTurns ==
  ASSUME NEW gen, NEW trees, IsSeq(trees), NEW k \in {0, 1}, NEW a \in Height,
         \A i \in 1 .. Len(trees) : Leaves(gen[trees[i]], k)
  PROVE  Len(trees) \in Nat /\ Turns(Each(gen, trees), a, Higher(a, k * Len(trees)))
<1> DEFINE ss == [i \in DOMAIN trees |-> gen[trees[i]]]
<1>1. /\ IsSeq(ss) /\ Len(ss) = Len(trees)
      /\ \A i \in 1 .. Len(trees) : ss[i] = gen[trees[i]]
  <2>1. ss = [i \in DOMAIN trees |-> ss[i]]
    OBVIOUS
  <2>2. \A i \in DOMAIN trees : ss[i] = gen[trees[i]]
    OBVIOUS
  <2> HIDE DEF ss
  <2> QED
    BY <2>1, <2>2, Mapped
<1>2. Each(gen, trees) = FlattenSeq(ss)
  BY DEF Each
<1> HIDE DEF ss
<1>3. \A i \in 1 .. Len(ss) : Leaves(ss[i], k)
  BY <1>1
<1>4. Len(ss) \in Nat /\ Turns(FlattenSeq(ss), a, Higher(a, k * Len(ss)))
  BY <1>1, <1>3, FlattenLeaves
<1> QED
  BY <1>1, <1>2, <1>4

LEMMA LocalsTurn ==
  ASSUME NEW locals, IsSeq(locals), NEW a \in Height
  PROVE  /\ Len(locals) \in Nat
         /\ Turns(FlattenSeq([i \in DOMAIN locals |-> PushLocal(locals[i])]),
                  a, Higher(a, 2 * Len(locals)))
<1> DEFINE ss == [i \in DOMAIN locals |-> PushLocal(locals[i])]
<1>1. /\ IsSeq(ss) /\ Len(ss) = Len(locals)
      /\ \A i \in 1 .. Len(locals) : ss[i] = PushLocal(locals[i])
  <2>1. ss = [i \in DOMAIN locals |-> ss[i]]
    OBVIOUS
  <2>2. \A i \in DOMAIN locals : ss[i] = PushLocal(locals[i])
    OBVIOUS
  <2> HIDE DEF ss
  <2> QED
    BY <2>1, <2>2, Mapped
<1> HIDE DEF ss
<1>2. ASSUME NEW local PROVE Leaves(PushLocal(local), 2)
  <2>1. ASSUME NEW b \in Height PROVE Turns(PushLocal(local), b, Higher(b, 2))
    <3>1. Turns(PushValue(local.value), b, Higher(b, 1))
      BY PushValuePiece DEF Leaves
    <3>2. Turns(PushValue(local.value) \o Push(Integer(local.x)), b, Higher(b, 1 + 1))
      BY <3>1, PushPiece, OnTop
    <3>3. 1 + 1 = 2
      OBVIOUS
    <3> QED
      BY <3>2, <3>3 DEF PushLocal
  <2> QED
    BY <2>1 DEF Leaves
<1>3. \A i \in 1 .. Len(ss) : Leaves(ss[i], 2)
  BY <1>1, <1>2
<1>4. Len(ss) \in Nat /\ Turns(FlattenSeq(ss), a, Higher(a, 2 * Len(ss)))
  BY <1>1, <1>3, FlattenLeaves
<1> QED
  BY <1>1, <1>4 DEF ss

(* The words around the call with a scope of its own. *)
LEMMA ScopePieces ==
  ASSUME NEW n \in Nat, NEW a \in Height
  PROVE  /\ Turns(PushLocals(n), Higher(a, 2 * n), [stack |-> a.stack, scopes |-> a.scopes + 1])
         /\ Turns(Word("POP_LOCALS"), [stack |-> a.stack, scopes |-> a.scopes + 1], a)
<1> DEFINE open == [op |-> "PUSH_LOCALS", n |-> n]
           close == [op |-> "POP_LOCALS"]
           b == [stack |-> a.stack, scopes |-> a.scopes + 1]
           c == Higher(a, 2 * n)
<1>1. /\ a.stack \in Nat /\ a.scopes \in Nat /\ 2 * n \in Nat
      /\ a = [stack |-> a.stack, scopes |-> a.scopes]
  BY DEF Height
<1>2. /\ b \in Height /\ b.stack = a.stack /\ b.scopes = a.scopes + 1
      /\ c \in Height /\ c.stack = a.stack + 2 * n /\ c.scopes = a.scopes
  BY <1>1 DEF Height, Higher
<1>3. /\ open.op = "PUSH_LOCALS" /\ open.n = n /\ Pops(open) = 2 * n /\ Pushes(open) = 0
      /\ ScopesBefore(open) = 0 /\ ScopesAfter(open) = 1
      /\ open.op \in Opcodes \ {"HALT", "CALL", "BRANCH", "PUSH", "PUSH_GLOBAL"}
  BY DEF Pops, Pushes, ScopesBefore, ScopesAfter, Opcodes
<1>4. /\ close.op = "POP_LOCALS" /\ Pops(close) = 0 /\ Pushes(close) = 0
      /\ ScopesBefore(close) = 1 /\ ScopesAfter(close) = 0
      /\ close.op \in Opcodes \ {"HALT", "CALL", "BRANCH", "PUSH", "PUSH_GLOBAL"}
  BY DEF Pops, Pushes, ScopesBefore, ScopesAfter, Opcodes
<1>5. PushLocals(n) = <<open>> /\ Word("POP_LOCALS") = <<close>>
  BY DEF PushLocals, Word
<1> HIDE DEF open, close, c
<1>6. After(open, c) = b
  <2>1. c.stack - Pops(open) + Pushes(open) = a.stack
        /\ c.scopes - ScopesBefore(open) + ScopesAfter(open) = a.scopes + 1
    BY <1>1, <1>2, <1>3
  <2> QED
    BY <2>1 DEF After
<1> HIDE DEF b
<1>7. After(close, b) = a
  <2>1. b.stack - Pops(close) + Pushes(close) = a.stack
        /\ b.scopes - ScopesBefore(close) + ScopesAfter(close) = a.scopes
    BY <1>1, <1>2, <1>4
  <2> QED
    BY <1>1, <2>1 DEF After
<1>8. Turns(<<open>>, c, b)
  <2>1. c.stack >= Pops(open) /\ c.scopes >= ScopesBefore(open)
    BY <1>1, <1>2, <1>3
  <2>2. Turns(<<open>>, c, After(open, c))
    BY <1>2, <1>3, <2>1, WordPiece
  <2> QED
    BY <1>6, <2>2
<1>9. Turns(<<close>>, b, a)
  <2>1. b.stack >= Pops(close) /\ b.scopes >= ScopesBefore(close) /\ close.op # "PUSH_LOCALS"
    BY <1>1, <1>2, <1>4
  <2>2. Turns(<<close>>, b, After(close, b))
    BY <1>2, <1>4, <2>1, WordPiece
  <2> QED
    BY <1>7, <2>2
<1> QED
  BY <1>5, <1>8, <1>9 DEF b, c

LEMMA CompileCallLeaves ==
  ASSUME NEW e, NEW gen, IsSeq(e.args), IsSeq(e.locals), e.method \in ToSet(Methods),
         \A i \in 1 .. Len(e.args) : Leaves(gen[e.args[i]], 1)
  PROVE  Leaves(CompileCall(e, gen), 1)
<1> DEFINE id == MethodId(e.method)
           n == Len(e.args)
           m == Len(e.locals)
           args == Each(gen, e.args)
           call == Push(Integer(id)) \o Call(n)
           locals == FlattenSeq([i \in DOMAIN e.locals |-> PushLocal(e.locals[i])])
           open == PushLocals(m)
           close == Word("POP_LOCALS")
<1>1. id \in DOMAIN Methods
  BY DEF MethodId, ToSet
<1> HIDE DEF id
<1>2. ASSUME NEW a \in Height PROVE Turns(CompileCall(e, gen), a, Higher(a, 1))
  <2> DEFINE b == Higher(a, n)
  <2>1. n \in Nat /\ Turns(args, a, b)
    <3>1. n \in Nat /\ Turns(args, a, Higher(a, 1 * n))
      BY EachTurns
    <3>2. 1 * n = n
      BY <3>1
    <3> QED
      BY <3>1, <3>2
  <2>2. b \in Height /\ b.stack = a.stack + n /\ b.scopes = a.scopes /\ a.stack \in Nat
        /\ a.scopes \in Nat
    BY <2>1, HigherTypes
  <2> HIDE DEF b
  <2>3. CASE e.locals = <<>>
    <3>1. Turns(call, b, [stack |-> b.stack - n + 1, scopes |-> b.scopes])
      <4>1. b.stack >= n
        BY <2>1, <2>2
      <4> QED
        BY <1>1, <2>1, <2>2, <4>1, CallPiece
    <3>2. [stack |-> b.stack - n + 1, scopes |-> b.scopes] = Higher(a, 1)
      <4>1. b.stack - n + 1 = a.stack + 1
        BY <2>1, <2>2
      <4> QED
        BY <2>2, <4>1 DEF Higher
    <3>3. CompileCall(e, gen) = args \o call
      BY <2>3 DEF CompileCall, id
    <3> HIDE DEF args, call
    <3> QED
      BY <2>1, <3>1, <3>2, <3>3, Joined
  <2>4. CASE e.locals # <<>>
    <3> DEFINE c == [stack |-> b.stack, scopes |-> b.scopes + 1]
               d == [stack |-> a.stack + 1, scopes |-> a.scopes + 1]
    <3>1. m \in Nat /\ Turns(locals, b, Higher(b, 2 * m))
      BY <2>2, LocalsTurn
    <3>2. Turns(open, Higher(b, 2 * m), c)
      BY <2>2, <3>1, ScopePieces
    <3>3. /\ c \in Height /\ c.stack = b.stack /\ c.scopes = b.scopes + 1
      BY <2>2 DEF Height
    <3>4. Turns(call, c, d)
      <4> HIDE DEF c
      <4>1. c.stack >= n
        BY <2>1, <2>2, <3>3
      <4>2. Turns(call, c, [stack |-> c.stack - n + 1, scopes |-> c.scopes])
        BY <1>1, <2>1, <3>3, <4>1, CallPiece
      <4>3. c.stack - n + 1 = a.stack + 1 /\ c.scopes = a.scopes + 1
        BY <2>1, <2>2, <3>3
      <4> QED
        BY <4>2, <4>3
    <3>5. Turns(close, d, Higher(a, 1))
      <4>1. Higher(a, 1) \in Height /\ Higher(a, 1).stack = a.stack + 1
            /\ Higher(a, 1).scopes = a.scopes
        BY HigherTypes
      <4> QED
        BY <4>1, ScopePieces
    <3>6. CompileCall(e, gen) = args \o (((locals \o open) \o call) \o close)
      BY <2>4 DEF CompileCall, id
    <3> HIDE DEF args, call, locals, open, close, c, d
    <3>7. Turns(((locals \o open) \o call) \o close, b, Higher(a, 1))
      <4>1. Turns(locals \o open, b, c)
        BY <3>1, <3>2, Joined
      <4>2. Turns((locals \o open) \o call, b, d)
        BY <3>4, <4>1, Joined
      <4> QED
        BY <3>5, <4>2, Joined
    <3> QED
      BY <2>1, <3>6, <3>7, Joined
  <2> QED
    BY <2>3, <2>4
<1> QED
  BY <1>2 DEF Leaves
-------------------------------------------------------------------------------
(* Expressions of any depth.                                               *)

LEMMA ExprKinds ==
  ASSUME NEW T, NEW e \in ExprsOf(T)
  PROVE  \/ e.kind \in {"const", "local", "fact"}
         \/ e.kind = "relop" /\ e.relop # "!" /\ e.arg1 \in T /\ e.arg2 \in T
         \/ e.kind = "not" /\ e.arg1 \in T
         \/ e.kind \in {"or", "and"} /\ e.arg1 \in T /\ e.arg2 \in T
         \/ e.kind = "call" /\ e \in CallsOf(T)
BY DEF ExprsOf, Leafs, Operands, Varrefs, CallsOf

LEMMA CallParts ==
  ASSUME NEW T, NEW e \in CallsOf(T)
  PROVE  /\ e.kind = "call" /\ e.method \in ToSet(Methods) /\ IsSeq(e.args) /\ IsSeq(e.locals)
         /\ DOMAIN e.args = 1 .. Len(e.args) /\ \A i \in 1 .. Len(e.args) : e.args[i] \in T
<1>1. /\ e.kind = "call" /\ e.method \in ToSet(Methods) /\ e.args \in Seq(T)
      /\ e.locals \in Seq([x : Nat, value : Operands])
  BY DEF CallsOf
<1> QED
  BY <1>1 DEF IsSeq

(* The code of a tree depends on that of its subtrees only. *)
LEMMA EachSame ==
  ASSUME NEW f, NEW g, NEW trees, \A i \in DOMAIN trees : f[trees[i]] = g[trees[i]]
  PROVE  Each(f, trees) = Each(g, trees)
<1>1. [i \in DOMAIN trees |-> f[trees[i]]] = [i \in DOMAIN trees |-> g[trees[i]]]
  OBVIOUS
<1> QED
  BY <1>1 DEF Each

LEMMA ExprCodeLocal ==
  ASSUME NEW T, NEW f, NEW g, \A x \in T : f[x] = g[x], NEW e \in ExprsOf(T)
  PROVE  ExprCode(e, f) = ExprCode(e, g)
<1>1. CASE e.kind \in {"const", "local", "fact"}
  BY <1>1 DEF ExprCode
<1>2. CASE e.kind \in {"relop", "not", "or", "and"}
  BY <1>2, ExprKinds DEF ExprCode
<1>3. CASE e.kind = "call"
  <2>1. e \in CallsOf(T)
    BY <1>3, ExprKinds
  <2>2. Each(f, e.args) = Each(g, e.args)
    BY <2>1, CallParts, EachSame
  <2>3. CompileCall(e, f) = CompileCall(e, g)
    BY <2>2 DEF CompileCall
  <2> QED
    BY <1>3, <2>3 DEF ExprCode
<1> QED
  BY <1>1, <1>2, <1>3, ExprKinds

LEMMA ExprHypotheses ==
  /\ \A T, U : T \subseteq U => ExprsOf(T) \subseteq ExprsOf(U)
  /\ \A T : Leafs \subseteq ExprsOf(T)
  /\ \A e \in Leafs : \A f, g : ExprCode(e, f) = ExprCode(e, g)
  /\ \A T, f, g :
       (\A x \in T : f[x] = g[x]) => \A e \in ExprsOf(T) : ExprCode(e, f) = ExprCode(e, g)
<1>1. ASSUME NEW T, NEW U, T \subseteq U PROVE ExprsOf(T) \subseteq ExprsOf(U)
  <2>1. Seq(T) \subseteq Seq(U)
    BY <1>1
  <2> HIDE DEF Leafs
  <2>2. CallsOf(T) \subseteq CallsOf(U)
    BY <2>1 DEF CallsOf
  <2> QED
    BY <1>1, <2>2 DEF ExprsOf
<1>2. ASSUME NEW T PROVE Leafs \subseteq ExprsOf(T)
  BY DEF ExprsOf
<1>3. ASSUME NEW e \in Leafs, NEW f, NEW g PROVE ExprCode(e, f) = ExprCode(e, g)
  <2>1. e \in ExprsOf({})
    BY <1>2
  <2> QED
    BY <2>1, ExprCodeLocal
<1>4. ASSUME NEW T, NEW f, NEW g, \A x \in T : f[x] = g[x], NEW e \in ExprsOf(T)
      PROVE  ExprCode(e, f) = ExprCode(e, g)
  BY <1>4, ExprCodeLocal
<1> QED
  BY <1>1, <1>2, <1>3, <1>4

(* What the recursive definitions define. *)
LEMMA ExprsAreLevels == ExprTrees!IsLevels(Exprs, Nat)
BY ExprTrees!LevelsExist DEF Exprs, ExprTrees!IsLevels

LEMMA CompileExprIs == CompileExpr = [e \in Expressions |-> ExprCode(e, CompileExpr)]
<1>1. \E f : f = [e \in Expressions |-> ExprCode(e, f)]
  BY ExprHypotheses, ExprsAreLevels, ExprTrees!BodyExists, NestingAssumption DEF Expressions
<1> QED
  BY <1>1 DEF CompileExpr

LEMMA ExprCodeLeaves ==
  ASSUME NEW T, NEW f, \A x \in T : LeavesOne(f[x]), NEW e \in ExprsOf(T)
  PROVE  LeavesOne(ExprCode(e, f))
<1>1. CASE e.kind \in {"const", "local"}
  BY <1>1, PushValuePiece DEF ExprCode, LeavesOne
<1>2. CASE e.kind = "fact"
  BY <1>2, CompileVarrefLeaves DEF ExprCode, LeavesOne
<1>3. CASE e.kind = "relop"
  <2> DEFINE c1 == f[e.arg1]
             c2 == f[e.arg2]
             instr == [op |-> "CMP", relop |-> e.relop]
  <2>1. Leaves(c1, 1) /\ Leaves(c2, 1) /\ e.relop # "!"
    BY <1>3, ExprKinds DEF LeavesOne
  <2>2. ExprCode(e, f) = (c2 \o c1) \o <<instr>>
    BY <1>3 DEF ExprCode, Cmp
  <2>3. instr.op = "CMP" /\ Pops(instr) = 2 /\ Pushes(instr) = 1
    BY <2>1 DEF Pops, Pushes
  <2> HIDE DEF c1, c2, instr
  <2>4. ASSUME NEW a \in Height PROVE Turns((c2 \o c1) \o <<instr>>, a, Higher(a, 1))
    <3>1. Turns(c2, a, Higher(a, 1))
      BY <2>1 DEF Leaves
    <3>2. Turns(c2 \o c1, a, Higher(a, 1 + 1))
      BY <2>1, <3>1, OnTop
    <3>3. Turns(<<instr>>, Higher(a, 2), Higher(a, 1))
      BY <2>3, PopPiece
    <3>4. 1 + 1 = 2
      OBVIOUS
    <3> QED
      BY <3>2, <3>3, <3>4, Joined
  <2> QED
    BY <2>2, <2>4 DEF Leaves, LeavesOne
<1>4. CASE e.kind = "not"
  <2> DEFINE c1 == f[e.arg1]
             instr == [op |-> "CMP", relop |-> "!"]
  <2>1. Leaves(c1, 1)
    BY <1>4, ExprKinds DEF LeavesOne
  <2>2. ExprCode(e, f) = c1 \o <<instr>>
    BY <1>4 DEF ExprCode, Cmp
  <2>3. instr.op = "CMP" /\ Pops(instr) = 1 /\ Pushes(instr) = 1
    BY DEF Pops, Pushes
  <2> HIDE DEF c1, instr
  <2>4. ASSUME NEW a \in Height PROVE Turns(c1 \o <<instr>>, a, Higher(a, 1))
    <3>1. Turns(c1, a, Higher(a, 1))
      BY <2>1 DEF Leaves
    <3>2. Turns(<<instr>>, Higher(a, 1), Higher(a, 1))
      BY <2>3, PopPiece
    <3> QED
      BY <3>1, <3>2, Joined
  <2> QED
    BY <2>2, <2>4 DEF Leaves, LeavesOne
<1>5. CASE e.kind \in {"or", "and"}
  <2>1. Leaves(f[e.arg1], 1) /\ Leaves(f[e.arg2], 1)
    BY <1>5, ExprKinds DEF LeavesOne
  <2>2. \E when \in {"true", "false"}, otherwise \in {0, 1}, result \in {0, 1} :
          ExprCode(e, f) = CompileBoolean(f[e.arg1], f[e.arg2], when, otherwise, result)
    BY <1>5 DEF ExprCode
  <2>3. PICK when \in {"true", "false"}, otherwise \in {0, 1}, result \in {0, 1} :
          ExprCode(e, f) = CompileBoolean(f[e.arg1], f[e.arg2], when, otherwise, result)
    BY <2>2
  <2>4. ASSUME NEW a \in Height PROVE Turns(ExprCode(e, f), a, Higher(a, 1))
    BY <2>1, <2>3, CompileBooleanTurns DEF Leaves
  <2> QED
    BY <2>4 DEF Leaves, LeavesOne
<1>6. CASE e.kind = "call"
  <2>1. e \in CallsOf(T)
    BY <1>6, ExprKinds
  <2>2. \A i \in 1 .. Len(e.args) : Leaves(f[e.args[i]], 1)
    BY <2>1, CallParts DEF LeavesOne
  <2>3. IsSeq(e.args) /\ IsSeq(e.locals) /\ e.method \in ToSet(Methods)
    BY <2>1, CallParts
  <2>4. Leaves(CompileCall(e, f), 1)
    BY <2>2, <2>3, CompileCallLeaves
  <2> QED
    BY <1>6, <2>4 DEF ExprCode, LeavesOne
<1> QED
  BY <1>1, <1>2, <1>3, <1>4, <1>5, <1>6, ExprKinds

(* Every expression leaves its value. *)
LEMMA ExprsLeaveOne == ASSUME NEW e \in Expressions PROVE Leaves(CompileExpr[e], 1)
<1>1. \A T : (\A x \in T : LeavesOne(CompileExpr[x]))
               => \A x \in ExprsOf(T) : LeavesOne(ExprCode(x, CompileExpr))
  BY ExprCodeLeaves
<1>2. \A x \in Expressions : LeavesOne(CompileExpr[x])
  BY <1>1, CompileExprIs, ExprHypotheses, ExprsAreLevels, ExprTrees!BodyGood, NestingAssumption
     DEF Expressions
<1> QED
  BY <1>2 DEF LeavesOne
-------------------------------------------------------------------------------
(* Statements of any depth.                                                *)

LEMMA StatementKinds ==
  ASSUME NEW T, NEW s \in StatementsOf(T)
  PROVE  \/ s.kind = "call" /\ s \in CallsOf(Expressions)
         \/ s.kind = "assign" /\ s.rvalue \in Expressions
         \/ /\ s.kind = "if" /\ s.condition \in Expressions
            /\ s.then \in Seq(T) /\ s.else \in Seq(T)
BY DEF StatementsOf, SimpleStatements, CallsOf

LEMMA StatementCodeLocal ==
  ASSUME NEW T, NEW f, NEW g, \A x \in T : f[x] = g[x], NEW s \in StatementsOf(T)
  PROVE  StatementCode(s, f) = StatementCode(s, g)
<1>1. CASE s.kind \in {"call", "assign"}
  BY <1>1 DEF StatementCode
<1>2. CASE s.kind = "if"
  <2>1. s.then \in Seq(T) /\ s.else \in Seq(T)
    BY <1>2, StatementKinds
  <2>2. Each(f, s.then) = Each(g, s.then) /\ Each(f, s.else) = Each(g, s.else)
    <3>1. /\ \A i \in DOMAIN s.then : f[s.then[i]] = g[s.then[i]]
          /\ \A i \in DOMAIN s.else : f[s.else[i]] = g[s.else[i]]
      BY <2>1
    <3> QED
      BY <3>1, EachSame
  <2> QED
    BY <1>2, <2>2 DEF StatementCode
<1> QED
  BY <1>1, <1>2, StatementKinds

LEMMA StatementHypotheses ==
  /\ \A T, U : T \subseteq U => StatementsOf(T) \subseteq StatementsOf(U)
  /\ \A T : SimpleStatements \subseteq StatementsOf(T)
  /\ \A s \in SimpleStatements : \A f, g : StatementCode(s, f) = StatementCode(s, g)
  /\ \A T, f, g :
       (\A x \in T : f[x] = g[x])
         => \A s \in StatementsOf(T) : StatementCode(s, f) = StatementCode(s, g)
<1>1. ASSUME NEW T, NEW U, T \subseteq U PROVE StatementsOf(T) \subseteq StatementsOf(U)
  <2>1. Seq(T) \subseteq Seq(U)
    BY <1>1
  <2> QED
    BY <2>1 DEF StatementsOf
<1>2. ASSUME NEW T PROVE SimpleStatements \subseteq StatementsOf(T)
  BY DEF StatementsOf
<1>3. ASSUME NEW s \in SimpleStatements, NEW f, NEW g
      PROVE  StatementCode(s, f) = StatementCode(s, g)
  <2>1. s \in StatementsOf({})
    BY <1>2
  <2> QED
    BY <2>1, StatementCodeLocal
<1>4. ASSUME NEW T, NEW f, NEW g, \A x \in T : f[x] = g[x], NEW s \in StatementsOf(T)
      PROVE  StatementCode(s, f) = StatementCode(s, g)
  BY <1>4, StatementCodeLocal
<1> QED
  BY <1>1, <1>2, <1>3, <1>4

LEMMA StatementsAreLevels == StatementTrees!IsLevels(Statements, Nat)
BY StatementTrees!LevelsExist DEF Statements, StatementTrees!IsLevels

LEMMA CompileStatementIs ==
  CompileStatement = [s \in Actions |-> StatementCode(s, CompileStatement)]
<1>1. \E f : f = [s \in Actions |-> StatementCode(s, f)]
  BY StatementHypotheses, StatementsAreLevels, StatementTrees!BodyExists, NestingAssumption DEF Actions
<1> QED
  BY <1>1 DEF CompileStatement

LEMMA BranchTurns ==
  ASSUME NEW T, NEW f, \A x \in T : LeavesNone(f[x]), NEW trees \in Seq(T), NEW a \in Height
  PROVE  Turns(Each(f, trees), a, a)
<1>1. IsSeq(trees) /\ \A i \in 1 .. Len(trees) : Leaves(f[trees[i]], 0)
  BY DEF IsSeq, LeavesNone
<1>2. Len(trees) \in Nat /\ Turns(Each(f, trees), a, Higher(a, 0 * Len(trees)))
  BY <1>1, EachTurns
<1>3. 0 * Len(trees) = 0
  BY <1>2
<1> QED
  BY <1>2, <1>3, HigherTypes

LEMMA StatementCodeLeaves ==
  ASSUME NEW T, NEW f, \A x \in T : LeavesNone(f[x]), NEW s \in StatementsOf(T)
  PROVE  LeavesNone(StatementCode(s, f))
<1>0. ASSUME NEW c, \A a \in Height : Turns(c, a, a) PROVE LeavesNone(c)
  BY <1>0, HigherTypes DEF Leaves, LeavesNone
<1>1. CASE s.kind = "call"
  <2> DEFINE call == CompileCall(s, CompileExpr)
             instr == [op |-> "POP_DISCARD"]
  <2>1. s \in CallsOf(Expressions)
    BY <1>1, StatementKinds
  <2>2. Leaves(call, 1)
    BY <2>1, CallParts, ExprsLeaveOne, CompileCallLeaves
  <2>3. StatementCode(s, f) = call \o <<instr>>
    BY <1>1 DEF StatementCode, ValueDiscarded, Word
  <2>4. instr.op = "POP_DISCARD" /\ Pops(instr) = 1 /\ Pushes(instr) = 0
    BY DEF Pops, Pushes
  <2> HIDE DEF call, instr
  <2>5. ASSUME NEW a \in Height PROVE Turns(call \o <<instr>>, a, a)
    <3>1. Turns(call, a, Higher(a, 1))
      BY <2>2 DEF Leaves
    <3>2. Turns(<<instr>>, Higher(a, 1), Higher(a, 0))
      BY <2>4, PopPiece
    <3> QED
      BY <3>1, <3>2, HigherTypes, Joined
  <2> QED
    BY <1>0, <2>3, <2>5
<1>2. CASE s.kind = "assign"
  <2>1. Leaves(CompileExpr[s.rvalue], 1)
    BY <1>2, StatementKinds, ExprsLeaveOne
  <2> QED
    BY <1>2, <2>1, CompileAssignLeaves DEF StatementCode, LeavesNone
<1>3. CASE s.kind = "if"
  <2> DEFINE condition == CompileExpr[s.condition]
             then == Each(f, s.then)
             else == Each(f, s.else)
             hasElse == s.else # <<>>
  <2>1. Leaves(condition, 1)
    BY <1>3, StatementKinds, ExprsLeaveOne
  <2>2. s.then \in Seq(T) /\ s.else \in Seq(T)
    BY <1>3, StatementKinds
  <2>3. StatementCode(s, f) = CompileIf(condition, then, else, hasElse)
    BY <1>3 DEF StatementCode
  <2>4. hasElse \in BOOLEAN
    OBVIOUS
  <2>5. ASSUME NEW a \in Height PROVE Turns(then, a, a) /\ Turns(else, a, a)
    BY <2>2, BranchTurns
  <2> HIDE DEF condition, then, else, hasElse
  <2>6. ASSUME NEW a \in Height PROVE Turns(CompileIf(condition, then, else, hasElse), a, a)
    <3>1. Turns(condition, a, Higher(a, 1))
      BY <2>1 DEF Leaves
    <3> QED
      BY <2>4, <2>5, <3>1, CompileIfTurns
  <2> QED
    BY <1>0, <2>3, <2>6
<1> QED
  BY <1>1, <1>2, <1>3, StatementKinds

(* Every statement leaves nothing. *)
LEMMA StatementsLeaveNone ==
  \A s \in Actions : LeavesNone(CompileStatement[s])
<1>1. \A T : (\A x \in T : LeavesNone(CompileStatement[x]))
               => \A x \in StatementsOf(T) : LeavesNone(StatementCode(x, CompileStatement))
  BY StatementCodeLeaves
<1> QED
  BY <1>1, CompileStatementIs, StatementHypotheses, StatementsAreLevels,
     StatementTrees!BodyGood, NestingAssumption DEF Actions

-------------------------------------------------------------------------------
(* Whole chunks.                                                           *)

LEMMA SweepExists ==
  ASSUME NEW chunk, NEW n \in Nat
  PROVE  \E f : f = [i \in 0 .. n |-> IF i = 0 THEN [pc \in DOMAIN chunk |-> Ground]
                                      ELSE Swept(chunk, i, f[i - 1])]
<1> DEFINE first == [pc \in DOMAIN chunk |-> Ground]
           Upto(m, f) == f = [i \in 0 .. m |-> IF i = 0 THEN first ELSE Swept(chunk, i, f[i - 1])]
           A == {m \in Nat : \E f : Upto(m, f)}
<1> HIDE DEF first
<1>1. 0 \in A
  <2>1. Upto(0, [i \in 0 .. 0 |-> first])
    OBVIOUS
  <2> QED
    BY <2>1
<1>2. ASSUME NEW m \in Nat, m \in A PROVE m + 1 \in A
  <2>1. PICK f : Upto(m, f)
    BY <1>2
  <2> DEFINE next(i) == IF i = 0 THEN first ELSE Swept(chunk, i, f[i - 1])
             g == [i \in 0 .. m + 1 |-> next(i)]
  <2>2. ASSUME NEW i \in 0 .. m PROVE f[i] = g[i]
    <3>1. f[i] = next(i)
      BY <2>1
    <3>2. g[i] = next(i)
      <4> HIDE DEF next
      <4> QED
        OBVIOUS
    <3> QED
      BY <3>1, <3>2
  <2>3. ASSUME NEW i \in 0 .. m + 1, i # 0 PROVE f[i - 1] = g[i - 1]
    <3>1. i - 1 \in 0 .. m
      BY <2>3
    <3> HIDE DEF g
    <3> QED
      BY <2>2, <3>1
  <2>4. ASSUME NEW i \in 0 .. m + 1
        PROVE  next(i) = IF i = 0 THEN first ELSE Swept(chunk, i, g[i - 1])
    <3> HIDE DEF g
    <3> QED
      BY <2>3
  <2>5. g = [i \in 0 .. m + 1 |-> IF i = 0 THEN first ELSE Swept(chunk, i, g[i - 1])]
    <3> HIDE DEF next
    <3> QED
      BY <2>4
  <2>6. Upto(m + 1, g)
    <3> HIDE DEF g
    <3> QED
      BY <2>5
  <2> HIDE DEF Upto, g
  <2> QED
    BY <2>6
<1>3. Nat \subseteq A
  <2> HIDE DEF A
  <2> QED
    BY <1>1, <1>2, ExprTrees!Induction
<1> QED
  BY <1>3 DEF first
(* A whole chunk with the heights H, of which every instruction is reached *)
(* from one before.                                                        *)
Chunk(C, H) ==
  /\ IsSeq(C) /\ Len(C) \in Nat \ {0} /\ C[1].op \notin {"DATA", "CALL"} /\ H[1] = Ground
  /\ \A pc \in 1 .. Len(C) : C[pc].op # "DATA" => InstrWellFormed(C, H, pc)
  /\ \A pc \in 2 .. Len(C) : C[pc].op # "DATA" => Reached(C, pc)

LEMMA PieceAndHalt ==
  ASSUME NEW c, Turns(c, Ground, Ground)
  PROVE  \E H : Chunk(c \o Word("HALT"), H)
<1>1. PICK h : Piece(c, h, Ground, Ground, {})
  BY DEF Turns
<1> DEFINE halt == [op |-> "HALT"]
           C == c \o <<halt>>
           n == Len(c)
<1>2. halt.op = "HALT" /\ Word("HALT") = <<halt>>
  BY DEF Word
<1> HIDE DEF halt
<1>3. /\ IsSeq(C) /\ n \in Nat /\ Len(C) = n + 1 /\ C[n + 1] = halt
      /\ \A i \in 1 .. n : C[i] = c[i]
  <2>1. IsSeq(<<halt>>) /\ Len(<<halt>>) = 1 /\ <<halt>>[1] = halt
    BY OneValue
  <2> QED
    BY <1>1, <2>1, Concatenated DEF Piece
<1> HIDE DEF C
<1>4. Ground \in Height /\ Ground = [stack |-> 0, scopes |-> 0]
  BY DEF Ground, Height
<1>5. /\ h[1] = Ground /\ h[n + 1] = Ground
      /\ \A i \in 1 .. n + 1 : h[i] \in Height
  BY <1>1, PieceTypes DEF Piece
<1>6. /\ \A i \in 1 .. n : C[0 + i].op # "DATA" => Fits(C, h, 0 + i)
      /\ \A i \in 2 .. n + 1 : (i <= n => C[0 + i].op # "DATA") => Reached(C, 0 + i)
  <2>1. Within(c, h, 0, C, h)
    BY <1>2, <1>3 DEF Within
  <2>2. \A i : i \notin {}
    OBVIOUS
  <2> QED
    BY <1>1, <2>1, <2>2, Placed
<1>7. ASSUME NEW pc \in 1 .. n, C[pc].op # "DATA" PROVE InstrWellFormed(C, h, pc)
  <2>1. 0 + pc = pc /\ pc \in Nat /\ pc \in 1 .. n + 1 /\ C[0 + pc] = c[pc]
    BY <1>3
  <2>2. Fits(C, h, pc) /\ Fits(c, h, pc)
    BY <1>1, <1>6, <1>7, <2>1 DEF Piece
  <2>3. ASSUME NEW next \in Successors(C, pc) PROVE Leads(C, h, pc, next)
    <3>1. next - 0 \in Successors(c, pc)
      <4>1. 0 \in Nat /\ (c[pc].op = "BRANCH" => c[pc].diff \in Nat)
        BY <2>2 DEF Fits
      <4> QED
        BY <2>1, <2>3, <4>1, SuccessorsMoved
    <3>2. /\ next > pc /\ next \in 1 .. Len(C) + 1 /\ h[next] = After(C[pc], h[pc])
          /\ next <= Len(C) => C[next].op # "DATA"
          /\ next <= Len(C) /\ C[next].op = "CALL" => PushesMethod(C[pc])
      BY <2>2, <2>3 DEF Fits
    <3>3. next <= Len(C)
      <4>1. next - 0 \in 1 .. n + 1
        BY <2>2, <3>1 DEF Fits
      <4> QED
        BY <1>3, <3>2, <4>1
    <3>4. next \in DOMAIN C
      BY <1>3, <3>2, <3>3 DEF IsSeq
    <3> QED
      BY <3>2, <3>3, <3>4 DEF Leads, IsInstr
  <2>4. C[pc].op # "HALT" /\ C[pc].op \in Opcodes
    BY <2>2 DEF Fits
  <2> QED
    BY <1>5, <2>1, <2>2, <2>3, <2>4 DEF InstrWellFormed, Fits
<1>8. InstrWellFormed(C, h, n + 1)
  <2>1. C[n + 1].op = "HALT"
    BY <1>2, <1>3
  <2>2. Successors(C, n + 1) = {} /\ Pops(C[n + 1]) = 0 /\ ScopesBefore(C[n + 1]) = 0
    BY <2>1 DEF Successors, Pops, ScopesBefore
  <2>3. h[n + 1] = Ground /\ Ground.stack = 0 /\ Ground.scopes = 0
    BY <1>4, <1>5
  <2> QED
    BY <1>4, <2>1, <2>2, <2>3 DEF InstrWellFormed, Opcodes
<1>9. ASSUME NEW pc \in 1 .. Len(C), C[pc].op # "DATA" PROVE InstrWellFormed(C, h, pc)
  <2>1. pc \in 1 .. n \/ pc = n + 1
    BY <1>3
  <2> QED
    BY <1>7, <1>8, <1>9, <2>1
<1>10. ASSUME NEW pc \in 2 .. Len(C), C[pc].op # "DATA" PROVE Reached(C, pc)
  <2>1. pc \in 2 .. n + 1 /\ 0 + pc = pc
    BY <1>3
  <2> QED
    BY <1>6, <1>10, <2>1
<1>11. C[1].op \notin {"DATA", "CALL"}
  <2>1. CASE n = 0
    BY <1>2, <1>3, <2>1
  <2>2. CASE n > 0
    BY <1>1, <1>3, <2>2 DEF Piece
  <2> QED
    BY <1>3, <2>1, <2>2
<1>12. Chunk(C, h)
  BY <1>3, <1>5, <1>9, <1>10, <1>11 DEF Chunk
<1> QED
  BY <1>2, <1>12 DEF C

(* The sweep finds the heights of every instruction. *)
LEMMA SweepAgrees ==
  ASSUME NEW C, NEW H, Chunk(C, H)
  PROVE  \A pc \in 1 .. Len(C) : C[pc].op # "DATA" => HeightsOf(C)[pc] = H[pc]
<1> DEFINE n == Len(C)
           first == [pc \in DOMAIN C |-> Ground]
           Sweeps(f) == f = [i \in 0 .. n |-> IF i = 0 THEN first ELSE Swept(C, i, f[i - 1])]
           sweep == CHOOSE f : Sweeps(f)
<1>1. n \in Nat /\ n > 0 /\ DOMAIN C = 1 .. n
  BY DEF Chunk, IsSeq
<1>2. Sweeps(sweep)
  <2>1. \E f : Sweeps(f)
    BY <1>1, SweepExists
  <2> QED
    BY <2>1
<1>3. HeightsOf(C) = sweep[n]
  BY DEF HeightsOf
<1> HIDE DEF sweep
<1>4. /\ sweep[0] = first
      /\ \A m \in 0 .. n - 1 : sweep[m + 1] = Swept(C, m + 1, sweep[m])
  <2>1. sweep[0] = first
    BY <1>1, <1>2
  <2>2. ASSUME NEW m \in 0 .. n - 1 PROVE sweep[m + 1] = Swept(C, m + 1, sweep[m])
    <3>1. m + 1 \in 0 .. n /\ m + 1 # 0 /\ (m + 1) - 1 = m
      BY <1>1
    <3> QED
      BY <1>2, <3>1
  <2> QED
    BY <2>1, <2>2
<1> HIDE DEF Sweeps
<1> DEFINE Found(m, pc) == pc = 1 \/ \E q \in 1 .. m : C[q].op # "DATA" /\ pc \in Successors(C, q)
           Right(m) == \A pc \in 1 .. n : C[pc].op # "DATA" /\ Found(m, pc) => sweep[m][pc] = H[pc]
           A == {m \in Nat : m <= n => Right(m)}
<1>5. 0 \in A
  <2>1. Right(0)
    BY <1>1, <1>4 DEF Chunk
  <2> QED
    BY <2>1
<1>6. ASSUME NEW m \in Nat, m \in A PROVE m + 1 \in A
  <2>1. CASE ~(m + 1 <= n)
    BY <2>1
  <2>2. CASE m + 1 <= n
    <3>1. m \in 0 .. n - 1 /\ m + 1 \in 1 .. n
      BY <1>1, <2>2
    <3>2. Right(m)
      BY <1>1, <1>6, <3>1
    <3>3. sweep[m + 1] = Swept(C, m + 1, sweep[m])
      BY <1>4, <3>1
    <3>4. CASE C[m + 1].op \in {"DATA", "HALT"}
      <4>1. sweep[m + 1] = sweep[m]
        BY <3>3, <3>4 DEF Swept
      <4>2. ASSUME NEW pc \in 1 .. n, Found(m + 1, pc) PROVE Found(m, pc)
        <5>1. ASSUME NEW q \in 1 .. m + 1, C[q].op # "DATA", pc \in Successors(C, q)
              PROVE  q \in 1 .. m
          <6>1. q # m + 1
            BY <3>4, <5>1 DEF Successors
          <6> QED
            BY <6>1
        <5> QED
          BY <4>2, <5>1
      <4> HIDE DEF Found
      <4>3. Right(m + 1)
        BY <3>2, <4>1, <4>2
      <4> QED
        BY <3>1, <4>3
    <3>5. CASE C[m + 1].op \notin {"DATA", "HALT"}
      <4>1. InstrWellFormed(C, H, m + 1)
        BY <3>1, <3>5 DEF Chunk
      <4>2. sweep[m][m + 1] = H[m + 1]
        <5>1. Found(m, m + 1)
          <6>1. CASE m = 0
            BY <6>1
          <6>2. CASE m > 0
            <7>1. m + 1 \in 2 .. n /\ (m + 1) - 1 = m
              BY <3>1, <6>2
            <7>2. Reached(C, m + 1)
              BY <3>5, <7>1 DEF Chunk
            <7> QED
              BY <7>1, <7>2 DEF Reached
          <6> QED
            BY <6>1, <6>2
        <5> HIDE DEF Found
        <5> QED
          BY <3>1, <3>2, <3>5, <5>1
      <4>3. ASSUME NEW pc \in 1 .. n, C[pc].op # "DATA", Found(m + 1, pc)
            PROVE  sweep[m + 1][pc] = H[pc]
        <5>1. sweep[m + 1][pc] = IF pc \in Successors(C, m + 1)
                                 THEN After(C[m + 1], sweep[m][m + 1]) ELSE sweep[m][pc]
          BY <1>1, <3>3, <3>5 DEF Swept
        <5>2. CASE pc \in Successors(C, m + 1)
          <6>1. H[pc] = After(C[m + 1], H[m + 1])
            BY <4>1, <5>2 DEF InstrWellFormed, Leads
          <6> QED
            BY <4>2, <5>1, <5>2, <6>1
        <5>3. CASE pc \notin Successors(C, m + 1)
          <6>1. Found(m, pc)
            <7>1. ASSUME NEW q \in 1 .. m + 1, pc \in Successors(C, q) PROVE q \in 1 .. m
              BY <5>3, <7>1
            <7> QED
              BY <4>3, <7>1
          <6> HIDE DEF Found
          <6>2. sweep[m][pc] = H[pc]
            BY <3>2, <4>3, <6>1
          <6> QED
            BY <5>1, <5>3, <6>2
        <5> QED
          BY <5>2, <5>3
      <4> HIDE DEF Found
      <4>4. Right(m + 1)
        BY <4>3
      <4> QED
        BY <3>1, <4>4
    <3> QED
      BY <3>4, <3>5
  <2> QED
    BY <2>1, <2>2
<1>7. Nat \subseteq A
  <2> HIDE DEF A
  <2> QED
    BY <1>5, <1>6, ExprTrees!Induction
<1>8. ASSUME NEW pc \in 1 .. n, C[pc].op # "DATA" PROVE Found(n, pc)
  <2>1. CASE pc = 1
    BY <2>1
  <2>2. CASE pc # 1
    <3>1. Reached(C, pc)
      BY <1>1, <1>8, <2>2 DEF Chunk
    <3>2. PICK q \in 1 .. pc - 1 : C[q].op # "DATA" /\ pc \in Successors(C, q)
      BY <3>1 DEF Reached
    <3>3. q \in 1 .. n
      BY <1>1
    <3> QED
      BY <3>2, <3>3
  <2> QED
    BY <2>1, <2>2
<1>9. Right(n)
  BY <1>1, <1>7
<1> HIDE DEF Found
<1> QED
  BY <1>3, <1>8, <1>9

LEMMA ChunkHeights ==
  ASSUME NEW C, NEW H, Chunk(C, H)
  PROVE  Chunk(C, HeightsOf(C))
<1> DEFINE K == HeightsOf(C)
<1>1. \A pc \in 1 .. Len(C) : C[pc].op # "DATA" => K[pc] = H[pc]
  BY SweepAgrees
<1> HIDE DEF K
<1>2. 1 \in 1 .. Len(C) /\ DOMAIN C = 1 .. Len(C)
  BY DEF Chunk, IsSeq
<1>3. ASSUME NEW pc \in 1 .. Len(C), C[pc].op # "DATA" PROVE InstrWellFormed(C, K, pc)
  <2>1. InstrWellFormed(C, H, pc) /\ K[pc] = H[pc]
    BY <1>1, <1>3 DEF Chunk
  <2>2. ASSUME NEW next \in Successors(C, pc) PROVE Leads(C, K, pc, next)
    <3>1. Leads(C, H, pc, next)
      BY <2>1, <2>2 DEF InstrWellFormed
    <3>2. K[next] = H[next]
      BY <1>1, <1>2, <3>1 DEF Leads, IsInstr
    <3> QED
      BY <2>1, <3>1, <3>2 DEF Leads
  <2> QED
    BY <2>1, <2>2 DEF InstrWellFormed
<1>4. K[1] = Ground
  BY <1>1, <1>2 DEF Chunk
<1>5. Chunk(C, K)
  BY <1>3, <1>4 DEF Chunk
<1> QED
  BY <1>5 DEF K

LEMMA TargetsAreChunks ==
  ASSUME NEW statements \in Seq(Actions)
  PROVE  Chunk(CompileTarget(statements), HeightsOf(CompileTarget(statements)))
<1>1. Ground \in Height
  BY DEF Ground, Height
<1>2. Turns(Each(CompileStatement, statements), Ground, Ground)
  BY <1>1, StatementsLeaveNone, BranchTurns
<1> QED
  BY <1>2, PieceAndHalt, ChunkHeights DEF CompileTarget

-------------------------------------------------------------------------------
LEMMA CodeStays == ASSUME MachineNext PROVE code' = code
<1>1. CASE InstrPush \/ InstrPushGlobal
  BY <1>1 DEF InstrPush, InstrPushGlobal, PushChecked, Replace, Raise
<1>2. CASE InstrPushLocals
  BY <1>2 DEF InstrPushLocals
<1>3. CASE InstrPopLocals \/ InstrPopDiscard \/ InstrGetLocal
  BY <1>3 DEF InstrPopLocals, InstrPopDiscard, InstrGetLocal, Replace, Raise
<1>4. CASE InstrFilter \/ InstrGetField \/ InstrSetField \/ InstrSet
  BY <1>4 DEF InstrFilter, InstrGetField, InstrSetField, InstrSet, Replace, Raise
<1>5. CASE InstrCmp \/ InstrNot \/ InstrBranch
  BY <1>5 DEF InstrCmp, InstrNot, InstrBranch, Replace, Raise
<1>6. CASE InstrCall \/ InstrCallResolve
  BY <1>6 DEF InstrCall, InstrCallResolve, Replace
<1>7. CASE Halt \/ Handle
  BY <1>7 DEF Halt, Handle
<1> QED
  BY <1>1, <1>2, <1>3, <1>4, <1>5, <1>6, <1>7 DEF MachineNext

LEMMA CompiledAtFirst == Init => CompiledIsWellFormed
<1> SUFFICES ASSUME Init, NEW t \in Targets
             PROVE  LET chunk == code[t]
                        h     == HeightsOf(code[t])
                    IN /\ chunk \in Seq(ToSet(chunk))
                       /\ IsInstr(chunk, 1) /\ chunk[1].op # "CALL"
                       /\ h[1] = [stack |-> 0, scopes |-> 0]
                       /\ \A pc \in DOMAIN chunk :
                            chunk[pc].op # "DATA" => InstrWellFormed(chunk, h, pc)
  BY DEF CompiledIsWellFormed, WellFormed
<1>1. source[t] \in Seq(Actions) /\ code[t] = CompileTarget(source[t])
  BY SourcesAssumption DEF Init
<1>2. Chunk(code[t], HeightsOf(code[t]))
  BY <1>1, TargetsAreChunks
<1>3. DOMAIN code[t] = 1 .. Len(code[t]) /\ code[t] \in Seq(ToSet(code[t]))
  BY <1>2 DEF Chunk, IsSeq, ToSet
<1> QED
  BY <1>2, <1>3 DEF Chunk, IsInstr, Ground

(* Whatever is written as the actions of the targets, the compiler         *)
(* (src/compiler.c) generates well-formed code for them: every instruction *)
(* finds the values and scopes that it pops, and every branch ends at an   *)
(* instruction of the same target.                                         *)
THEOREM CodeIsWellFormed == Spec => []CompiledIsWellFormed
<1>1. CompiledIsWellFormed /\ [Next]_<<vars, source>> => CompiledIsWellFormed'
  <2>1. [Next]_<<vars, source>> => code' = code
    BY CodeStays DEF Next, vars
  <2> QED
    BY <2>1 DEF CompiledIsWellFormed
<1> QED
  BY <1>1, CompiledAtFirst, PTL DEF Spec

(* The machine that runs compiled code runs well-formed code: the theorems *)
(* about module Machine hold for every program that can be written.        *)
THEOREM CompiledCodeRuns ==
  ASSUME heights = [t \in Targets |-> HeightsOf(program[t])]
  PROVE  Spec /\ code = program => MachineSpec
<1>1. Init /\ code = program => MachineInit
  BY CompiledAtFirst DEF CompiledIsWellFormed, MachineInit, Init
<1>2. [Next]_<<vars, source>> => [MachineNext]_vars
  BY DEF Next
<1> QED
  BY <1>1, <1>2, PTL DEF Spec, MachineSpec

(* In particular, neither a target's actions nor those of the targets that *)
(* they resolve leave a value or a scope behind, however they end; vm_run  *)
(* executes every instruction up to HALT; a recursive 'resolve' does not   *)
(* disturb the actions that call it.                                       *)
THEOREM CompiledCodeIsClean ==
  ASSUME heights = [t \in Targets |-> HeightsOf(program[t])]
  PROVE  Spec /\ code = program =>
           /\ []MachineTypeOK /\ []LeavesNothing /\ []CodeCovered
           /\ NestedCallIsNeutral
BY CompiledCodeRuns, MachineTypes, NothingIsLeft, CodeIsCovered, NestedCallsAreNeutral, PTL
================================================================================
