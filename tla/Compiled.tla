-------------------------------- MODULE Compiled --------------------------------
(***************************************************************************)
(* Actions compiled (module Compiler) and executed (module Machine).       *)
(***************************************************************************)
EXTENDS WellFormed, Compiler

CONSTANT Sources   \* the actions of every target, of which one is chosen

ASSUME SourcesAssumption ==
  \A s \in Sources : \A t \in Targets : s[t] \in Seq(Actions)

VARIABLE source

Init ==
  /\ source \in Sources
  /\ code = [t \in Targets |-> CompileTarget(source[t])]
  /\ Idle

Next == MachineNext /\ UNCHANGED source

Spec == Init /\ [][Next]_<<vars, source>>

(* vm_run goes on until it is done. *)
FairSpec == Spec /\ WF_<<vars, source>>(Next)

(* The heights of compiled code, from one instruction to the next. *)
Ground == [stack |-> 0, scopes |-> 0]

Swept(chunk, pc, h) ==
  LET instr == chunk[pc]
      after == After(instr, h[pc])
      nexts == Successors(chunk, pc)
  IN IF instr.op \in {"DATA", "HALT"} THEN h
     ELSE [i \in DOMAIN chunk |-> IF i \in nexts THEN after ELSE h[i]]

HeightsOf(chunk) ==
  LET sweep[n \in 0 .. Len(chunk)] ==
        IF n = 0 THEN [pc \in DOMAIN chunk |-> Ground] ELSE Swept(chunk, n, sweep[n - 1])
  IN sweep[Len(chunk)]

(* What the compiler generates (src/compiler.c:140-640) is well formed, so *)
(* that the theorems about Machine are about it.                           *)
CompiledIsWellFormed == WellFormed(code, [t \in Targets |-> HeightsOf(code[t])])

(* Every execution comes to an end: code branches forward only.            *)
Ends == <>(mode = "done")
================================================================================
