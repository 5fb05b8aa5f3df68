-------------------------------- MODULE Programs --------------------------------
(***************************************************************************)
(* The compiled actions of module Compiled, compared with what they mean   *)
(* (module Language).                                                      *)
(***************************************************************************)
EXTENDS Compiled

Intended == INSTANCE Language

(* However the boolean operators, conditions and calls of the source are   *)
(* nested, what compiler and machine make of them ends with the status, has *)
(* made the calls with the arguments, and leaves the facts that the manual  *)
(* promises (src/compiler.c:140-640, src/vm-instr.c).                       *)
RunsAsDocumented ==
  mode = "done" =>
    LET meaning == Intended!Meaning(Goal)
    IN /\ status = meaning.status
       /\ calls = meaning.calls
       /\ facts = meaning.facts
================================================================================
