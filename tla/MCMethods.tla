------------------------------- MODULE MCMethods -------------------------------
(***************************************************************************)
(* A library with two builtins, of which the rules may call none, one or   *)
(* both, and two plugins that compete for the names of two other methods.  *)
(***************************************************************************)
EXTENDS Methods

TwoBuiltins == <<"resolve", "fail">>
================================================================================
