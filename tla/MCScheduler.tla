------------------------------ MODULE MCScheduler ------------------------------
(***************************************************************************)
(* The ruleset on which TLC checks module Scheduler.                       *)
(***************************************************************************)
EXTENDS Scheduler

(* 'cork', walked after 'audio', assigns the fact that 'audio' depends on. *)
(* Plugins resolve 'request', which assigns it as well, and 'audio'.       *)
LoopTargets == {"all", "audio", "cork", "request"}
LoopFacts   == {"device", "volume"}
LoopPrereqs == [all |-> {"audio", "cork"}, audio |-> {"volume"},
                cork |-> {"device"}, request |-> {}]
LoopOrder   == [all |-> <<"audio", "cork", "all">>, audio |-> <<"audio">>,
                cork |-> <<"cork">>, request |-> <<"request">>]
LoopWrites  == [t \in LoopTargets |->
                  IF t \in {"cork", "request"} THEN {"volume"} ELSE {}]
LoopResolves == [t \in LoopTargets |-> {}]
================================================================================
