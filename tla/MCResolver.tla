------------------------------ MODULE MCResolver ------------------------------
(***************************************************************************)
(* Rulesets on which TLC checks module Resolver.                           *)
(***************************************************************************)
EXTENDS Resolver

None(S) == [x \in S |-> {}]

(* A make-like ruleset: 'all' depends on 'audio' and 'cork', and 'cork' on *)
(* 'audio' and on a fact.  'cork' assigns a fact that 'audio' depends on,  *)
(* so that one resolution leaves work for the next.  'request' assigns a   *)
(* fact and resolves 'all'; plugins resolve both, and nothing fails.       *)
MakeTargets == {"request", "all", "audio", "cork"}
MakeFacts   == {"device", "volume"}
MakePrereqs == [request |-> {}, all |-> {"audio", "cork"}, audio |-> {"volume"},
                cork |-> {"audio", "device"}]
MakeOrder   == [request |-> <<"request">>, all |-> <<"audio", "cork", "all">>,
                audio |-> <<"audio">>, cork |-> <<"audio", "cork">>]
MakeWrites  == [None(MakeTargets) EXCEPT !["request"] = {"device"}, !["cork"] = {"volume"}]
MakeResolves == [None(MakeTargets) EXCEPT !["request"] = {"all"}]

(* A request ruleset (section 5.3 of the overview): 'request' has no       *)
(* prerequisites, assigns a fact and resolves 'all' recursively; 'all' and *)
(* 'hook' use further recursion.  Everything may fail.                     *)
NestTargets == {"request", "all", "hook"}
NestFacts   == {"device"}
NestPrereqs == [request |-> {}, all |-> {"device"}, hook |-> {}]
NestOrder   == [request |-> <<"request">>, all |-> <<"all">>,
                hook |-> <<"hook">>]
NestWrites  == [None(NestTargets) EXCEPT !["request"] = {"device"}]
NestResolves == [request |-> {"all", "hook"}, all |-> {"hook"}, hook |-> {}]

(* 'all' depends on 'audio', and plugins resolve 'audio' as well.          *)
PairTargets == {"all", "audio"}
PairPrereqs == [all |-> {"audio"}, audio |-> {"device"}]
PairOrder   == [all |-> <<"audio", "all">>, audio |-> <<"audio">>]
PairNone    == None(PairTargets)


(* The rulesets are such that the theorem NoUpdateMissed of ResolverProofs *)
(* applies to them.                                                        *)
ASSUME RulesetsUndisturbed == Undisturbed

(* The make-like one is such that GoalsAreUpToDate and NothingWithoutNeed  *)
(* apply as well.                                                          *)
ASSUME MakeIsSteady == Targets = MakeTargets => Steady /\ Economical
===============================================================================
