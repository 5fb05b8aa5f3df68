------------------------------ MODULE MCSaveLoad ------------------------------
(* Rulesets on both sides of every limit of a small buffer: targets that   *)
(* fit at once, after doubling, or not at all, and other sections that do  *)
(* not fit behind them.                                                    *)
EXTENDS SaveLoad

Target(name, prereqs, code, deps) ==
  [name |-> name, prereqs |-> prereqs, code |-> code, dependencies |-> deps]
Targets(n) ==
  LET all == <<Target("all", <<2, 3>>, <<>>, <<2, 3>>), Target("a", <<>>, <<7, 8, 9>>, <<>>),
               Target("b", <<2, 2, 2, 2>>, <<5>>, <<2>>),
               Target("c", <<>>, [i \in 1 .. 60 |-> i], <<>>)>>
  IN SubSeq(all, 1, n)

Value(type, v) == [type |-> type, v |-> v]
Field(name, value) == [name |-> name, value |-> value]
Initializer(variable, fields) == [variable |-> variable, fields |-> fields]
Fields == <<Field("i", Value("integer", 0)), Field("d", Value("double", 12500)),
            Field("s", Value("string", "")), Field("e", Value("double", -12500))>>
Initializers(n) ==
  SubSeq(<<Initializer(1, SubSeq(Fields, 1, 2)), Initializer(2, SubSeq(Fields, 3, 4))>>, 1, n)
Factvars == <<[name |-> "f", flags |-> 1], [name |-> "g", flags |-> 0]>>

Ruleset(t, i, m) ==
  [targets |-> Targets(t), factvars |-> Factvars, dresvars |-> SubSeq(<<"x">>, 1, m),
   initializers |-> Initializers(i), methods |-> SubSeq(<<"dres", "act">>, 1, 1 + m)]

MCRulesets == {Ruleset(t, i, m) : t \in {1, 3, 4}, i \in 0 .. 2, m \in 0 .. 1}
MCBuiltins == {"dres"}
================================================================================
