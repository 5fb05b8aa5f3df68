-------------------------------- MODULE MCPlugin --------------------------------
(* Handlers and console of the resolver plugin: requests that are good,    *)
(* out of range, empty, with holes at every place, and for two callbacks   *)
(* of which one is exported; two rules, one with the id 0; commands with   *)
(* good, bad and no arguments; two plugins that want the same commands.    *)
EXTENDS Console

MCNames == {"cb", "cc", "cd"}
MCRules == {"r/1", "r/2"}
MCRuleId == [r \in MCRules |-> IF r = "r/1" THEN 0 ELSE 1]
MCValues == {"g", "a", "b", "x", "y"}

Arg(type, v) == [type |-> type, v |-> v]
S(v) == Arg("string", v)
Hole == Arg("nofact", "x")
Call(id, cb, args) == [valid |-> TRUE, id |-> id, cb |-> cb, args |-> args]

Goals == {<<S("g")>>, <<S("g"), S("a"), S("x"), S("b"), S("y")>>, <<S("g"), S("a"), Hole>>,
          <<S("g"), S("a"), Hole, S("b"), Hole>>, <<S("g"), S("a"), S("x"), S("b"), Hole>>,
          <<S("g"), S("a"), Arg("integer", "x"), S("b"), Arg("nil", "y")>>,
          <<S("g"), S("a"), Arg("double", "x")>>, <<S("g"), S("x"), S("y")>>,
          <<S("g"), S("a")>>, <<Arg("fact", "g")>>, <<S("g"), S("a"), Arg("other", "x")>>}
MCRequests ==
  {Call(1, "resolve", args) : args \in Goals}
    \cup {Call(2, cb, <<Hole, S("x")>>) : cb \in MCNames}
    \cup {Call(1, "cc", <<Arg("other", "x")>>), Call(2, "", <<>>), Call(2, "resolve", <<S("g")>>),
          [Call(1, "resolve", <<S("g")>>) EXCEPT !.valid = FALSE]}

Command(name, goal, args) == [name |-> name, goal |-> goal, args |-> args]
Word(level, on) == [level |-> level, on |-> on]
Assignment(fact, complete) == [fact |-> fact, complete |-> complete]
L(name, type) == Local(name, type, "x")
MCCommands ==
  {Command(name, "all", <<>>) : name \in {"grab", "release", "bye", "resolve", "log", "c", "d"}}
    \cup {Command("resolve", "g", args) :
            args \in {None, <<L("a", "s")>>, <<L("a", "d"), L("b", "d")>>, <<L("z", "i")>>}}
    \cup {Command("set", "all", <<Assignment("f", FALSE), Assignment("f", TRUE),
                                  Assignment("g", TRUE)>>),
          Command("log", "all", <<Word("info", TRUE), Word("error", TRUE), Word("info", FALSE)>>),
          Command("log", "all", <<Word("info", TRUE), Word("all", TRUE)>>)}
MCBuiltin == {"grab", "release", "bye", "resolve", "set", "log"}
MCExtensions == {"c", "d", "log"}
MCPlugins == {"p", "q"}

(* Bound: rules, delayed requests and the console share no state; they are *)
(* explored one at a time.                                                 *)
RulesAtRest == engine = {} /\ last.handler \notin {"rule", "fallback"}
DelaysAtRest == named = {} /\ timers = [i \in Ids |-> None]
ConsoleAtRest == ~connected /\ extensions = <<>> /\ input = None
OneAtATime ==
  \/ RulesAtRest /\ DelaysAtRest
  \/ DelaysAtRest /\ ConsoleAtRest
  \/ ConsoleAtRest /\ RulesAtRest
================================================================================
