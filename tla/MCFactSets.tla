------------------------------- MODULE MCFactSets -------------------------------
(***************************************************************************)
(* Stores and assignments with which TLC checks module FactSets.           *)
(***************************************************************************)
EXTENDS FactSets

Integer(n) == [type |-> "integer", v |-> n]
MCScalars == {Integer(1), Integer(2), [type |-> "string", v |-> 1]}
MCAbsent  == [type |-> "unknown", v |-> 0]

Fact(id, peer, state) == [id |-> id, peer |-> peer, state |-> state]

(* 'id' and 'peer' identify facts, not always.  Where a fact has a string  *)
(* as 'peer', a selector with an integer clashes.                          *)
Stored ==
  {Fact(id, peer, state) : id \in {Integer(1), Integer(2)},
     peer \in {MCAbsent, Integer(1)}, state \in {Integer(1), Integer(2)}}
  \cup {Fact(Integer(1), [type |-> "string", v |-> 1], MCAbsent)}

MCStores == SeqOf(Stored, 3)

Created ==
  {Fact(Integer(1), Integer(1), MCAbsent), Fact(Integer(1), MCAbsent, Integer(2)),
   Fact(Integer(2), Integer(1), Integer(1)), Fact(Integer(2), MCAbsent, MCAbsent)}

Sources == SeqOf(Created, 2)
             \cup {<<Fact(Integer(1), Integer(1), Integer(2)), Fact(Integer(2), Integer(1), MCAbsent),
                    Fact(Integer(2), MCAbsent, Integer(1))>>}

Is(field, value)    == [field |-> field, value |-> value, neg |-> FALSE]
IsNot(field, value) == [field |-> field, value |-> value, neg |-> TRUE]

Filters == {<<>>, <<Is("id", Integer(1))>>, <<IsNot("state", Integer(1))>>,
            <<IsNot("id", Integer(2)), Is("peer", Integer(1))>>}

Assignment(op, filter, matcher, src) ==
  [op |-> op, filter |-> filter, matcher |-> matcher, field |-> "", src |-> src]

MCAssignments ==
  {Assignment(op, filter, matcher, src) :
     op \in {"=", "*="}, filter \in Filters, matcher \in {<<>>, <<"id">>, <<"peer", "id">>},
     src \in Sources}
  \cup
  {Assignment("|=", filter, matcher, src) :
     filter \in Filters, matcher \in {<<"id">>, <<"peer", "id">>}, src \in Sources}
  \cup
  {[op |-> ":", filter |-> filter, matcher |-> <<>>, field |-> "state",
    src |-> <<Fact(MCAbsent, MCAbsent, Integer(2))>>] : filter \in Filters}
================================================================================
