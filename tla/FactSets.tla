-------------------------------- MODULE FactSets --------------------------------
(***************************************************************************)
(* Assignments to the facts of one name when they differ: the selectors of *)
(* FILTER and the instructions SET FIELD, SET, UPDATE and REPLACE          *)
(* (src/vm-instr.c) with their work on facts (src/vm-global.c), which      *)
(* module Machine reduces to one field and equal facts.                    *)
(*                                                                         *)
(* A behaviour is one assignment to a store.  Its source are facts that a  *)
(* method has created, or those of another name (not for REPLACE, which    *)
(* would rename them).                                                     *)
(***************************************************************************)
EXTENDS Naturals, SequencesExt

CONSTANTS
  Fields,      \* names of fields
  Scalars,     \* values of fields: [type, v]
  Absent,      \* the value of a field that a fact does not have
  Stores,      \* the facts that the name may have, in the order of the store
  Assignments  \* [op, filter, matcher, field, src], see below

Contents == [Fields -> Scalars \cup {Absent}]
Selectors == [field : Fields, value : Scalars, neg : BOOLEAN]

(* The operators are "=", "|=", "*=", and ":" for that of a field.  A      *)
(* partial assignment without matcher is not compiled.  vm_fact_collect_   *)
(* fields cannot report that the first field popped is missing, it returns *)
(* -0: the pointer that is then used is no value at all.                   *)
ASSUME AssignmentsAssumption ==
  /\ Stores \subseteq Seq(Contents)
  /\ Assignments \subseteq
       [op : {"=", "|=", "*=", ":"}, filter : Seq(Selectors), matcher : Seq(Fields),
        field : Fields \cup {""}, src : Seq(Contents)]
  /\ \A s \in Assignments :
       /\ s.op = "|=" => s.matcher # <<>>
       /\ s.matcher # <<>> => \A n \in DOMAIN s.src : s.src[n][Last(s.matcher)] # Absent
       /\ s.op = ":" => s.field \in Fields /\ Len(s.src) = 1 /\ s.src[1][s.field] # Absent

VARIABLES
  store,     \* ids of the facts of the name, in order
  facts,     \* contents of facts by id
  touched,   \* fields for which ohm_fact_set was called: <<id, field>>
  assigned,  \* history: the assignment, <<>> before
  outcome    \* "none", "done" or "error" if an exception was raised

vars == <<store, facts, touched, assigned, outcome>>

Init ==
  /\ facts \in Stores
  /\ store = [i \in DOMAIN facts |-> i]
  /\ touched = {} /\ assigned = <<>> /\ outcome = "none"

-------------------------------------------------------------------------------
Match(sel, fact) == fact[sel.field] = sel.value
Kept(sel, fact)  == Match(sel, fact) # sel.neg
Clash(sel, fact) ==
  fact[sel.field] # Absent /\ fact[sel.field].type # sel.value.type

(* The ids that are in S, packed tightly. *)
Packed(ids, S) ==
  LET packed[n \in 0 .. Len(ids)] ==
        IF n = 0 THEN <<>>
        ELSE IF ids[n] \in S THEN Append(packed[n - 1], ids[n]) ELSE packed[n - 1]
  IN packed[Len(ids)]

(* One selector after the other, the last one first, on what those before  *)
(* have left.                                                              *)
FilterPass(sel, g) ==
  IF g.raised \/ \E n \in DOMAIN g.ids : Clash(sel, facts[g.ids[n]])
  THEN [g EXCEPT !.raised = TRUE]
  ELSE [g EXCEPT !.ids = Packed(@, {i \in DOMAIN facts : Kept(sel, facts[i])})]

Filtered(filter) ==
  LET passed[n \in 0 .. Len(filter)] ==
        IF n = 0 THEN [ids |-> store, raised |-> FALSE]
        ELSE FilterPass(filter[Len(filter) + 1 - n], passed[n - 1])
  IN passed[Len(filter)]

-------------------------------------------------------------------------------
(* Work on facts.  The progress of an instruction is in a record: facts,   *)
(* touched fields, destinations, and whether it has failed.                *)

Begin(dst) ==
  [facts |-> facts, touched |-> {}, dst |-> dst, nfact |-> Len(dst), left |-> <<>>,
   match |-> FALSE, error |-> FALSE]

Failed(st) == [st EXCEPT !.error = TRUE]

WrittenPartially(partial, fact, src) ==      \* Deviation: no vm_fact_reset
  [k \in Fields |-> IF src[k] = Absent THEN fact[k] ELSE src[k]]

(* vm_fact_update and vm_fact_copy *)
Written(partial, fact, src) ==
  IF partial THEN [k \in Fields |-> IF src[k] = Absent THEN fact[k] ELSE src[k]]
  ELSE src

SetAlways(partial, fact, src) ==             \* Deviation: no vm_field_matches
  {k \in Fields : src[k] # Absent \/ (~partial /\ fact[k] # Absent)}

SetFields(partial, fact, src) ==
  IF partial THEN {k \in Fields : src[k] \notin {Absent, fact[k]}}
  ELSE {k \in Fields : src[k] # Absent \/ fact[k] # Absent}

Write(st, ids, src, partial) ==
  [st EXCEPT
     !.facts = [i \in DOMAIN facts |->
                  IF i \in ids THEN Written(partial, st.facts[i], src) ELSE st.facts[i]],
     !.touched = @ \cup {w \in ids \X Fields :
                           w[2] \in SetFields(partial, st.facts[w[1]], src)}]

(* Of the fields, the last of the matcher is the first popped. *)
Collected(src, matcher) ==
  \A n \in 1..(Len(matcher) - 1) : src[matcher[n]] # Absent

FactMatches(fact, src, matcher) ==
  \A n \in DOMAIN matcher : fact[matcher[n]] = src[matcher[n]]

(* UPDATE: every source to all destinations that match it. *)
UpdateOne(st, from, matcher, partial) ==
  LET matching == {i \in ToSet(st.dst) : FactMatches(st.facts[i], from, matcher)}
  IN IF st.error \/ ~Collected(from, matcher) \/ matching = {} THEN Failed(st)
     ELSE Write(st, matching, from, partial)

Update(dst, src, matcher, partial) ==
  LET after[n \in 0 .. Len(src)] ==
        IF n = 0 THEN Begin(dst) ELSE UpdateOne(after[n - 1], src[n], matcher, partial)
  IN after[Len(src)]

(* SET: the sources one by one over as many destinations. *)
Set(dst, src) ==
  LET after[n \in 0 .. Len(src)] ==
        IF n = 0 THEN Begin(dst) ELSE Write(after[n - 1], {dst[n]}, src[n], FALSE)
  IN IF Len(dst) # Len(src) THEN Failed(Begin(dst)) ELSE after[Len(src)]

(* SET FIELD *)
SetField(dst, field, src) ==
  IF Len(dst) # 1 THEN Failed(Begin(dst))
  ELSE Write(Begin(dst), {dst[1]}, [[k \in Fields |-> Absent] EXCEPT ![field] = src[field]],
             TRUE)

(* REPLACE takes a destination that was updated out of the array and       *)
(* decrements nfact, up to which vm_global_find_next searches: the last    *)
(* destinations are not found any more.                                    *)
Hole == 0

ReplaceDst(st, n, from, matcher) ==
  IF /\ n <= st.nfact /\ st.dst[n] # Hole
     /\ FactMatches(st.facts[st.dst[n]], from, matcher)
  THEN [Write(st, {st.dst[n]}, from, TRUE) EXCEPT
          !.dst[n] = Hole, !.nfact = @ - 1, !.match = TRUE]
  ELSE st

ReplaceOne(st, from, matcher) ==
  LET tried[n \in 0 .. Len(st.dst)] ==
        IF n = 0 THEN [st EXCEPT !.match = FALSE]
        ELSE ReplaceDst(tried[n - 1], n, from, matcher)
      found == tried[Len(st.dst)]
  IN IF st.error \/ ~Collected(from, matcher) THEN Failed(st)
     ELSE IF found.match THEN found ELSE [found EXCEPT !.left = Append(@, from)]

Replace(dst, src, matcher) ==
  LET after[n \in 0 .. Len(src)] ==
        IF n = 0 THEN Begin(dst) ELSE ReplaceOne(after[n - 1], src[n], matcher)
  IN IF matcher = <<>> THEN [Begin(dst) EXCEPT !.left = src] ELSE after[Len(src)]

LeftFirst(st) ==                             \* Deviation: up to nfact
  {st.dst[n] : n \in 1..st.nfact} \ {Hole}

(* What is left in the array at the end is removed from the store. *)
LeftOver(st) == ToSet(st.dst) \ {Hole}

-------------------------------------------------------------------------------
Raised ==
  /\ outcome' = "error"
  /\ UNCHANGED <<store, facts, touched>>

DuplicatedOnce(n) == Len(facts) + 1          \* Deviation: one fact for all sources

(* Every source is inserted as a fact of its own (vm_fact_dup). *)
Duplicated(n) == Len(facts) + n

(* The effect of an instruction that removes these facts and inserts those. *)
Effect(st, removed, inserted) ==
  /\ outcome' = IF st.error THEN "error" ELSE "done"
  /\ touched' = st.touched
  /\ IF st.error THEN facts' = st.facts /\ UNCHANGED store
     ELSE /\ facts' = st.facts \o inserted
          /\ store' = Packed(store, ToSet(store) \ removed)
                        \o [n \in DOMAIN inserted |-> Duplicated(n)]

(* A filter that raises ends each of them. *)
InstrFilter(s) ==
  /\ assigned' = s
  /\ Filtered(s.filter).raised /\ Raised

OnFacts(s) == assigned' = s /\ ~Filtered(s.filter).raised

Destinations(s) == Filtered(s.filter).ids

InstrSetField(s) ==
  /\ OnFacts(s) /\ s.op = ":"
  /\ Effect(SetField(Destinations(s), s.field, s.src[1]), {}, <<>>)

(* A name without facts gets those of the source. *)
InstrSetVar(s) ==
  /\ OnFacts(s) /\ s.op = "=" /\ s.matcher = <<>>
  /\ IF store = <<>> THEN Effect(Begin(<<>>), {}, s.src)
     ELSE Effect(Set(Destinations(s), s.src), {}, <<>>)

InstrUpdate(s) ==
  /\ OnFacts(s) /\ s.op \in {"=", "|="} /\ s.matcher # <<>>
  /\ Effect(Update(Destinations(s), s.src, s.matcher, s.op = "|="), {}, <<>>)

(* A filter that leaves none of the facts also loses their name. *)
InstrReplace(s) ==
  /\ OnFacts(s) /\ s.op = "*="
  /\ IF store # <<>> /\ Destinations(s) = <<>> THEN Raised
     ELSE LET st == Replace(Destinations(s), s.src, s.matcher)
          IN Effect(st, LeftOver(st), st.left)

Next ==
  /\ outcome = "none"
  /\ \E s \in Assignments :
       \/ InstrFilter(s)
       \/ InstrSetField(s) \/ InstrSetVar(s) \/ InstrUpdate(s) \/ InstrReplace(s)

Spec == Init /\ [][Next]_vars

-------------------------------------------------------------------------------
(* Types; no fact is twice in the store.                                   *)
TypeOK ==
  /\ facts \in Seq(Contents) /\ ToSet(store) \subseteq DOMAIN facts /\ IsInjective(store)
  /\ touched \subseteq (DOMAIN facts) \X Fields
  /\ outcome \in {"none", "done", "error"}
  /\ (assigned = <<>>) = (outcome = "none")

(* The manual's terms, of the facts before the assignment: those that      *)
(* match all selectors, and sources and facts that agree on the matcher.   *)
Selected(s) ==
  {i \in ToSet(store) : \A n \in DOMAIN s.filter : Kept(s.filter[n], facts[i])}

Comparable(s) ==
  \A n \in DOMAIN s.filter, i \in ToSet(store) : ~Clash(s.filter[n], facts[i])

Keyed(i, src, matcher) ==
  \A k \in ToSet(matcher) : src[k] # Absent /\ facts[i][k] = src[k]

Carries(fact, src) == \A k \in Fields : src[k] \in {Absent, fact[k]}

(* The fields that an update writes come from the last source that has a   *)
(* value for them; a full assignment has one for every field.              *)
UpdateMeans(s) ==
  LET from(i, k) == {n \in DOMAIN s.src : /\ Keyed(i, s.src[n], s.matcher)
                                         /\ (s.op = "=" \/ s.src[n][k] # Absent)}
  IN /\ outcome' = "done" <=>
           \A n \in DOMAIN s.src : \E i \in Selected(s) : Keyed(i, s.src[n], s.matcher)
     /\ outcome' = "done" =>
           /\ store' = store
           /\ facts' = [i \in DOMAIN facts |-> [k \in Fields |->
                          IF i \notin Selected(s) \/ from(i, k) = {} THEN facts[i][k]
                          ELSE s.src[Max(from(i, k))][k]]]

(* A full assignment gives one source to each of the facts selected, in    *)
(* the order of both.                                                      *)
SetMeans(s) ==
  LET place(i) == Cardinality({j \in Selected(s) : j <= i})
  IN /\ outcome' = "done" <=> Cardinality(Selected(s)) = Len(s.src)
     /\ outcome' = "done" =>
           /\ store' = store
           /\ facts' = [i \in DOMAIN facts |->
                          IF i \in Selected(s) THEN s.src[place(i)] ELSE facts[i]]

(* Full assignments in which the code is not what the manual says          *)
(* (doc/resolver-overview.txt:232-237): where the name has no facts, the   *)
(* manual has an error for want of equal dimensions or of a matching fact, *)
(* and the code inserts the sources (vm-instr.c:574); where a filter       *)
(* leaves more facts than there are sources, the manual only asks for a    *)
(* fact for every source, and the code raises an error (vm-instr.c:593).   *)
Disputed(s) ==
  \/ store = <<>>
  \/ s.filter # <<>> /\ Cardinality(Selected(s)) > Len(s.src)

FieldMeans(s) ==
  /\ outcome' = "done" <=> Cardinality(Selected(s)) = 1
  /\ outcome' = "done" =>
        /\ store' = store
        /\ facts' = [i \in DOMAIN facts |->
                       IF i \in Selected(s) THEN [facts[i] EXCEPT ![s.field] = s.src[1][s.field]]
                       ELSE facts[i]]

Documented(s) ==
  Comparable(s) =>
    /\ s.op = ":" => FieldMeans(s)
    /\ s.op = "=" /\ s.matcher = <<>> /\ ~Disputed(s) => SetMeans(s)
    /\ s.op \in {"=", "|="} /\ s.matcher # <<>> => UpdateMeans(s)

(* Assignments whose selectors have the types of the fields do what the    *)
(* manual says (doc/resolver-overview.txt:190-252), full ones unless they  *)
(* are Disputed.  A field assignment is an error exactly if its filter     *)
(* leaves other than one fact; a full one, if these are not as many as the *)
(* sources; a partial one, if some source has no match among them (and so  *)
(* is a full one with a matcher, which the manual does not have).          *)
(* Otherwise the fields given are assigned to the facts selected and       *)
(* matched, and to no other (SET FIELD, SET and UPDATE after FILTER).      *)
AssignsAsDocumented == [][Documented(assigned')]_vars

OnlyDifferent(s) ==
  \A w \in touched' : \E n \in DOMAIN s.src :
    Keyed(w[1], s.src[n], s.matcher) /\ s.src[n][w[2]] \notin {Absent, facts[w[1]][w[2]]}

(* "Partial assignments never overwrite fact fields with identical values" *)
(* (doc/resolver-overview.txt:254): every field that vm_fact_update sets,  *)
(* also before a failure, had another value than some matching source has, *)
(* so that an assignment without effect resolves nothing.                  *)
IdenticalNotTouched == [][assigned'.op = "|=" => OnlyDifferent(assigned')]_vars

Complete(s) ==
  LET others == ToSet(store) \ Selected(s)
      new    == ToSet(store') \ others
      key(i) == [k \in ToSet(s.matcher) |-> facts[i][k]]
  IN /\ others \subseteq ToSet(store') /\ \A i \in others : facts'[i] = facts[i]
     /\ \A n \in DOMAIN s.src : \E i \in new : Carries(facts'[i], s.src[n])
     /\ \A i \in new : \E n \in DOMAIN s.src : Carries(facts'[i], s.src[n])
     /\ s.matcher = <<>> \/ (\A i, j \in Selected(s) : key(i) = key(j) => i = j) =>
          Cardinality(new) = Len(s.src)

(* REPLACE leaves no old fact and loses no new one: among the selected     *)
(* facts there is one for every source afterwards, each carries a source,  *)
(* and there are as many as sources if no two of the facts agree on the    *)
(* matcher.  The others stay as they are.                                  *)
ReplaceIsComplete ==
  [][assigned'.op = "*=" /\ outcome' = "done" => Complete(assigned')]_vars

================================================================================
