-------------------------------- MODULE SaveLoad --------------------------------
(***************************************************************************)
(* Precompiled rulesets: dresc parses, compiles and saves a ruleset        *)
(* (src/dresc.c, dres_save in src/compiler.c), tests that it can be loaded *)
(* again, and the daemon opens it (dres_open in src/dres.c, dres_load), or *)
(* the text next to it if loading fails.                                   *)
(*                                                                         *)
(* The unit of all sizes is a word: dresc refuses to save where pointers   *)
(* are not as long as an int32_t (check_env). A saved string takes one     *)
(* unit of the string table, the empty one is at offset 0. Doubles are in  *)
(* units of 1/10000; take values that binary fractions represent exactly.  *)
(***************************************************************************)
EXTENDS Integers, Sequences, SequencesExt, FiniteSetsExt

CONSTANTS
  Rulesets,     \* the rulesets that dresc may be given
  Builtins,     \* the methods that every dres_t has
  InitialSize,  \* INITIAL_SIZE of the buffers of dres_save, in words
  MaxSize       \* MAX_SIZE

ASSUME SizesAssumption == InitialSize \in Nat \ {0} /\ MaxSize \in Nat

(* Values as the parser makes them. *)
Values ==
  [type : {"integer", "double"}, v : Int] \cup [type : {"string"}, v : STRING]
FieldsOf == Seq([name : STRING, value : Values])
Rules ==
  [targets : Seq([name : STRING, prereqs : Seq(Int), code : Seq(Int),
                  dependencies : Seq(Int)]),
   factvars : Seq([name : STRING, flags : Int]), dresvars : Seq(STRING),
   initializers : Seq([variable : Nat, fields : FieldsOf]), methods : Seq(STRING)]

(* dres_init registers the builtins before anything is parsed. *)
ASSUME RulesetsAssumption ==
  /\ Rulesets \subseteq Rules
  /\ Builtins # {} /\ \A r \in Rulesets : Builtins \subseteq ToSet(r.methods)

VARIABLES
  ruleset,    \* dres_t after dres_parse_file and dres_finalize
  phase,      \* what dresc or the daemon does next
  section,    \* the section that is saved or loaded next
  buf,        \* dres_buf_t of dres_save
  file,       \* the saved file, NoFile if there is none
  status,     \* what dres_save has returned
  who,        \* the process that loads: "dresc" (--test) or "daemon"
  load,       \* dres_buf_t of dres_load
  got,        \* dres_t that is being loaded, or was
  source,     \* what the ruleset in use was made from: "file" or "text"
  created     \* the names of the facts that the process has inserted

saveVars == <<buf, file, status>>
loadVars == <<load, got, source, created>>
vars == <<ruleset, phase, section, who, saveVars, loadVars>>

(* The sections in the order of the file. *)
Sections == <<"targets", "factvars", "dresvars", "initializers", "methods">>

NoFile == [data |-> <<>>, strings |-> <<>>, header |-> <<>>]

-------------------------------------------------------------------------------
(* dres_buf_*: writing.  The first error is kept and nothing is written    *)
(* after it.                                                               *)

NewBuffer(n) == [size |-> n, data |-> <<>>, strings |-> <<>>, error |-> FALSE]

(* dres_buf_alloc and the store behind it, for the words ws. *)

(* Deviation: off by one. *)
AllocOneMore(b, ws) ==
  IF b.error \/ b.size + 1 - Len(b.data) < Len(ws)
    THEN [b EXCEPT !.error = TRUE]
    ELSE [b EXCEPT !.data = @ \o ws]
Alloc(b, ws) ==
  IF b.error \/ b.size - Len(b.data) < Len(ws)
    THEN [b EXCEPT !.error = TRUE]
    ELSE [b EXCEPT !.data = @ \o ws]

(* dres_buf_wstr: the string goes to the table, its offset to the data.    *)
PutString(b, s) ==
  IF b.error \/ (s # "" /\ Len(b.strings) + 1 >= b.size) THEN [b EXCEPT !.error = TRUE]
  ELSE IF s = "" THEN Alloc(b, <<0>>)
  ELSE Alloc([b EXCEPT !.strings = Append(@, s)], <<Len(b.strings) + 1>>)

(* dres_buf_wdbl: the integer part, truncated towards zero, and what it    *)
(* leaves of the absolute value, in thousandths.  The words are zero until *)
(* both are allocated.                                                     *)
Magnitude(d) == IF d < 0 THEN -d ELSE d
IntegerPart(d) == (IF d < 0 THEN -1 ELSE 1) * (Magnitude(d) \div 10000)
DecimalPartHundredths(d) == (Magnitude(d) - 10000 * IntegerPart(d)) \div 100
DecimalPart(d) == (Magnitude(d) - 10000 * IntegerPart(d)) \div 10

PutDouble(b, d) ==
  LET both == Alloc(Alloc(b, <<IntegerPart(d)>>), <<DecimalPart(d)>>)
  IN IF both.error THEN Alloc(Alloc(b, <<0>>), <<0>>) ELSE both

Word(w)   == [kind |-> "word", v |-> w]
String(s) == [kind |-> "string", v |-> s]
Double(d) == [kind |-> "double", v |-> d]
Code(c)   == [kind |-> "code", v |-> c]
Words(ws) == [i \in DOMAIN ws |-> Word(ws[i])]

Put(b, item) ==
  CASE item.kind = "word"   -> Alloc(b, <<item.v>>)
    [] item.kind = "code"   -> Alloc(b, item.v)
    [] item.kind = "string" -> PutString(b, item.v)
    [] item.kind = "double" -> PutDouble(b, item.v)

PutAll(b, items) ==
  LET after[n \in 0 .. Len(items)] ==
        IF n = 0 THEN b ELSE Put(after[n - 1], items[n])
  IN after[Len(items)]

-------------------------------------------------------------------------------
(* What every section of a ruleset consists of. *)

(* dres_save_targets: an empty chunk is one word; dependencies are counted *)
(* with their terminator, which is not written.                            *)
CodeItems(c) == IF c = <<>> THEN <<Word(0)>> ELSE <<Word(Len(c)), Word(Len(c)), Code(c)>>

TargetItems(id, t) ==
  <<Word(id), String(t.name), Word(Len(t.prereqs))>> \o Words(t.prereqs)
    \o CodeItems(t.code) \o <<Word(Len(t.dependencies) + 1)>> \o Words(t.dependencies)

(* save_initializers *)
ValueItem(v) ==
  CASE v.type = "integer" -> Word(v.v)
    [] v.type = "string"  -> String(v.v)
    [] v.type = "double"  -> Double(v.v)

(* DRES_TYPE_* on disk; 0 is DRES_TYPE_UNKNOWN. *)
TypeNames == <<"nil", "integer", "double", "string">>
TypeCode(type) == CHOOSE i \in DOMAIN TypeNames : TypeNames[i] = type

FieldItems(f) == <<String(f.name), Word(TypeCode(f.value.type)), ValueItem(f.value)>>
FieldsItems(fs) == FlattenSeq([i \in DOMAIN fs |-> FieldItems(fs[i])])
InitItems(init) ==
  <<Word(init.variable), Word(Len(init.fields))>> \o FieldsItems(init.fields)

(* dres_save_factvars, dres_save_dresvars, save_methods *)
VariableItems(id, v) == <<Word(id), String(v.name), Word(v.flags)>>
NameItems(id, name) == <<Word(id), String(name)>>

Entries(sec, r) ==
  CASE sec = "targets"      -> [i \in DOMAIN r.targets  |-> TargetItems(i, r.targets[i])]
    [] sec = "factvars"     -> [i \in DOMAIN r.factvars |-> VariableItems(i, r.factvars[i])]
    [] sec = "dresvars"     -> [i \in DOMAIN r.dresvars |-> NameItems(i, r.dresvars[i])]
    [] sec = "initializers" -> [i \in DOMAIN r.initializers |-> InitItems(r.initializers[i])]
    [] sec = "methods"      -> [i \in DOMAIN r.methods  |-> NameItems(i, r.methods[i])]

Items(sec, r) == <<Word(Len(Entries(sec, r)))>> \o FlattenSeq(Entries(sec, r))

-------------------------------------------------------------------------------
(* The header sizes the memory that the loader gets.  Prerequisites are    *)
(* counted as targets.                                                     *)

Total(counts) ==
  LET sum[n \in 0 .. Len(counts)] == IF n = 0 THEN 0 ELSE sum[n - 1] + counts[n]
  IN sum[Len(counts)]

(* Deviation: targets only. *)
CountTargetsOnly(r) == Len(r.targets)
CountTargets(r) ==
  Len(r.targets) + Total([i \in DOMAIN r.targets |-> Len(r.targets[i].prereqs)])

Header(r) ==
  LET OfTargets(Count(_)) == Total([i \in DOMAIN r.targets |-> Count(r.targets[i])])
  IN [ntarget     |-> CountTargets(r),
      ncode       |-> OfTargets(LAMBDA t : IF t.code = <<>> THEN 0 ELSE 1),
      sinstr      |-> OfTargets(LAMBDA t : Len(t.code)),
      ndependency |-> OfTargets(LAMBDA t : Len(t.dependencies) + 1),
      nvariable   |-> Len(r.factvars) + Len(r.dresvars),
      ninit       |-> Len(r.initializers),
      nfield      |-> Total([i \in DOMAIN r.initializers |-> Len(r.initializers[i].fields)]),
      nmethod     |-> Len(r.methods)]

(* The words of the structures of dres.h and vm.h. *)
TargetSize == 9
PrereqSize == 2
ChunkSize == 4
VariableSize == 6
InitializerSize == 3
FieldSize == 5
MethodSize == 4

ArenaSize(h) ==
  TargetSize * h.ntarget + ChunkSize * h.ncode + h.sinstr + h.ndependency
    + VariableSize * h.nvariable + InitializerSize * h.ninit + FieldSize * h.nfield
    + MethodSize * h.nmethod

-------------------------------------------------------------------------------
(* dres_buf_*: reading.  A read past the end gives 0, or no string, and    *)
(* sets the error to errno: the calls before it may have left that at 0.   *)
(* Every reader returns the buffer and the value; a failed buffer stands   *)
(* for the function having returned ENOMEM.                                *)

OpenBuffer(f, errno) ==
  [data |-> f.data, strings |-> f.strings, room |-> ArenaSize(f.header),
   errno |-> errno, error |-> FALSE, failed |-> FALSE]

Pair(b, v) == [b |-> b, v |-> v]
NoString == "none"

ReadWord(b) ==
  IF b.data = <<>> THEN Pair([b EXCEPT !.error = b.errno], 0)
                   ELSE Pair([b EXCEPT !.data = Tail(@)], Head(b.data))

ReadString(b) ==
  IF b.data = <<>> THEN Pair([b EXCEPT !.error = b.errno], NoString)
  ELSE LET offset == Head(b.data)
           rest   == [b EXCEPT !.data = Tail(@)]
       IN CASE offset = 0             -> Pair(rest, "")
            [] offset > Len(b.strings) -> Pair([rest EXCEPT !.error = TRUE], NoString)
            [] OTHER                  -> Pair(rest, b.strings[offset])

ReadDouble(b) ==
  LET int == ReadWord(b)
      dec == ReadWord(int.b)
      sign == IF int.v < 0 THEN -1 ELSE 1
  IN Pair(dec.b, IF Len(b.data) < 2 THEN 0 ELSE 10000 * int.v + sign * 10 * dec.v)

(* Deviation: an earlier error does not matter.                            *)
ReserveAnyway(b, n) ==
  IF b.failed \/ b.room < n THEN [b EXCEPT !.error = TRUE, !.failed = TRUE]
                            ELSE [b EXCEPT !.room = @ - n]

(* dres_buf_alloc on the memory that the header has sized. *)
Reserve(b, n) ==
  IF b.failed \/ b.error \/ b.room < n THEN [b EXCEPT !.error = TRUE, !.failed = TRUE]
                                       ELSE [b EXCEPT !.room = @ - n]

(* n times R; nothing is read after a failure. *)
ReadMore(acc, R(_)) ==
  IF acc.b.failed THEN acc
  ELSE LET x == R(acc.b) IN Pair(x.b, Append(acc.v, x.v))

ReadMany(b, n, R(_)) ==
  LET read[i \in 0 .. n] == IF i = 0 THEN Pair(b, <<>>) ELSE ReadMore(read[i - 1], R)
  IN read[n]

(* An array of n elements of the given size, allocated in one piece. *)
ReadArray(b, n, size, R(_)) == ReadMany(Reserve(b, n * size), n, R)

(* dres_buf_rbuf *)
ReadBlock(b, n) ==
  LET r == Reserve(b, n) IN
  IF Len(r.data) < n THEN Pair([r EXCEPT !.data = <<>>, !.error = b.errno], <<>>)
  ELSE Pair([r EXCEPT !.data = SubSeq(@, n + 1, Len(@))], SubSeq(r.data, 1, n))

(* dres_load_targets *)
ReadCode(b) ==
  LET ninstr == ReadWord(b)
      nsize  == ReadWord(Reserve(ninstr.b, ChunkSize))
  IN IF ninstr.v <= 0 THEN Pair(ninstr.b, <<>>)
                      ELSE ReadBlock(nsize.b, nsize.v)

ReadTarget(b) ==
  LET id      == ReadWord(b)
      name    == ReadString(id.b)
      nid     == ReadWord(name.b)
      prereqs == IF nid.v <= 0 THEN Pair(nid.b, <<>>)
                 ELSE ReadArray(Reserve(nid.b, PrereqSize), nid.v, 1, ReadWord)
      code    == ReadCode(prereqs.b)
      ndep    == ReadWord(code.b)
      deps    == IF ndep.v <= 0 THEN Pair(ndep.b, <<>>)
                 ELSE ReadMany(Reserve(ndep.b, ndep.v), ndep.v - 1, ReadWord)
  IN Pair(deps.b, [name |-> name.v, prereqs |-> prereqs.v, code |-> code.v,
                   dependencies |-> deps.v])

(* dres_load_factvars, dres_load_dresvars, load_methods *)
ReadFactvar(b) ==
  LET id == ReadWord(b)  name == ReadString(id.b)  flags == ReadWord(name.b)
  IN Pair(flags.b, [name |-> name.v, flags |-> flags.v])

ReadName(b) == ReadString(ReadWord(b).b)

(* load_initializers *)
ReadValue(b, code) ==
  LET type == IF code = 0 THEN "unknown" ELSE TypeNames[code]
      x == CASE type = "integer" -> ReadWord(b)
             [] type = "string"  -> ReadString(b)
             [] type = "double"  -> ReadDouble(b)
             [] OTHER            -> Pair(b, 0)
  IN Pair(x.b, [type |-> type, v |-> x.v])

ReadField(b) ==
  LET name  == ReadString(Reserve(b, FieldSize))
      type  == ReadWord(name.b)
      value == ReadValue(type.b, type.v)
  IN Pair(value.b, [name |-> name.v, value |-> value.v])

ReadInitializer(b) ==
  LET variable == ReadWord(Reserve(b, InitializerSize))
      nfield   == ReadWord(variable.b)
      fields   == ReadMany(nfield.b, nfield.v, ReadField)
  IN Pair(fields.b, [variable |-> variable.v, fields |-> fields.v])

ReadSection(sec, b) ==
  LET n == ReadWord(b) IN
  CASE sec = "targets"      -> ReadArray(n.b, n.v, TargetSize, ReadTarget)
    [] sec = "factvars"     -> ReadArray(n.b, n.v, VariableSize, ReadFactvar)
    [] sec = "dresvars"     -> ReadArray(n.b, n.v, VariableSize, ReadName)
    [] sec = "initializers" -> ReadMany(n.b, n.v, ReadInitializer)
    [] sec = "methods"      -> ReadArray(n.b, n.v, MethodSize, ReadName)

(* The first three return the error of the buffer as well. *)
ReportsErrors == {"targets", "factvars", "dresvars"}

-------------------------------------------------------------------------------
(* dresc --compile --save *)

EmptyRuleset ==
  [targets |-> <<>>, factvars |-> <<>>, dresvars |-> <<>>, initializers |-> <<>>,
   methods |-> <<>>]

Init ==
  /\ ruleset \in Rulesets
  /\ phase = "saving" /\ section = 1 /\ who = "dresc"
  /\ buf = NewBuffer(InitialSize) /\ file = NoFile /\ status = "none"
  /\ load = OpenBuffer([NoFile EXCEPT !.header = Header(EmptyRuleset)], FALSE)
  /\ got = EmptyRuleset /\ source = "none" /\ created = <<>>

(* Only dres_save_targets returns the error of the buffer. *)
SaveSection ==
  LET b == PutAll(buf, Items(Sections[section], ruleset)) IN
  /\ phase = "saving"
  /\ ~(Sections[section] = "targets" /\ b.error)
  /\ buf' = b
  /\ section' = IF section = Len(Sections) THEN 1 ELSE section + 1
  /\ phase' = IF section = Len(Sections) THEN "writing" ELSE "saving"
  /\ UNCHANGED <<ruleset, who, file, status, loadVars>>
TargetsDoNotFit ==
  /\ phase = "saving" /\ Sections[section] = "targets"
  /\ PutAll(buf, Items("targets", ruleset)).error

SaveAgain ==
  /\ TargetsDoNotFit /\ buf.size < MaxSize
  /\ buf' = NewBuffer(2 * buf.size)
  /\ UNCHANGED <<ruleset, phase, section, who, file, status, loadVars>>
GiveUp ==
  /\ TargetsDoNotFit /\ buf.size >= MaxSize
  /\ status' = "ENOMEM" /\ phase' = "ended"
  /\ UNCHANGED <<ruleset, section, who, buf, file, loadVars>>

(* The status stays 0 if fopen or fwrite fails; fclose is not looked at,   *)
(* and what it could not flush is missing from the file.                   *)
WriteFile ==
  /\ phase = "writing"
  /\ status' = "ok" /\ phase' = "saved"
  /\ \/ file' = NoFile
     \/ \E n \in 0 .. Len(buf.data) :
          file' = [data |-> SubSeq(buf.data, 1, n), strings |-> buf.strings,
                   header |-> Header(ruleset)]
  /\ UNCHANGED <<ruleset, section, who, buf, loadVars>>

(* dresc without --test *)
DoNotTest ==
  /\ phase = "saved" /\ phase' = "ended"
  /\ UNCHANGED <<ruleset, section, who, saveVars, loadVars>>

(* The daemon looks for the file whatever dresc has made of it. *)
StartDaemon ==
  /\ phase \in {"ended", "crashed"} /\ who = "dresc"
  /\ who' = "daemon" /\ phase' = "opening" /\ created' = <<>> /\ source' = "none"
  /\ UNCHANGED <<ruleset, section, saveVars, load, got>>

-------------------------------------------------------------------------------
(* dres_load *)

Test ==
  /\ phase = "saved" /\ phase' = "opening"
  /\ UNCHANGED <<ruleset, section, who, saveVars, loadVars>>

Open ==
  /\ phase = "opening" /\ file # NoFile
  /\ \E errno \in BOOLEAN : load' = OpenBuffer(file, errno)
  /\ got' = EmptyRuleset /\ section' = 1 /\ phase' = "loading"
  /\ UNCHANGED <<ruleset, who, saveVars, source, created>>

OpenFails ==
  /\ phase = "opening" /\ file = NoFile
  /\ phase' = "failed"
  /\ UNCHANGED <<ruleset, section, who, saveVars, loadVars>>

LoadSection ==
  LET sec == Sections[section]
      x   == ReadSection(sec, load)
      failed == x.b.failed \/ (sec \in ReportsErrors /\ x.b.error)
  IN
  /\ phase = "loading"
  /\ load' = x.b /\ got' = [got EXCEPT ![sec] = x.v]
  /\ section' = IF section = Len(Sections) THEN 1 ELSE section + 1
  /\ phase' = CASE failed                  -> "failed"
                [] ~failed /\ section = Len(Sections) -> "registering"
                [] OTHER                   -> "loading"
  /\ UNCHANGED <<ruleset, who, saveVars, source, created>>

(* Deviation: missing methods are added like any others. *)
RegisterMissing ==
  /\ phase = "registering" /\ phase' = "initializing"
  /\ UNCHANGED <<ruleset, section, who, saveVars, loadVars>>

(* dres_register_builtins sets the handlers of methods that are there; to  *)
(* add one it reallocates the array inside the memory of dres_t, and       *)
(* compares with the missing names: the process does not survive.          *)
RegisterBuiltins ==
  /\ phase = "registering"
  /\ phase' = IF Builtins \subseteq ToSet(got.methods) THEN "initializing" ELSE "crashed"
  /\ UNCHANGED <<ruleset, section, who, saveVars, loadVars>>

(* initialize_variables: create_variable for one initializer after the     *)
(* other, until one has a field without a value.                           *)
FactName(r, init) ==
  IF init.variable = 0 THEN "invalid id" ELSE r.factvars[init.variable].name
Complete(init) == \A i \in DOMAIN init.fields : init.fields[i].value.type # "unknown"
FactNames(r, inits) == [i \in DOMAIN inits |-> FactName(r, inits[i])]
CreatedBy(r) ==
  LET incomplete == {i \in DOMAIN r.initializers : ~Complete(r.initializers[i])}
      n == IF incomplete = {} THEN Len(r.initializers) ELSE Min(incomplete) - 1
  IN FactNames(r, SubSeq(r.initializers, 1, n))

InitializeVariables ==
  LET ok == \A i \in DOMAIN got.initializers : Complete(got.initializers[i]) IN
  /\ phase = "initializing"
  /\ created' = created \o CreatedBy(got)
  /\ phase' = CASE ~ok             -> "failed"
                [] ok /\ who = "dresc" -> "ended"
                [] OTHER           -> "running"
  /\ source' = IF ok THEN "file" ELSE source
  /\ UNCHANGED <<ruleset, section, who, saveVars, load, got>>

(* Deviation: the file is tried again. *)
LoadAgain ==
  /\ phase = "failed"
  /\ phase' = IF who = "dresc" THEN "ended" ELSE "opening"
  /\ UNCHANGED <<ruleset, section, who, saveVars, loadVars>>

(* dresc ends with an error and leaves the file; dres_open parses the      *)
(* text, which creates the facts of all its initializers.                  *)
LoadFails ==
  /\ phase = "failed"
  /\ IF who = "dresc"
       THEN phase' = "ended" /\ UNCHANGED <<got, source, created>>
       ELSE /\ phase' = "running" /\ got' = ruleset /\ source' = "text"
            /\ created' = created \o FactNames(ruleset, ruleset.initializers)
  /\ UNCHANGED <<ruleset, section, who, saveVars, load>>

Finished == who = "daemon" /\ phase \in {"running", "crashed"}
Stay == Finished /\ UNCHANGED vars

Next ==
  \/ SaveSection \/ SaveAgain \/ GiveUp \/ WriteFile \/ DoNotTest \/ StartDaemon
  \/ Test \/ Open \/ OpenFails \/ LoadSection \/ RegisterBuiltins
  \/ InitializeVariables \/ LoadFails \/ Stay

(* Weak fairness of Next, written without ENABLED: every state in which    *)
(* there is nothing to do is finished, or it would be a deadlock.          *)
Fairness == []<>Finished \/ []<><<Next>>_vars

Spec == Init /\ [][Next]_vars /\ Fairness

-------------------------------------------------------------------------------
(* Properties *)

(* The kinds of values that the variables take. *)
TypeOK ==
  /\ ruleset \in Rulesets
  /\ phase \in {"saving", "writing", "saved", "ended", "opening", "loading", "failed",
                "registering", "initializing", "running", "crashed"}
  /\ section \in DOMAIN Sections
  /\ buf.size \in Nat /\ buf.error \in BOOLEAN
  /\ Len(buf.data) <= buf.size /\ Len(buf.strings) < buf.size
  /\ status \in {"none", "ok", "ENOMEM"}
  /\ who \in {"dresc", "daemon"} /\ source \in {"none", "file", "text"}
  /\ DOMAIN got = DOMAIN EmptyRuleset

Cut   == file # NoFile /\ file.data # buf.data
Whole == file # NoFile /\ ~Cut /\ ~buf.error

(* Doubles keep three decimals, negative ones do not survive (dres_buf_wdbl *)
(* and dres_buf_rdbl); everything else is what it was.                      *)
SameValue(v, w) ==
  /\ v.type = w.type
  /\ IF v.type = "double" THEN v.v >= 0 => w.v \in v.v - 10 .. v.v ELSE v.v = w.v
SameField(f, g) == f.name = g.name /\ SameValue(f.value, g.value)
SameInitializer(i, j) ==
  /\ i.variable = j.variable /\ Len(i.fields) = Len(j.fields)
  /\ \A k \in DOMAIN i.fields : SameField(i.fields[k], j.fields[k])
SameInitializers(is, js) ==
  Len(is) = Len(js) /\ \A k \in DOMAIN is : SameInitializer(is[k], js[k])
SameBut(r, s, except) ==
  \A sec \in DOMAIN EmptyRuleset \ except :
    IF sec = "initializers" THEN SameInitializers(r[sec], s[sec]) ELSE r[sec] = s[sec]

(* What the daemon runs is the ruleset that dresc was given, if all of it  *)
(* is in the file: writer and reader agree on every section, and the text  *)
(* is the same ruleset anyway (dres_save, dres_load).                      *)
LoadedIsSaved == Whole /\ source # "none" => SameBut(ruleset, got, {})

(* The header makes the loader's memory large enough for what the file     *)
(* holds, so that a file that is whole never falls back on the text        *)
(* (compiler.c: the sizes; target.c: prerequisites counted as targets).    *)
WholeFileLoads == Whole => source # "text" /\ phase \notin {"failed", "crashed"}

(* If errno is set when it is opened, a file that lacks something is not   *)
(* taken, and does no harm: the error of the first read past its end is    *)
(* returned by the section or makes the next allocation fail.  Only the    *)
(* methods come after the last allocation (dres_buf_alloc, its readers).   *)
ShortFileIsRefused ==
  load.errno /\ (source = "file" \/ phase = "crashed")
    => SameBut(ruleset, got, {"methods"})

(* The facts of the initializers are created exactly once: a file that is  *)
(* refused has not created any before the text does (dres_open).           *)
FactsCreatedOnce ==
  phase = "running" => created = FactNames(ruleset, ruleset.initializers)

(* dresc gives up or saves, and the daemon gets a ruleset or is gone.      *)
DaemonStarts == <>Finished
================================================================================
