----------------------------- MODULE MethodsProofs -----------------------------
(***************************************************************************)
(* Theorems about module Methods, for any builtins, names and plugins.     *)
(***************************************************************************)
EXTENDS Methods, SequenceTheorems, TLAPS

Phase == {"init", "parsing", "open", "final", "loading"}
Provider == {"none", "library"} \cup Plugins
Method == [name : AllNames, handler : Provider]

(* No name has two entries. *)
Unique(tab) == \A i, j \in DOMAIN tab : tab[i].name = tab[j].name => i = j

MethodsTyped ==
  /\ phase \in Phase /\ builtin \in Nat \ {0} /\ compiled \in BOOLEAN
  /\ methods \in Seq(Method) /\ Unique(methods)
  /\ default \notin Plugins
  /\ phase \notin {"init", "loading"} => default = "fallback_call"
  /\ granted \in [AllNames -> Provider]
  /\ called \subseteq AllNames
  /\ phase \in {"init", "parsing", "loading"} => ~compiled

(* Every entry holds the handler that was granted to its name, and a name  *)
(* without entry has none, but for registrations that a precompiled        *)
(* ruleset ignores.                                                        *)
TableGranted ==
  /\ \A i \in DOMAIN methods : methods[i].handler = granted[methods[i].name]
  /\ ~compiled => \A n \in AllNames : Known(methods, n) \/ granted[n] = "none"

(* The ids in the byte code are those of the called names. *)
CodeSound ==
  /\ \A n \in called : Known(methods, n)
  /\ phase \in {"final", "loading"} =>
       \A n \in called : code[n] \in DOMAIN methods /\ methods[code[n]].name = n

MInv == MethodsTyped /\ TableGranted /\ CodeSound

-------------------------------------------------------------------------------
LEMMA EntryNamed ==
  ASSUME NEW tab \in Seq(Method), NEW i \in DOMAIN tab
  PROVE  tab[i].name \in AllNames
<1>1. tab[i] \in Method
  OBVIOUS
<1> QED
  BY <1>1 DEF Method

(* vm_method_lookup finds the only entry of a name. *)
LEMMA LookupEntry ==
  ASSUME NEW tab \in Seq(Method), Unique(tab), NEW i \in DOMAIN tab
  PROVE  Lookup(tab, tab[i].name) = i
<1>1. DOMAIN tab = 1..Len(tab) /\ Len(tab) \in Nat
  OBVIOUS
<1>2. /\ tab[i].name = tab[i].name
      /\ \A j \in DOMAIN tab : tab[j].name = tab[i].name => i <= j
  BY <1>1 DEF Unique
<1>3. \A k \in DOMAIN tab : tab[k].name = tab[i].name => k = i
  BY DEF Unique
<1> QED
  BY <1>2, <1>3 DEF Lookup

LEMMA LookupKnown ==
  ASSUME NEW tab \in Seq(Method), Unique(tab), NEW n, Known(tab, n)
  PROVE  Lookup(tab, n) \in DOMAIN tab /\ tab[Lookup(tab, n)].name = n
<1>1. PICK i \in DOMAIN tab : tab[i].name = n
  BY DEF Known
<1> QED
  BY <1>1, LookupEntry

(* An entry for a new name goes to the end of the table. *)
LEMMA Appended ==
  ASSUME NEW tab \in Seq(Method), Unique(tab), NEW n \in AllNames, ~Known(tab, n)
  PROVE  LET grown == Append(tab, [name |-> n, handler |-> "none"])
         IN /\ grown \in Seq(Method) /\ Unique(grown) /\ Known(grown, n)
            /\ Len(grown) = Len(tab) + 1
            /\ \A i \in DOMAIN tab : i \in DOMAIN grown /\ grown[i] = tab[i]
            /\ \A i \in DOMAIN grown :
                 \/ i \in DOMAIN tab
                 \/ grown[i].name = n /\ grown[i].handler = "none"
<1> DEFINE m == [name |-> n, handler |-> "none"]
           grown == Append(tab, m)
<1>1. m \in Method /\ m.name = n /\ m.handler = "none"
  BY DEF Method, Provider
<1> HIDE DEF m
<1>2. /\ grown \in Seq(Method) /\ Len(grown) = Len(tab) + 1
      /\ \A i \in 1..Len(tab) : grown[i] = tab[i]
      /\ grown[Len(tab) + 1] = m
  BY <1>1, AppendProperties
<1>3. /\ DOMAIN tab = 1..Len(tab) /\ DOMAIN grown = 1..(Len(tab) + 1)
      /\ Len(tab) \in Nat
  BY <1>2
<1> HIDE DEF grown
<1>4. \A i \in DOMAIN tab : i \in DOMAIN grown /\ grown[i] = tab[i]
  BY <1>2, <1>3
<1>5. \A i \in DOMAIN grown : i \in DOMAIN tab \/ i = Len(tab) + 1
  BY <1>3
<1>6. \A i \in DOMAIN tab : tab[i].name # n
  BY DEF Known
<1>7. Unique(grown)
  BY <1>1, <1>2, <1>4, <1>5, <1>6 DEF Unique
<1>8. Known(grown, n)
  BY <1>1, <1>2, <1>3 DEF Known
<1>9. \A i \in DOMAIN grown :
        \/ i \in DOMAIN tab
        \/ grown[i].name = n /\ grown[i].handler = "none"
  BY <1>1, <1>2, <1>5
<1> QED
  BY <1>2, <1>4, <1>7, <1>8, <1>9 DEF grown, m

(* What vm_method_add makes of the table. *)
LEMMA AddSound ==
  ASSUME NEW tab \in Seq(Method), Unique(tab), NEW n \in AllNames,
         NEW h \in Provider, NEW old \in [AllNames -> Provider],
         \A i \in DOMAIN tab : tab[i].handler = old[tab[i].name],
         Known(tab, n) \/ old[n] = "none"
  PROVE  LET new == Add(tab, n, h)
             granting == IF h = "none" THEN old ELSE [old EXCEPT ![n] = h]
         IN /\ new \in Seq(Method) /\ Unique(new) /\ Known(new, n)
            /\ \A i \in DOMAIN tab : i \in DOMAIN new /\ new[i].name = tab[i].name
            /\ \A i \in DOMAIN new : new[i].handler = granting[new[i].name]
<1> DEFINE grown == IF Known(tab, n) THEN tab
                    ELSE Append(tab, [name |-> n, handler |-> "none"])
           granting == IF h = "none" THEN old ELSE [old EXCEPT ![n] = h]
           k == Lookup(grown, n)
           set == [grown EXCEPT ![k].handler = h]
<1>1. /\ grown \in Seq(Method) /\ Unique(grown) /\ Known(grown, n)
      /\ \A i \in DOMAIN tab : i \in DOMAIN grown /\ grown[i].name = tab[i].name
      /\ \A i \in DOMAIN grown : grown[i].handler = old[grown[i].name]
  <2>1. CASE Known(tab, n)
    BY <2>1
  <2>2. CASE ~Known(tab, n)
    BY <2>2, Appended
  <2> QED
    BY <2>1, <2>2
<1> HIDE DEF grown
<1>2. Add(tab, n, h) = IF h = "none" THEN grown ELSE set
  BY DEF Add, grown
<1>3. CASE h = "none"
  BY <1>1, <1>2, <1>3
<1>4. CASE h # "none"
  <2>1. k \in DOMAIN grown /\ grown[k].name = n
    BY <1>1, LookupKnown
  <2>2. \A i \in DOMAIN grown : grown[i] \in Method
    BY <1>1
  <2> HIDE DEF k
  <2>3. /\ DOMAIN set = DOMAIN grown /\ Len(set) = Len(grown)
        /\ \A i \in DOMAIN grown :
             set[i] = IF i = k THEN [grown[i] EXCEPT !.handler = h] ELSE grown[i]
    BY <1>1, <2>1
  <2>4. \A i \in DOMAIN grown :
          /\ set[i] \in Method /\ set[i].name = grown[i].name
          /\ set[i].handler = IF i = k THEN h ELSE grown[i].handler
    BY <2>2, <2>3 DEF Method
  <2>5. set \in Seq(Method)
    <3>1. k \in 1..Len(grown) /\ [grown[k] EXCEPT !.handler = h] \in Method
      BY <1>1, <2>1, <2>3, <2>4
    <3> QED
      BY <3>1, <1>1, ExceptSeq
  <2> HIDE DEF set
  <2>6. Unique(set) /\ Known(set, n)
    BY <1>1, <2>1, <2>3, <2>4 DEF Unique, Known
  <2>7. \A i \in DOMAIN set : set[i].handler = granting[set[i].name]
    <3> SUFFICES ASSUME NEW i \in DOMAIN set
                 PROVE  set[i].handler = granting[set[i].name]
      OBVIOUS
    <3>1. set[i].name \in AllNames
      BY <2>3, <2>4 DEF Method
    <3>2. CASE i = k
      BY <3>2, <2>1, <2>3, <2>4, <1>4
    <3>3. CASE i # k
      <4>1. grown[i].name # n
        BY <3>3, <1>1, <2>1, <2>3 DEF Unique
      <4> QED
        BY <3>1, <3>3, <4>1, <1>1, <1>4, <2>3, <2>4
    <3> QED
      BY <3>2, <3>3
  <2> QED
    BY <1>1, <1>2, <1>4, <2>3, <2>4, <2>5, <2>6, <2>7
<1> QED
  BY <1>3, <1>4

-------------------------------------------------------------------------------
LEMMA MethodsInit == Init => MInv
<1> SUFFICES ASSUME Init PROVE MInv
  OBVIOUS
<1>1. methods \in Seq(Method) /\ DOMAIN methods = {}
  BY EmptySeq DEF Init
<1>2. MethodsTyped
  <2>1. Unique(methods)
    BY <1>1 DEF Unique
  <2>2. default \notin Plugins
    BY MethodsAssumption DEF Init
  <2>3. granted \in [AllNames -> Provider]
    BY DEF Init, Provider
  <2>4. phase \in Phase /\ builtin \in Nat \ {0} /\ called \subseteq AllNames
    BY DEF Init, Phase
  <2>5. compiled \in BOOLEAN /\ ~compiled
    BY Zenon DEF Init
  <2>6. phase = "init"
    BY DEF Init
  <2> QED
    BY <1>1, <2>1, <2>2, <2>3, <2>4, <2>5, <2>6 DEF MethodsTyped
<1>3. TableGranted
  BY <1>1 DEF Init, TableGranted
<1>4. CodeSound
  BY DEF Init, CodeSound
<1> QED
  BY <1>2, <1>3, <1>4 DEF MInv

(* A handler is granted to a name by vm_method_add: the ids stay.          *)
LEMMA GrantSound ==
  ASSUME MInv, NEW n \in AllNames, NEW h \in Provider \ {"none"},
         AddOK(methods, n), methods' = Add(methods, n, h),
         granted' = [granted EXCEPT ![n] = h],
         Known(methods, n) \/ ~compiled,
         UNCHANGED <<phase, compiled, default, called, code>>,
         builtin' \in Nat \ {0}
  PROVE  MInv'
<1>1. Known(methods, n) \/ granted[n] = "none"
  BY DEF MInv, TableGranted
<1>2. /\ methods' \in Seq(Method) /\ Unique(methods') /\ Known(methods', n)
      /\ \A i \in DOMAIN methods :
           i \in DOMAIN methods' /\ methods'[i].name = methods[i].name
      /\ \A i \in DOMAIN methods' : methods'[i].handler = granted'[methods'[i].name]
  <2>1. h \in Provider /\ h # "none"
    OBVIOUS
  <2> QED
    BY <1>1, <2>1, AddSound DEF MInv, MethodsTyped, TableGranted
<1>3. granted' \in [AllNames -> Provider]
  BY DEF MInv, MethodsTyped
<1>4. \A x \in AllNames : Known(methods, x) => Known(methods', x)
  BY <1>2 DEF Known
<1>5. MethodsTyped'
  BY <1>2, <1>3 DEF MInv, MethodsTyped
<1>6. TableGranted'
  <2>1. \A x \in AllNames : x # n => granted'[x] = granted[x]
    BY DEF MInv, MethodsTyped
  <2> QED
    BY <1>2, <1>4, <2>1 DEF MInv, TableGranted
<1>7. CodeSound'
  BY <1>2, <1>4 DEF MInv, MethodsTyped, CodeSound
<1> QED
  BY <1>5, <1>6, <1>7 DEF MInv

(* Handlers get lost when a ruleset is saved and loaded, ids and names not. *)
LEMMA SavedSound ==
  ASSUME NEW tab \in Seq(Method), Unique(tab)
  PROVE  LET saved == SavedTable(tab)
         IN /\ saved \in Seq(Method) /\ Unique(saved) /\ DOMAIN saved = DOMAIN tab
            /\ \A i \in DOMAIN saved :
                 saved[i].name = tab[i].name /\ saved[i].handler = "none"
<1> DEFINE saved == SavedTable(tab)
<1>1. /\ DOMAIN tab = 1..Len(tab) /\ Len(tab) \in Nat
      /\ \A i \in DOMAIN tab : tab[i] \in Method
  OBVIOUS
<1>2. /\ DOMAIN saved = DOMAIN tab
      /\ \A i \in DOMAIN tab : /\ saved[i] \in Method
                              /\ saved[i].name = tab[i].name
                              /\ saved[i].handler = "none"
  BY <1>1 DEF SavedTable, Method, Provider
<1> HIDE DEF saved
<1>3. saved = [i \in 1..Len(tab) |-> saved[i]]
  BY <1>1 DEF saved, SavedTable
<1>4. saved \in Seq(Method)
  BY <1>1, <1>2, <1>3, IsASeq
<1>5. Unique(saved)
  BY <1>2 DEF Unique
<1> QED
  BY <1>2, <1>4, <1>5 DEF saved

LEMMA MethodsStep == MInv /\ [Next]_vars => MInv'
<1> SUFFICES ASSUME MInv, [Next]_vars PROVE MInv'
  OBVIOUS
<1>1. CASE RegisterBuiltin
  <2>1. Builtins[builtin] \in AllNames /\ builtin' \in Nat \ {0}
    BY <1>1 DEF RegisterBuiltin, AllNames, ToSet, MInv, MethodsTyped
  <2>2. "library" \in Provider \ {"none"}
    BY DEF Provider
  <2>3. /\ AddOK(methods, Builtins[builtin])
        /\ methods' = Add(methods, Builtins[builtin], "library")
        /\ granted' = [granted EXCEPT ![Builtins[builtin]] = "library"]
        /\ UNCHANGED <<phase, compiled, default, called, code>>
    BY <1>1 DEF RegisterBuiltin
  <2>4. ~compiled
    BY <1>1 DEF RegisterBuiltin, MInv, MethodsTyped
  <2> DEFINE n == Builtins[builtin]
  <2> HIDE DEF n
  <2> QED
    BY <2>1, <2>2, <2>3, <2>4, GrantSound DEF n
<1>2. CASE BuiltinsDone
  BY <1>2, MethodsAssumption
     DEF BuiltinsDone, MInv, MethodsTyped, TableGranted, CodeSound, Phase, history
<1>3. CASE Parsed
  BY <1>3 DEF Parsed, MInv, MethodsTyped, TableGranted, CodeSound, Phase, history
<1>4. CASE Finalize
  <2>1. \A n \in called : /\ code'[n] \in DOMAIN methods
                          /\ methods[code'[n]].name = n
    BY <1>4, LookupKnown DEF Finalize, MInv, MethodsTyped, CodeSound
  <2> QED
    BY <1>4, <2>1
       DEF Finalize, MInv, MethodsTyped, TableGranted, CodeSound, Phase, history
<1>5. CASE SaveAndLoad
  <2>1. /\ methods' \in Seq(Method) /\ Unique(methods')
        /\ DOMAIN methods' = DOMAIN methods
        /\ \A i \in DOMAIN methods' : /\ methods'[i].name = methods[i].name
                                     /\ methods'[i].handler = "none"
    BY <1>5, SavedSound DEF SaveAndLoad, MInv, MethodsTyped
  <2>2. granted' = [n \in AllNames |-> "none"]
    BY <1>5 DEF SaveAndLoad
  <2>3. \A i \in DOMAIN methods' : methods'[i].name \in AllNames
    BY <2>1, EntryNamed DEF MInv, MethodsTyped
  <2>4. MethodsTyped'
    BY <1>5, <2>1, <2>2, MethodsAssumption
       DEF SaveAndLoad, MInv, MethodsTyped, Phase, Provider
  <2>5. TableGranted'
    BY <2>1, <2>2, <2>3 DEF TableGranted
  <2>6. CodeSound'
    BY <1>5, <2>1 DEF SaveAndLoad, MInv, CodeSound, Known
  <2> QED
    BY <2>4, <2>5, <2>6 DEF MInv
<1>6. ASSUME NEW n \in AllNames, ParseCall(n) PROVE MInv'
  <2>1. granted' = granted /\ called' = called \cup {n}
    BY <1>6 DEF ParseCall, history
  <2>2. Known(methods, n) \/ granted[n] = "none"
    BY <1>6 DEF ParseCall, MInv, MethodsTyped, TableGranted
  <2>3. /\ methods' \in Seq(Method) /\ Unique(methods') /\ Known(methods', n)
        /\ \A i \in DOMAIN methods :
             i \in DOMAIN methods' /\ methods'[i].name = methods[i].name
        /\ \A i \in DOMAIN methods' : methods'[i].handler = granted[methods'[i].name]
    <3>1. CASE AddOK(methods, n)
      <4>1. "none" \in Provider /\ methods' = Add(methods, n, "none")
        BY <1>6, <3>1 DEF ParseCall, Provider
      <4> QED
        BY <2>2, <4>1, AddSound DEF MInv, MethodsTyped, TableGranted
    <3>2. CASE ~AddOK(methods, n)
      <4>1. methods' = methods /\ Known(methods, n)
        BY <1>6, <3>2 DEF ParseCall, AddOK
      <4> QED
        BY <4>1 DEF MInv, MethodsTyped, TableGranted
    <3> QED
      BY <3>1, <3>2
  <2>4. \A x \in AllNames : Known(methods, x) => Known(methods', x)
    BY <2>3 DEF Known
  <2>5. MethodsTyped'
    BY <1>6, <2>1, <2>3 DEF ParseCall, MInv, MethodsTyped
  <2>6. TableGranted'
    BY <1>6, <2>1, <2>3, <2>4 DEF ParseCall, MInv, TableGranted
  <2>7. CodeSound'
    BY <1>6, <2>1, <2>3, <2>4 DEF ParseCall, MInv, MethodsTyped, CodeSound
  <2> QED
    BY <2>5, <2>6, <2>7 DEF MInv
<1>7. ASSUME NEW n \in AllNames, NEW p \in Plugins, Register(n, p) PROVE MInv'
  <2>1. p \in Provider \ {"none"}
    BY MethodsAssumption DEF Provider
  <2>2. CASE compiled /\ ~Known(methods, n)
    <3>1. methods' = methods /\ granted' = [granted EXCEPT ![n] = p]
      BY <1>7, <2>2 DEF Register
    <3>2. \A i \in DOMAIN methods : methods[i].name # n
      BY <2>2 DEF Known
    <3>3. /\ granted' \in [AllNames -> Provider]
          /\ \A x \in AllNames : x # n => granted'[x] = granted[x]
      BY <3>1, <2>1 DEF MInv, MethodsTyped
    <3>4. \A i \in DOMAIN methods : methods[i].name \in AllNames
      BY EntryNamed DEF MInv, MethodsTyped
    <3> QED
      BY <1>7, <2>2, <3>1, <3>2, <3>3, <3>4
         DEF Register, MInv, MethodsTyped, TableGranted, CodeSound
  <2>3. CASE ~(compiled /\ ~Known(methods, n))
    <3>1. /\ methods' = Add(methods, n, p) /\ AddOK(methods, n)
          /\ granted' = [granted EXCEPT ![n] = p]
          /\ UNCHANGED <<phase, compiled, default, called, code>>
          /\ builtin' \in Nat \ {0}
      BY <1>7, <2>3 DEF Register, RegisterOK, MInv, MethodsTyped
    <3> QED
      BY <2>1, <2>3, <3>1, GrantSound
  <2> QED
    BY <2>2, <2>3
<1>8. ASSUME NEW n \in AllNames, NEW p \in Plugins, RegisterRefused(n, p) PROVE MInv'
  BY <1>8 DEF RegisterRefused, vars, history, MInv, MethodsTyped, TableGranted, CodeSound
<1>9. ASSUME NEW n \in AllNames, NEW p \in Plugins, Unregister(n, p) PROVE MInv'
  BY <1>9 DEF Unregister, MInv, MethodsTyped, TableGranted, CodeSound
<1>10. ASSUME NEW n \in AllNames, NEW p \in Plugins, UnregisterUnknown(n, p)
       PROVE  MInv'
  <2>1. default' = default
    BY <1>10 DEF UnregisterUnknown, MInv, MethodsTyped
  <2> QED
    BY <1>10, <2>1
       DEF UnregisterUnknown, history, MInv, MethodsTyped, TableGranted, CodeSound
<1>11. ASSUME NEW p \in Plugins, SetFallback(p) PROVE MInv'
  BY <1>11 DEF SetFallback, history, MInv, MethodsTyped, TableGranted, CodeSound
<1>12. CASE UNCHANGED vars
  BY <1>12 DEF vars, history, MInv, MethodsTyped, TableGranted, CodeSound
<1> QED
  BY <1>1, <1>2, <1>3, <1>4, <1>5, <1>6, <1>7, <1>8, <1>9, <1>10, <1>11, <1>12
     DEF Next

(* The table has one entry for every name, which holds the handler granted *)
(* to it, and the byte code keeps the ids of the names it calls.           *)
THEOREM MethodsInductive == Spec => []MInv
  BY MethodsInit, MethodsStep, PTL DEF Spec

(* A call compiled to an id reaches the plugin or builtin that has the     *)
(* registration for the called name, and the fallback without one, however *)
(* parsing, registration, compilation, saving and loading are ordered      *)
(* (vm-method.c:47-117, 203, action.c:87-109).                             *)
THEOREM CallsReachHandlers == Spec => []CallReachesHandler
<1>1. MInv => CallReachesHandler
  BY MethodsAssumption
     DEF MInv, MethodsTyped, TableGranted, CodeSound, CallReachesHandler, Handles
<1> QED
  BY <1>1, MethodsInductive, PTL
================================================================================
