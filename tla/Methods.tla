-------------------------------- MODULE Methods --------------------------------
(***************************************************************************)
(* The method table of the virtual machine (src/vm-method.c) and what      *)
(* plugins and the compiler make of it: registration of handlers           *)
(* (src/action.c), the builtins and the fallback (src/builtin.c), the      *)
(* methods that rules call (src/parser.y, compile_call in src/compiler.c)  *)
(* and the table of a precompiled ruleset (save_methods, load_methods).    *)
(*                                                                         *)
(* A handler is named by who provides it: "library" for the builtins, or a *)
(* plugin.                                                                 *)
(***************************************************************************)
EXTENDS Naturals, Sequences, SequencesExt

CONSTANTS
  Builtins,   \* names of the builtin methods, a sequence without duplicates
  Names,      \* names of the other methods
  Plugins,    \* the plugins that register handlers
  MaxCalls    \* bound: different methods that the rules call

AllNames == ToSet(Builtins) \cup Names

ASSUME MethodsAssumption ==
  /\ IsInjective(Builtins) /\ ToSet(Builtins) \cap Names = {}
  /\ {"none", "library", "fallback_call", "unknown"} \cap Plugins = {}
  /\ MaxCalls \in Nat

VARIABLES
  phase,      \* "init", "parsing", "open", "final" (ACTIONS_FINALIZED) or "loading"
  builtin,    \* the builtin that dres_register_builtins registers next
  compiled,   \* COMPILED: the ruleset was loaded by dres_load
  methods,    \* vm->methods: name and handler, the position is the id
  default,    \* default_method.handler
  fallback,   \* dres->fallback
  called,     \* names of the methods that the rules call
  code,       \* the ids compiled into the byte code: [called -> id]
  granted,    \* history: whose registration succeeded first, for every name
  withdrawn   \* history: the names that were unregistered successfully

history == <<granted, withdrawn>>
vars == <<phase, builtin, compiled, methods, default, fallback, called, code, history>>

Init ==
  /\ phase = "init" /\ builtin = 1 /\ compiled = FALSE
  /\ methods = <<>> /\ default = "unknown" /\ fallback = "none"
  /\ called = {} /\ code = <<>>
  /\ granted = [n \in AllNames |-> "none"] /\ withdrawn = {}

-------------------------------------------------------------------------------
(* vm-method.c on a table tab.                                             *)

Known(tab, n) == \E i \in DOMAIN tab : tab[i].name = n

(* vm_method_lookup, for a known name: the first entry of that name. *)
Lookup(tab, n) ==
  CHOOSE i \in DOMAIN tab :
    tab[i].name = n /\ \A j \in DOMAIN tab : tab[j].name = n => i <= j

(* vm_method_add fails if another handler is there... *)
AddOK(tab, n) == Known(tab, n) => tab[Lookup(tab, n)].handler = "none"

(* ...appends an unknown name, and sets the handler unless it is NULL. *)
Add(tab, n, h) ==
  LET grown == IF Known(tab, n) THEN tab
               ELSE Append(tab, [name |-> n, handler |-> "none"])
  IN IF h = "none" THEN grown ELSE [grown EXCEPT ![Lookup(grown, n)].handler = h]

-------------------------------------------------------------------------------
(* dres_register_builtins, called by dres_init and by dres_load. *)
RegisterBuiltin ==
  /\ phase \in {"init", "loading"} /\ builtin <= Len(Builtins)
  /\ AddOK(methods, Builtins[builtin])
  /\ methods' = Add(methods, Builtins[builtin], "library")
  /\ granted' = [granted EXCEPT ![Builtins[builtin]] = "library"]
  /\ builtin' = builtin + 1
  /\ UNCHANGED <<phase, compiled, default, fallback, called, code, withdrawn>>

(* dres_load sets COMPILED after it has registered the builtins. *)
BuiltinsDone ==
  /\ phase \in {"init", "loading"} /\ builtin > Len(Builtins)
  /\ default' = "fallback_call"
  /\ IF phase = "init" THEN phase' = "parsing" /\ UNCHANGED compiled
                       ELSE phase' = "final" /\ compiled' = TRUE
  /\ UNCHANGED <<builtin, methods, fallback, called, code, history>>

(* The parser meets a method call: the name gets an entry without handler, *)
(* and EEXIST is no error.                                                 *)
ParseCall(n) ==
  /\ phase = "parsing" /\ Cardinality(called \cup {n}) <= MaxCalls
  /\ called' = called \cup {n}
  /\ methods' = IF AddOK(methods, n) THEN Add(methods, n, "none") ELSE methods
  /\ UNCHANGED <<phase, builtin, compiled, default, fallback, code, history>>

Parsed ==
  /\ phase = "parsing"
  /\ phase' = "open"
  /\ UNCHANGED <<builtin, compiled, methods, default, fallback, called, code,
                 history>>

(* finalize_actions: compile_call turns the names into ids. *)
Finalize ==
  /\ phase = "open"
  /\ phase' = "final"
  /\ code' = [n \in called |-> Lookup(methods, n)]
  /\ UNCHANGED <<builtin, compiled, methods, default, fallback, called, history>>

(* Deviation: methods of the library are not saved, they get registered anyway. *)
SavedWithoutBuiltins(tab) ==
  LET others == SelectSeq(tab, LAMBDA m : m.name \notin ToSet(Builtins))
  IN [i \in DOMAIN others |-> [others[i] EXCEPT !.handler = "none"]]

(* save_methods and load_methods: ids and names survive. *)
SavedTable(tab) == [i \in DOMAIN tab |-> [tab[i] EXCEPT !.handler = "none"]]

(* dresc has saved the finalized ruleset and exits, the daemon loads it.   *)
SaveAndLoad ==
  /\ phase = "final" /\ ~compiled
  /\ phase' = "loading" /\ builtin' = 1
  /\ methods' = SavedTable(methods)
  /\ default' = "unknown" /\ fallback' = "none"
  /\ granted' = [n \in AllNames |-> "none"] /\ withdrawn' = {}
  /\ UNCHANGED <<compiled, called, code>>

-------------------------------------------------------------------------------
(* What plugins do. *)

(* dres_register_handler succeeds: by vm_method_add for a ruleset in text  *)
(* form, by vm_method_set for a precompiled one, which takes a name that   *)
(* is not in the table for a success.                                      *)
RegisterOK(n) == AddOK(methods, n)

Register(n, p) ==
  /\ phase \in {"open", "final"}
  /\ RegisterOK(n)
  /\ methods' = IF compiled /\ ~Known(methods, n) THEN methods ELSE Add(methods, n, p)
  /\ granted' = [granted EXCEPT ![n] = p]
  /\ withdrawn' = withdrawn \ {n}
  /\ UNCHANGED <<phase, builtin, compiled, default, fallback, called, code>>

(* EEXIST is returned to the plugin. *)
RegisterRefused(n, p) ==
  /\ phase \in {"open", "final"}
  /\ ~RegisterOK(n)
  /\ UNCHANGED vars

(* dres_unregister_handler for a known name: vm_method_del returns ENOENT, *)
(* of which dres_unregister_handler makes a success.                       *)
Unregister(n, p) ==
  /\ phase \in {"open", "final"}
  /\ Known(methods, n)
  /\ withdrawn' = IF granted[n] = p THEN withdrawn \cup {n} ELSE withdrawn
  /\ UNCHANGED <<phase, builtin, compiled, methods, default, fallback, called,
                 code, granted>>

(* For an unknown name vm_method_del clears the default method, if its     *)
(* handler is the one that is given, and returns EINVAL otherwise.         *)
UnregisterUnknown(n, p) ==
  /\ phase \in {"open", "final"}
  /\ ~Known(methods, n)
  /\ default' = IF default = p THEN "none" ELSE default
  /\ UNCHANGED <<phase, builtin, compiled, methods, fallback, called, code, history>>

(* dres_fallback_handler *)
SetFallback(p) ==
  /\ phase \in {"open", "final"}
  /\ fallback' = p
  /\ UNCHANGED <<phase, builtin, compiled, methods, default, called, code, history>>

Next ==
  \/ RegisterBuiltin \/ BuiltinsDone \/ Parsed \/ Finalize \/ SaveAndLoad
  \/ \E n \in AllNames : ParseCall(n)
  \/ \E n \in AllNames, p \in Plugins :
       Register(n, p) \/ RegisterRefused(n, p) \/ Unregister(n, p)
         \/ UnregisterUnknown(n, p)
  \/ \E p \in Plugins : SetFallback(p)

Spec == Init /\ [][Next]_vars

-------------------------------------------------------------------------------
(* vm_method_call: who handles the call of id in the byte code: the        *)
(* handler of the method or the default method, by dres_fallback_call.     *)
Handles(id) ==
  IF methods[id].handler # "none" THEN methods[id].handler
  ELSE IF default = "fallback_call" THEN fallback ELSE "crash"

(* A call that was compiled to an id reaches the plugin whose registration *)
(* for the called name succeeded, and the fallback if there is none:       *)
(* whether the registration came before or after the compilation, for a    *)
(* ruleset in text form and for a precompiled one.                         *)
CallReachesHandler ==
  phase = "final" =>
    \A n \in called :
      Handles(code[n]) = IF granted[n] # "none" THEN granted[n] ELSE fallback

(* Overview, section 4.2.2.1: a call invokes the handler registered for    *)
(* the method name, and the fallback if there is none; so a handler whose  *)
(* unregistration has succeeded is not called any more.                    *)
UnregisteredIsNotCalled ==
  phase = "final" => \A n \in called \cap withdrawn : Handles(code[n]) # granted[n]
================================================================================
