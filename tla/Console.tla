-------------------------------- MODULE Console --------------------------------
(***************************************************************************)
(* The debug console (src/ohm-plugin/console.c, which resolver.c includes, *)
(* and set_fact of factstore.c): the dispatch of commands, '!' for the     *)
(* last one, the commands that other plugins add, and the commands that    *)
(* change what the daemon does.  It runs between the calls of the method   *)
(* handlers.                                                               *)
(*                                                                         *)
(* A command is a name with its arguments, and has the text that it was    *)
(* entered as: handlers write into it, and '!' takes what is left.         *)
(***************************************************************************)
EXTENDS Handlers

CONSTANTS
  Commands,       \* the commands that are entered
  Builtin,        \* the names of the built-in commands
  Extensions,     \* the names under which plugins add commands
  Plugins,        \* the plugins that do
  MaxExtensions   \* bound: entries of extensions

Levels == {"error", "warning", "info", "debug"}

ASSUME ConsoleAssumption ==
  /\ MaxExtensions \in Nat
  /\ None \notin Plugins \cup Extensions \cup Builtin /\ None # <<>>
  /\ \A c \in Commands : c = [name |-> c.name, goal |-> c.goal, args |-> c.args]

VARIABLES
  connected,   \* a console is connected; there is only one (multiple is FALSE)
  terminal,    \* stdout and stderr go to the console, says the console plugin
  grabbed,     \* ..., says this one
  extensions,  \* name and handler; the name of a deleted one is None
  granted,     \* history: the plugin that was told to have the name
  input,       \* last: what is left of the last command entered
  entered,     \* history: the last command entered
  redone,      \* the last step was '!'
  levels,      \* the log levels that are on
  assigned     \* the assignment that the last step has made

terminalVars == <<connected, terminal, grabbed>>
extensionVars == <<extensions, granted>>
inputVars == <<input, entered, redone>>
consoleVars == <<terminalVars, extensionVars, inputVars, levels, assigned>>

ConsoleInit ==
  /\ Init
  /\ connected = FALSE /\ terminal = FALSE /\ grabbed = FALSE
  /\ extensions = <<>> /\ granted = [n \in Extensions |-> None]
  /\ input = None /\ entered = None /\ redone = FALSE
  /\ levels = {"error", "warning"} /\ assigned = None

-------------------------------------------------------------------------------
(* console_opened, console_closed: a console that goes away has its output *)
(* given back by the console plugin, but grabbed stays.                    *)

Opened ==
  /\ ~connected /\ connected' = TRUE
  /\ redone' = FALSE /\ assigned' = None /\ resolved' = None
  /\ UNCHANGED <<terminal, grabbed, extensionVars, input, entered, levels>>

Closed ==
  /\ connected /\ connected' = FALSE /\ terminal' = FALSE
  /\ redone' = FALSE /\ assigned' = None /\ resolved' = None
  /\ UNCHANGED <<grabbed, extensionVars, input, entered, levels>>

-------------------------------------------------------------------------------
(* extension_find, extension_add and extension_del *)

Live(n) == {i \in DOMAIN extensions : extensions[i].name = n}
Find(n) == CHOOSE i \in Live(n) : \A j \in Live(n) : i <= j

(* Deviation: other extensions are not looked at. *)
FreeToAdd(n) == n \notin Builtin
CanAdd(n) == Live(n) = {} /\ n \notin Builtin

AddCommand(n, p) ==
  /\ CanAdd(n) /\ Len(extensions) < MaxExtensions
  /\ extensions' = Append(extensions, [name |-> n, handler |-> p])
  /\ granted' = [granted EXCEPT ![n] = p]
  /\ redone' = FALSE /\ assigned' = None /\ resolved' = None
  /\ UNCHANGED <<terminalVars, input, entered, levels>>

DelCommand(n, p) ==
  /\ Live(n) # {} /\ extensions[Find(n)].handler = p
  /\ extensions' = [extensions EXCEPT ![Find(n)] = [name |-> None, handler |-> None]]
  /\ granted' = [granted EXCEPT ![n] = None]
  /\ redone' = FALSE /\ assigned' = None /\ resolved' = None
  /\ UNCHANGED <<terminalVars, input, entered, levels>>

(* console_input: a built-in command, else an extension. *)
Dispatch(n) ==
  IF n \in Builtin THEN "builtin" ELSE IF Live(n) = {} THEN None ELSE extensions[Find(n)].handler

-------------------------------------------------------------------------------
(* What the commands do.  They leave what they have no use for.            *)

KeepTerminal == UNCHANGED terminalVars
NoGoal == resolved' = None
NoAssignment == assigned' = None

(* command_grab and command_release *)
Grab ==
  /\ grabbed' = TRUE /\ terminal' = (grabbed => terminal)
  /\ UNCHANGED connected
Release ==
  /\ grabbed' = FALSE /\ terminal' = (~grabbed /\ terminal)
  /\ UNCHANGED connected

(* command_bye and command_quit *)
Bye == connected' = FALSE /\ terminal' = FALSE /\ UNCHANGED grabbed

(* extension_run and command_help grab the terminal for the handlers, and  *)
(* release it if it was not grabbed.                                       *)
RunExtension == KeepTerminal

(* command_resolve with the goal 'all' or the one given; arguments that    *)
(* parse_dres_args does not understand, and two doubles are some, resolve  *)
(* nothing.                                                                *)
Doubles(locals) == {i \in DOMAIN locals : locals[i].type = "d"}
ParseArgs(c) == c.args # None /\ Cardinality(Doubles(c.args)) <= 1
Resolve(c) == IF ParseArgs(c) THEN UpdateGoal(c.goal, c.args) ELSE resolved' = None

(* set_fact walks the assignments with strtok, and so does the parser of   *)
(* selectors that it calls for the first one that is complete: the others  *)
(* are lost.  Those before it that have no value or no field, or a         *)
(* selector without ':', are skipped.                                      *)
Complete(as) == {i \in DOMAIN as : as[i].complete}
SetFact(as) ==
  assigned' = IF Complete(as) = {} THEN None
              ELSE as[CHOOSE i \in Complete(as) : \A j \in Complete(as) : i <= j]

(* command_log: all levels are off, then every word switches one on or     *)
(* off; one unknown word, and all are what they were.                      *)
Log(words) ==
  levels' =
    IF \E i \in DOMAIN words : words[i].level \notin Levels THEN levels
    ELSE {l \in Levels : \E i \in DOMAIN words :
            /\ words[i].level = l /\ words[i].on
            /\ \A j \in i + 1 .. Len(words) : words[j].level = l => words[j].on}

Execute(c) ==
  CASE c.name = "grab"    -> Grab /\ NoGoal /\ NoAssignment /\ UNCHANGED levels
    [] c.name = "release" -> Release /\ NoGoal /\ NoAssignment /\ UNCHANGED levels
    [] c.name = "bye"     -> Bye /\ NoGoal /\ NoAssignment /\ UNCHANGED levels
    [] c.name = "resolve" -> Resolve(c) /\ KeepTerminal /\ NoAssignment /\ UNCHANGED levels
    [] c.name = "set"     -> SetFact(c.args) /\ KeepTerminal /\ NoGoal /\ UNCHANGED levels
    [] c.name = "log"     -> Log(c.args) /\ KeepTerminal /\ NoGoal /\ NoAssignment
    [] OTHER              -> RunExtension /\ NoGoal /\ NoAssignment /\ UNCHANGED levels

(* What the handler leaves of the text: the goal is cut off its arguments, *)
(* assignments are cut at the first delimiter.                             *)
(* Deviation: the goal is cut off as well.                                 *)
NothingRemains(c) ==
  IF c.name = "resolve" THEN [c EXCEPT !.goal = "all", !.args = <<>>] ELSE c
Remains(c) ==
  IF c.name \in {"resolve", "set"} THEN [c EXCEPT !.args = <<>>] ELSE c

(* console_input *)
Input(c) ==
  /\ connected
  /\ Execute(c)
  /\ input' = Remains(c) /\ entered' = c /\ redone' = FALSE
  /\ UNCHANGED extensionVars

InputRedo ==
  /\ connected /\ input # None
  /\ Execute(input)
  /\ input' = Remains(input) /\ redone' = TRUE
  /\ UNCHANGED <<extensionVars, entered>>

-------------------------------------------------------------------------------
ConsoleStep ==
  \/ Opened \/ Closed \/ InputRedo
  \/ \E c \in Commands : Input(c)
  \/ \E n \in Extensions, p \in Plugins : AddCommand(n, p) \/ DelCommand(n, p)

Next ==
  \/ ConsoleStep /\ fired' = None /\ last' = NoCall /\ UNCHANGED <<engine, ruletbl, delayVars>>
  \/ HandlersStep /\ redone' = FALSE /\ assigned' = None
       /\ UNCHANGED <<terminalVars, extensionVars, input, entered, levels>>

ConsoleSpec == ConsoleInit /\ [][Next]_<<vars, consoleVars>>

-------------------------------------------------------------------------------
(* Properties *)

(* Whoever was told that a command is his gets it when it is entered, and  *)
(* until then it is nobody's: what add_command and del_command answer and  *)
(* what console_input finds are the same, with the holes that deleted      *)
(* commands leave behind.                                                  *)
GrantedCommandRuns == \A n \in Extensions \ Builtin : Dispatch(n) = granted[n]

(* '!' resolves the goal that was entered last and assigns nothing: the    *)
(* arguments are gone, and with them whatever the command may have been    *)
(* refused for.                                                            *)
RedoKeepsGoal ==
  redone => /\ assigned = None
            /\ entered.name = "resolve" => resolved = [goal |-> entered.goal, locals |-> <<>>]
================================================================================
