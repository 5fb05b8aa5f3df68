# A TLA+ verification of libdres and the OHM resolver plugin

libdres is the dependency resolver of the OHM policy daemon: it reads a
ruleset, a makefile-like list of targets with prerequisites and actions,
compiles the actions to byte code and *resolves goals*, that is, brings a target
and all it depends on up to date with the facts of the fact store. The OHM
plugin embeds it in the daemon. This directory holds TLA+ models of it, the TLC
runs that check them and the TLAPS proofs about them. Paths below are relative to
the repository; `PROJECT.json` maps every definition to its lines.

## 1. Inventory

| Component | State | Operations | Interacts with |
|---|---|---|---|
| Goal resolution: `src/dres.c`, `src/target.c`, `src/factvar.c`, `src/action.c` | `dres->stamp`, `dres->txid`, flags; stamp, txid and txstamp of every target; stamp of every variable; the C stack of `dres_update_goal` | `dres_update_goal`, `dres_check_target`, `push_locals`/`pop_locals`, stamping | calls the VM, the store; is called by plugins, the main loop, the console and, recursively, by byte code |
| Change tracking and transactions: `src/variables.c` | view of tracked facts, transaction of the fact store, `TRANSACTION_ACTIVE` | `dres_store_track`, `_check`, `_tx_new`, `_tx_commit`, `_tx_rollback` | the external fact store |
| Scheduling of 'all': `ohm-plugin/factstore.c` | `update`, the id of an idle source | `schedule_resolve` (signal handler), `update_all` (idle callback) | main loop, fact store signals, goal resolution |
| Dependency graphs: `src/graph.c`, `src/prereq.c`, `finalize_targets` | `depends[]`, the queue Q, the list L, the edge counts E; `dependencies[]` of a target | `dres_build_graph`, `dres_sort_graph` | goal resolution walks the result |
| Methods: `src/vm-method.c`, `src/action.c`, `src/builtin.c` | `vm->methods`, `default_method`, `dres->fallback` | add, set, del, lookup, call, default | parser, compiler, loader, plugins |
| Virtual machine: `src/vm.c`, `vm-instr.c`, `vm-stack.c`, `vm-local.c`, `include/dres/vm.h` | stack, scopes, chunk, pc, ninstr, catch chain | `vm_exec`, 13 instructions, `VM_TRY`, `VM_RAISE`, `VM_FAIL` | methods, facts |
| Compiler: `src/compiler.c` | code chunk of a target | `dres_compile_target` and one function per statement and expression | methods, VM |
| Save and load: `src/compiler.c`, `dresc.c`, `dres_open` | buffer with data and strings and its first error, header, memory of the loaded ruleset | `dres_save`, `dres_load`, fallback on the text | all arrays of `dres_t`; inserts the facts of initializers |
| Facts on the stack: `src/vm-global.c` | sets of facts | lookup, filter, UPDATE, REPLACE, CREATE | fact store |
| Resolver plugin: `ohm-plugin/resolver.c` | `ruletbl`, the static `delay_cb`, requests pending in the delay plugin | handlers of rules, signals, delayed execution and its cancellation; `delayed_resolve`; exported methods | other plugins, goal resolution |
| Console: `ohm-plugin/console.c` | the connection, `grabbed`, `extensions[]`, the last command | dispatch, '!', `extension_add` and `_del`, the commands | goal resolution, fact store, other plugins |
| Front end: `parser.y`, `lexer.l`, `ast.c`, `literal.c` | the ruleset being read | merging of rules, initialisers | methods, graphs |

The daemon has one thread. What makes the code hard is not preemption but
*re-entrance and order*: callbacks of the main loop between resolutions, fact
store signals in the middle of one, goals resolved recursively by the actions of
other goals, exceptions (`longjmp`) across scopes and nested transactions, and
clocks (`stamp`, `txid`) that several of these share. The list `hazards` in
`PROJECT.json` names each of these at its line, with the properties for it or the reason why
there is none.

What makes the components correct:

* goal resolution: a goal is one atomic change of the facts, or none; the
  outermost call alone owns the transaction; nothing is committed after a failure;
  no change of a prerequisite is missed, no target is updated without one; the
  caller is told what really happened; scopes are balanced;
* scheduling: one update at a time, and each change is followed by one;
* graphs: every order is complete, minimal and sound; exactly the cyclic rulesets
  are rejected; it ends;
* methods: a call reaches who registered for its name;
* VM and compiler: branches and the stack stay within the chunk, an exception
  leaves stack and scopes as they were; compiled conditions mean what the
  language says;
* saving and loading: what the daemon runs is what `dresc` was given; a broken file
  does no harm and leaves nothing behind when the text is used instead;
* plugin and console: success means that the handler has done what it was called
  for; a rule, a callback and a command are the ones that were named; a delayed goal
  gets all its local variables or is not resolved.

## 2. Modules

| Module | What it is |
|---|---|
| `AtomicGoals` | Abstract specification: resolving a goal is `Begin`, then `Commit` or `Abort`, of facts and target stamps. |
| `Resolver` | `dres_update_goal` with everything it calls; one frame of `frames` per active call. |
| `MCResolver` | Rulesets for TLC. |
| `ResolverProofs` | Proofs about `Resolver` and `Scheduler`. |
| `Scheduler`, `MCScheduler` | EXTENDS `Resolver` with signals, idle sources and plugins in the main loop. |
| `Graph`, `MCGraph` | `dres_build_graph`, `dres_sort_graph` and the loop of `finalize_targets`; every small ruleset for TLC. |
| `GraphProofs` | Proofs about `Graph`. |
| `Methods`, `MCMethods` | The method table over the life of a ruleset. |
| `MethodsProofs` | Proofs about `Methods`. |
| `Instructions` | Values and instructions of the virtual machine. |
| `Machine` | `vm_exec`: stack, scopes, exceptions, recursive calls, one action per instruction. |
| `WellFormed` | Code for which the heights of stack and scopes are known before every instruction. |
| `Compiler` | Syntax trees of actions, and the byte code of a target's actions. |
| `Compiled` | EXTENDS `WellFormed` and `Compiler`: actions compiled and executed. |
| `Recursion` | What recursive definitions over trees and sequences compute, for `CompilerProofs`. |
| `CompilerProofs` | Proofs about `Machine` on well-formed code, and about `Compiled`. |
| `Language` | Abstract specification: what actions mean, from the manual. |
| `FactSets`, `MCFactSets` | Selectors and SET, UPDATE and REPLACE on facts that differ. |
| `FactSetsProofs` | Proofs about `FactSets`. |
| `Programs`, `MCPrograms` | EXTENDS `Compiled`: what is executed against what it means; the syntax trees for TLC. |
| `SaveLoad`, `MCSaveLoad` | `dresc` and the daemon that opens what it has saved; rulesets around the limits of the buffer. |
| `SaveLoadProofs` | Proofs about `SaveLoad`. |
| `Handlers` | The method handlers of the resolver plugin. |
| `Console` | EXTENDS `Handlers` with the debug console. |
| `PluginProofs` | Proofs about `Handlers` and `Console`. |
| `MCPlugin` | Rules, requests and commands for TLC. |

### Resolver

The constants are a ruleset: `Prereqs`, `Order` (the targets of `dependencies[]`, each
once and behind its prerequisites: `OrderAssumption`) and, for the byte code of each target, the facts it assigns (`Writes`), the goals
it resolves (`Resolves`) and whether it may fail (`Fails`). An action runs any
number of these effects in any order, so every program with these effects is
covered. `Enter` is `dres_update_goal` up to its loop: transaction if none is
active, `stamp++`, `dres_store_check`, locals. `Skip`, `RunActions` and
`ActionsDone` are `dres_check_target`, for the goal without prerequisites as well
(which the code runs directly; the stamp it gets at the end is the same).
`GoalCommits`, `GoalReturns`, `GoalRollsBack` and `GoalFails` are the four ends.
`CallResolve` is the builtin `resolve`, `Resumed` what `vm_instr_call` makes of its
status, `CaughtScope` the cleanup of `VM_TRY`.

The fact store is external. It is modelled from its use: a transparent view that
records changes of tracked facts, and a transaction that restores the facts. What
a rollback does to the recorded changes is not visible in this repository, so
`Rollback` allows every outcome. A tracked fact is recorded whenever it is
assigned, whether its value differs or not. History variables: `stale[t]`, what
has changed among the prerequisites of `t` since its actions began (a rollback
restores it, like the facts); `failed`, whether an action of the transaction failed;
`committed`, how the last outermost call ended.

`Inside`, `Undisturbed`, `Steady` and `Economical` are not code: they say of which rulesets the
three properties of updates hold (section 3), which nothing in the code checks.

Left out: values of locals, DRES variables (no stamp of one is ever updated),
memory exhaustion. Instance counts: `MaxStamp` bounds the calls of
`dres_update_goal`, `MaxDepth` their recursion, `MaxScope` the scopes.

### Scheduler

`Invoke` and `ExternalChange` of `Resolver` become what plugins do between
callbacks (`PluginResolves`, `PluginChanges`); every assignment emits a signal
(`ScheduleResolve`); `Dispatch` and `UpdateDone` are the two halves of
`update_all`, between which the actions of 'all' run. `owed` is history: the facts
changed outside `update_all` since it last began.

Fairness (`FairSpec`): a resolution that has begun goes on (weak), since byte code
only branches forwards and `dependencies[]` is finite; the actions of a target are
left in the end (strong, as scopes open and close meanwhile); a queued idle source
is dispatched (strong: GLib runs idle sources when nothing of a higher priority is
ready, which we assume happens again and again). Plugins get no fairness.

### Graph

A ruleset is the prerequisites of every target, in the order of `prereqs->ids`; `Rulesets`
are those to finalize, of which TLC takes each one as an initial state. Nodes are numbered as
the array `depends[]`. The recursion of `graph_build_prereq` is `stack`. One step of the sort
counts the edges of one node (`CountEdges`), takes one node from the queue (`SortNode`) or
deletes one edge of the node that was taken (`DeleteEdge`); the queue is the cyclic array of
the code, with its indices, so that a wrap-around that loses nodes would show. What a target
depends on (`Below`) is the least set closed under prerequisites. `graph_add_leafs` scans variables from `ntarget` on, as the code does
(`Scanned`), which loses nothing. `OrderIsSound` is what `OrderAssumption` of
`Resolver` assumes.

### Methods

`RegisterBuiltin`, `BuiltinsDone`, `ParseCall`, `Parsed`, `Finalize` and
`SaveAndLoad` are the life of a ruleset (the
last one stands for `dresc` and the daemon that loads its output), `Register` and
`Unregister` what plugins do in between. A handler is named by who provides it.
The table of a precompiled ruleset always holds the builtins, because `dres_init`
registers them before the parser starts.

### Instructions, Machine, WellFormed, Compiler, Compiled, Language, Programs

A chunk is a sequence of words, as in the code: branches count words, `ninstr`
instructions and `nsize` words (bytes in the code; every size is a multiple of a
word). A value has a type and a number; strings only matter by their order and by
being empty, globals by the name of their facts and how many there are. Names and
strings fit into one word. A fact has one field and all facts of a name agree on it,
so a filter keeps all facts or none, and one selector is enough; what filters do with
differing facts, `|=`, `*=` and CREATE belong to `FactSets`. Facts and the
handlers of methods are external.

Raising is a step of its own (`mode`), after which `Handle` is the handler of
`VM_TRY`. Instructions that have popped only a part of their operands when they raise
are modelled as if they had popped all or none, since the handler discards them
anyway. `InstrCallResolve` is the builtin `resolve` on a target without
prerequisites, the first target (`FirstTarget`) if none is named; `Halt` and `Handle` are
the two ways a `vm_exec` returns, to the builtin
or to the resolver. What a goal does besides its own actions is in `Resolver`.

The machine trusts its code: it pops without a check where a value must be, and jumps
wherever a branch says. `WellFormed` says what it trusts in, as a byte-code verifier would:
each instruction has a fixed effect on the heights of stack and scopes (`Pops`, `Pushes`,
`After`), finds what it takes, and leads to instructions further on (`Successors`) at the
heights they have; a CALL directly follows the PUSH of a method's id; HALT is reached with
nothing left. Nothing in the code checks this; the compiler has to see to it
(`CompiledIsWellFormed`).

Syntax trees are the records that the parser builds, up to a depth (`Nesting`); lists of
arguments, locals and statements have any length. `ExprCode` and `StatementCode` are
`compile_expr` and `compile_statement` given the code of the subtrees; `CompileExpr` and
`CompileStatement` close the recursion. `Compiled` takes a set of actions (`Sources`), compiles
one and executes it. Its `HeightsOf` finds the heights at every instruction of a chunk by
one sweep over it.

`Language` evaluates the syntax tree directly, with environments for scopes and
without code. It goes beyond the manual where that says nothing: the right-hand side
of a comparison is evaluated first, an unset local variable has no truth value, a name
without facts may be assigned to. `Programs` compares it with `Compiled`. Fairness is that of a loop that runs on (`vm_run`).

### FactSets

`Machine` has one field per fact and lets all facts of a name agree on it. `FactSets` is
about what then cannot be seen: one assignment to the facts of a name, with everything
`compile_stmt_lvalue` generates for it (filter, matcher, SET FIELD, SET, UPDATE or
REPLACE), from every store. `FilterPass` is one round of `vm_instr_filter`; `Update` and
`Replace` are the loops over the sources as functions of the number of sources done, whose
value is the progress of the instruction, which keeps the array of destinations with its holes and `nfact`.
`touched` collects the calls of `ohm_fact_set`, which is what signals changes. Sources
are other facts than the destinations, and for REPLACE created by a method. The
reference (`UpdateMeans`, `SetMeans`, `FieldMeans`) says for every field which source
it comes from, without order of execution. It speaks for the manual only where code and
manual agree: `Documented` leaves out selectors of another type than the field
(`Comparable`) and the full assignments in `Disputed`.

### SaveLoad

Two processes, one after the other: `dresc` saves a ruleset (`SaveSection`, one section
of the file per step; `SaveAgain` with a buffer of twice the size; `GiveUp`), writes it
(`WriteFile`) and tests it or not; the daemon then opens whatever there is. Everything is
counted in words; a string is one unit of the table of strings.
`RulesetsAssumption` says what a ruleset is (`Rules`, lists of any length) and that the
builtins are among its methods: `dres_init` registers them before anything is parsed.
Writers and readers are separate, as in the code: `Entries` and `Put` are the writers,
`ReadSection` the readers, and the header with `ArenaSize` is the third thing that has
to agree with both. A writer keeps its first error and writes nothing more; a reader
goes on with zeros, its error is the `errno` of the moment the file was opened
(`OpenBuffer`), so with `errno` 0 a short file goes unnoticed at first. Of the sections
only the targets report an error when they are saved, and three when they are loaded
(`ReportsErrors`); others are found out by their next allocation. `fclose` is not looked
at, so the file may end anywhere.

`RegisterBuiltins` is what a loaded ruleset must survive next: `dres_init` sets the handlers
of methods that are in the file; adding one reallocates a part of a larger block, and the
process is gone. `InitializeVariables` inserts a fact per initializer and stops at a
value of an unknown type, whereupon `LoadFails` parses the text, which inserts them all.
Doubles are in units of 1/10000, restricted to values that binary fractions represent
exactly. Fairness (weak, for the next step) is that of a process that runs on. It is written
without `ENABLED`, which TLC evaluates too slowly here: a state without successors that is
not finished would be a deadlock, which the run excludes.

### Handlers

A handler ends in `Return` with a status as byte code sees it, positive for success;
`ActionError` is the macro that turns errors negative. Rule engine, signaling and delay
are other plugins and external: rules are loaded at any time (`LoadRule`), a rule
may raise, fail, return facts or something else, a signal may be refused, a delayed request
is kept under its id and expires once, at any time (`Expire`). `ruletbl` caches the id of a
rule plus one. `delay_cb` is the static variable of `delay_handler`, set by the
first request with a callback of its own. `Passed` is what `argt` and `argv` can
hold: the types are a string, which a fact variable without facts ends. `Expire`
with "resolve" is `delayed_resolve`, with the checks of `push_locals`; what the goal does
after that is `Resolver`. `resolved` is the goal that the last step has resolved, `fired` the
request that has expired; `named` is history.

### Console

`Input` is `console_input`: a built-in command or one of a plugin, and the text is left
as its handler leaves it (`Remains`), which is what '!' (`InputRedo`) executes again.
Extensions are an array in which deleted entries stay as holes. `SetFact` is `set_fact`
with its nested `strtok`, `Log` switches log levels, `Grab`, `Release` and `Bye` are about
who prints where. `granted` is history: who has been told that a command is his.
Handlers run between the commands; both resolve goals. Commands that only print or call another plugin
(help, dump, debug, prolog, statistics, set prefix) are left out.

## 3. Runs

| Run | Instance | Shows |
|---|---|---|
| `ResolverMake` | 4 targets, 2 facts, 4 resolutions, depth 2; one target assigns a fact that another depends on, one resolves 'all' | types; no unnecessary update; a committed goal is up to date |
| `ResolverNest` | 3 targets, depth 3, 4 resolutions, everything may fail, rejected locals | ownership, scopes, clocks, no change missed, no commit after a failure, refinement of `AtomicGoals` |
| `ResolverLocals` | violation | see finding 1 |
| `Scheduler` | 4 targets, 2 facts, 2 source ids, 4 resolutions | one update; owed changes are scheduled and reach their targets |
| `SchedulerWakeup` | violation | see finding 2 |
| `Graph` | every ruleset over 3 targets and 1 fact | sound orders; cycles; termination |
| `Methods` | 2 builtins, 2 names, 2 plugins | calls reach their handlers |
| `MethodsUnregister` | violation | see finding 3 |
| `FactSets` | 820 stores of up to 3 facts, 708 assignments | assignments do what the manual says, but for the disagreements in section 3; identical fields are not touched; REPLACE leaves exactly the new facts |
| `Programs` | 10144 programs | compiled code is well formed (of both targets); status, calls with arguments and facts are those of `Language`; nothing is left on stack and scopes; recursive calls are neutral; it ends |
| `SaveLoad` | 18 rulesets, buffer of 28 words that may grow to 56 | the ruleset in use is the one that was saved; a whole file is always taken; one that is not whole is refused or only lacks methods, if `errno` was set; facts are created once; the daemon gets a ruleset or is gone |
| `Plugin` | 2 rules, 2 ids, 18 requests, 14 commands, 2 plugins | rules, callbacks and commands are those named; success is true; delayed goals are whole; '!' keeps the goal |

Why these bounds are enough for the interesting cases: a change can be missed or
doubled over two or three resolutions (one that makes a target young, one during
which the fact changes, one that should notice), and the runs have three or four;
ownership needs an owner, a call in between and a failing inner one, hence depth
three; two source ids are what two concurrent updates would need; cycles through a
third target, diamonds and self-loops all occur with three targets. The programs of
`Programs` have conditions up to three operators deep over constants of every type
(one of them two words long), facts, fields, filters, set and unset local variables
and methods that succeed, fail and raise, each followed by a statement that would show
what it left behind; conditionals within both branches; pairs of assignments; recursive
calls as statements, arguments and conditions, with local variables passed on and
shadowed. Compilation is compositional, so a wrong distance shows at the
first level and a value left on the stack at the second. Its programs compare values of the
same type only and keep out of four disagreements named below the findings
(values of different types, `!''`, filtered assignments to no facts, more local variables than stack). Its machine stops when `vm_exec` has returned. An assignment depends on
nothing but the facts before it, so `FactSets` needs one from each store; three facts are
what REPLACE needs to lose track of one and find another, and the fields are a key
that is there, one that may be absent or of another type, and one that is assigned.
The buffers of `SaveLoad` are of a size at which the targets fit at once, after
doubling or not at all, and the sections behind them fit or not; a file may be cut after
any word. In `Plugin` requests have arguments with holes at each place, of each type
and in wrong numbers; three callbacks are named of which two exist; one rule has the id 0; two
plugins want two free names and one that is taken, in an array of two (`MaxExtensions`).
Rules, delayed requests and console share no state, so its constraint (`OneAtATime`)
explores one of them while the two others are at rest; the proofs have no such
restriction.
`Graph`, `Resolver` and `Methods` stop when their work or bound is exhausted: in `Graph` that
is the end of finalization, so its cfg does not check deadlock. In the others a
rejected call remains possible in every state, as in the code.

`NoUnnecessaryUpdate` and `NoMissedUpdate` do not hold of every ruleset and use
(disagreements below). The ruleset of `ResolverMake` is `Economical`: goals that are
resolved have no prerequisites or no target above them; no target with prerequisites is walked
within its own actions; nothing that is walked assigns what a later target of the same walk
depends on; and either no action fails or none assigns a tracked fact. Those of all runs
are `Undisturbed`: the actions that resolve
goals change no prerequisite of their own target, neither themselves nor through these
goals, and walk nothing that depends on a target still to be updated. `GoalIsUpToDate` needs
a `Steady` one besides: if targets on the way to a goal resolve others, nothing on the way
assigns what any of them depends on, and none walks within its actions a prerequisite of
one before it. That these are enough,
for every ruleset, are the theorems `NothingWithoutNeed`, `NoUpdateMissed` and
`GoalsAreUpToDate`; the assumptions of `MCResolver` have TLC confirm that its rulesets meet
them.

Findings, each with a run:

1. Undeclared locals: rolled back, but reported as success (`dres.c:535`). The theorem
   `StatusIsTrue` shows that there is no other way to it.
2. A tracked fact changed by the actions of 'all' schedules no update
   (`factstore.c:110`): a target walked earlier stays behind.
3. `vm_method_del` has its test inverted (`vm-method.c:88`): unregistration
   succeeds without effect.

The models have more disagreements with the documentation, which no run shows:

* A target is stamped with the clock at the *end* of its actions (`target.c:248`), so a
  fact changed by one nested resolution and stamped by the next is as old as the
  target: its change is missed.
* Comparing values of different types is false, even with `!=`, and no error
  (`vm-instr.c:930`).
* `dres_update_goal` stamps its goal even if the goal was up to date (`dres.c:557`), so
  resolving a goal makes the goals above it outdated.
* `!''` is false, as is `''` (`vm-instr.c:957`).
* A full assignment to a name without facts inserts those of the source, with a filter or
  without (`vm-instr.c:574`); the manual (`doc/resolver-overview.txt:232-237`) has an error for
  want of equal dimensions or of a matching fact. Where a filter leaves more facts than
  there are sources the manual has no error and the code raises one (`vm-instr.c:593`).
  `AssignsAsDocumented` leaves out both (`Disputed`).
* Reading a local variable does not grow the stack (`vm-instr.c:748`), so a call with 33
  of them as arguments raises `ENOMEM`. `Programs` goes up to that limit: 31 in a nested
  resolution, whose own argument is the 32nd entry.
* REPLACE decrements the count up to which it searches (`vm-instr.c:484`): with two
  destinations that match one source, the second is removed if it is the last fact,
  although the comment at line 495 has it that leftovers are removed.
* A source without the first field of a matcher is not reported
  (`vm_fact_collect_fields`, `vm-global.c:448`). `FactSets` assumes that there is none.
* Of a saved ruleset only the targets report that the buffer is full
  (`dres_save_targets`); other sections leave a broken file, with success. Nor is the result
  of `fclose` looked at. With `errno` 0 when it is opened, the daemon may take such a
  file, or crash if methods are missing (`vm_method_add`).
* Negative doubles and digits below a thousandth do not survive saving
  (`compiler.c:1214`).
* `delay_cb` is static (`resolver.c:759`): requests with another callback get the first
  one. The comment at line 732 calls this a compromise.
* `delayed_resolve` gets integers as the addresses of its arguments, and doubles as type
  `f`, which `push_locals` rejects. `ShortFileIsRefused`, `CallbackIsTheOneNamed`
  and `DelayedAllOrNothing` are stated around these.
* A rule called without a name returns a positive `EINVAL`, which is success
  (`resolver.c:390`).
* `signal_handler` sends an empty name for a fact variable (`resolver.c:613`).
* `set_fact` says that it takes several assignments; the nested `strtok` loses all
  after the first complete one.
* '!' loses the arguments of `resolve`; `grabbed` stays set when a console is closed.

## 4. Proofs

All of it for every ruleset (any `Prereqs`, `Writes`, `Resolves`, `Fails`), any
number of facts and any bounds, from `RulesetAssumption` (the constants have their
types), `OrderAssumption` (what `Graph` checks of the sort) and
`SchedulerAssumption`; for handlers and console, for any rules, requests, arguments of any
length and commands, from `HandlersAssumption` and `ConsoleAssumption` (types, and that
`None` is nothing else); for assignments, for any stores, selectors, sources and fields, from
`AssignmentsAssumption` (types, and what the compiler and methods guarantee of them); for the
machine, for every well-formed program; for the compiler, for
all syntax trees of any depth; for saving and loading, for rulesets of any size and any sizes
of the buffers, from `SizesAssumption` and `RulesetsAssumption`.

`ResolverProofs`: `Inductive` proves `Spec => []IInv`, from which `TypeCorrect`,
`OneOwner`, `BalancedScopes` and `ClockAhead` follow. None of the four is inductive
alone. That a return restores the caller's scopes needs the scope depths of the
*whole* stack (`ScopeStack`: each frame lies on top of its caller's base and its
own scope); that a popped stack still has one owner needs the ownership of every
frame. The proof goes by the kind of change to `frames` (`StackReplaced`,
`StackPushed`, `StackReturned`, `StackEnded`), one lemma each, then by action.

`Refinement` proves `Spec => ImplementsAtomicGoals`: the committed facts are the
snapshot while a transaction is active, and the committed stamp of a target is
the one a rollback would restore (`CommittedStamp`). `RefinementStep` maps the
outermost entry to `Begin`, `GoalCommits` to `Commit`, `GoalRollsBack` to `Abort`,
changes between resolutions to `Change` and everything else, recursion included, to
a stutter. It needs `CommittedBehindClock`: within a transaction the clock is ahead
of all committed stamps, so that a commit makes the goal younger.

`FailuresRollBack` (`NoCommitAfterFailure`) and `StatusIsTrue` (`SuccessMeansCommitted` unless
locals are rejected) rest on `FailureSound`: once an action has failed, the
innermost call is on its way out with a status that is no success. A frame that is
popped hands this on to the one below, until the outermost call rolls back.

`NoUpdateMissed` is `Undisturbed => (Spec => []NoMissedUpdate)`. A change that is pending
(`stale`) must be younger than the target or still be in the view; this has to hold of what
a rollback would restore, too (`Pending` joins the property with `SavedPending`), because a
rollback brings back old stamps together with old changes. The hard step is the end of
actions that have resolved goals, where the target is stamped with a clock that those have
moved: `WalksSound` keeps for every frame that waits that nothing its target depends on has
changed since its actions began, and that what has been stamped since was walked inside it;
`Undisturbed` is what makes each of them a step that keeps it. `GoalsAreUpToDate`
(`Undisturbed /\ Steady => (Spec => GoalIsUpToDate)`) needs
in addition that what the outermost call has passed has seen every change but those in the
view, or, if its walk resolves goals, every change, since a nested call empties the view
(`OuterSeen`). Rulesets that resolve nothing recursively need no assumption
(`FlatGoalsAreUpToDate`).

`NothingWithoutNeed` is `Economical => (Spec => NoUnnecessaryUpdate)`. Its invariant,
`Justified`, is the converse of `Pending`: what is younger than a target, or in the view and a
prerequisite of it, has changed since its actions began. Four things make it more than
that. While actions are running their target has forgotten what changed before
(`RunActions` clears `stale`) and is not stamped yet; `Busy` exempts it, and a waiting
one is not reached again, as the calls above it walk within its actions (`CallersWait`).
A goal is stamped whether it was updated or not, so it must have been run
(`GoalChanged`) or nothing may depend on it. A change in the view must not be forgotten by a
target that runs after it: it was assigned by what the call has passed
(`ViewWritten`), on which no later target depends. And a rollback restores the stamps of
targets but not those of facts: `RestorableChanged` says what holds of it at each moment.
`GraphProofs`: `GraphInductive` proves `GInv`, which has a part for each phase. While a graph
is built, every edge that is missing is still to come in one of the active calls
(`Building`); then all nodes below the goal are there with all their edges (`Built`,
`Whole`). The sort keeps that `edges[t]` is the number of edges into `t` that are left
(`Incoming`), and that the nodes without are exactly those queued or sorted (`Sorting`). The
queue is full at N entries, which would look empty: a node is queued at most once, and
not all N nodes are queued at the same time, since the goal is no source and is
queued after something has been sorted. `OrdersAreSound` and `GraphTypes` follow.
`RejectedOnlyForCycle` takes the targets with edges left, each of which has a prerequisite
among them: the one with the fewest nodes below it is on a cycle. The other direction is the
order, in which nothing comes after itself.

`SchedInductive`, in the same module, gives `OneUpdateHolds` and `OwedHolds`; the
invariant joins both with the type of the scheduling variables, which is what tells an
id from "no update".

`MethodsProofs`: `MethodsInductive` proves that the table has one entry for every name
(`Unique`), that the entry holds the handler granted to the name (`TableGranted`)
and that the byte code keeps the ids of the names it calls (`CodeSound`); `AddSound` is
the lemma about `vm_method_add` behind it. `CallsReachHandlers` follows. It is from
`MethodsAssumption`, which says that builtins, names and plugins are distinct.

`PluginProofs`: `HandlersInductive` proves types together with what the cache
of rules holds (`RulesCached`: nothing, or the id plus one of a rule that is loaded),
what `delay_cb` holds (`CallbackNamed`) and what is pending (`TimersSound`); none of the
properties is inductive without. `CallbacksAreTheOnes` follows, since requests that name one
callback leave `delay_cb` no other value, and `DelayedWhole` needs that arguments
which end at a hole have a length that `delayed_resolve` either refuses or that is
their full one; that there is a first hole is `LeastElement`, from the library's
well-foundedness of the naturals.

For the console, `PluginInductive` joins this with `GrantsKept` (at most one live
entry for a name, and it is the grant) and `InputKept` (what is left of the last command
has its name and goal). `HandlersUndisturbed` carries the properties of the handlers over to
the composition.

`CompilerProofs`, the machine: for every well-formed program, any targets, methods and whatever these
return, `MachineInductive` proves the invariant `MachineInv`, which relates the registers and
the heights of stack and scopes to those of the code (`At`), in the running `vm_exec` and in
all that wait for a recursive one (`Frames`). It keeps what a caller may rely on: the depths in
`vm->catch` grow from the outside in (`Bases`), everything below them is what the caller left
(`Caller`, `Under`), and the running code has as many values above them as its instruction
says (`Balanced`, `Running`). This is what lets `Handle` and `Halt` restore exactly the
caller's stack. `NothingIsLeft`, `CodeIsCovered` (that BRANCH leaves `ninstr` and
`nsize` behind is harmless, because code only branches forwards: `InstrCounts`) and `NestedCallsAreNeutral`
follow. `MachineTypes` adds the types; that the stack never exceeds what is allocated
needs `Room`: the push of a status after a nested `vm_exec` does not grow the stack, but takes
the place of the method's id. `MachineSpec` takes a well-formed program as a constant.

`CompilerProofs`, the compiler: that it generates such code is `CodeIsWellFormed`, from
`SourcesAssumption` and `NestingAssumption` (that the sources are syntax trees of a finite
depth) and `WideAssumption` (that 0 and 1 fit into one word). A `Piece` of code comes with
heights before each of its words and behind it: each instruction `Fits`, and each but the first
one is led to by one before it (`Reached`), which makes the heights the only possible ones. An
expression is a piece that leaves one value more than it found, at whatever heights it is entered (`LeavesOne`), a
statement one that leaves none (`LeavesNone`). Pieces are put together by `Joined`; where a
branch goes from one piece into a later one, the later one is `Opened` at that instruction, and
`Jump`, `Else` and `Closed` say when the result is a piece again. This is where the patched
distances enter: `CompileIfTurns` and `CompileBooleanTurns` are about the four shapes
of branches. `SweepAgrees` is that `HeightsOf` finds the heights of a piece, as its
instructions lead forwards only. `CompiledCodeRuns` then makes `Compiled` an
implementation of `MachineSpec`, so that the theorems about the machine hold of whatever is
compiled; `CompiledCodeIsClean` lists them.

Trees and lists have any depth and length, so this needs induction, and that the recursive functions
of `Compiler` exist at all. An induction theorem with an operator as its parameter is of no use to the provers.
`Recursion` states what is needed with operators that are constants of the module: `LevelsExist`
and `Increasing` about the sets of trees of each depth, `BodyExists` (a function
defined by recursion over subtrees has the value its body says) and `BodyGood` (what the body
passes on from the subtrees holds of every tree). `CompilerProofs` instantiates it for expressions and for statements.
The induction itself is well-foundedness of the naturals, from the library.

`FactSetsProofs`: a behaviour is one assignment, so what is hard is not the invariant
(`IInv`: until the assignment the facts of the name are each once, in order, and all there
are) but the loops of the instructions, each a recursive function of the number of rounds.
For each loop there is a lemma that this function exists (`LoopExists`, where the body of the
loop is a function, not an operator) and an invariant of its rounds, which `UpTo` carries to
the last one; `UpTo` is the well-foundedness of the naturals, from the library. `FilterMeans` is that passes
over the selectors, last one first, leave the facts that match all of them in order
(`PackedIs`), or raise. `UpdateInv` is that after n sources each field comes from the last of
these that matches and gives it, where "matches" may be read in the facts before or after,
because an update writes what already agrees on the matcher (`WriteKeepsKeys`); it also keeps
that a field was set only if some source differs from it. `SetInv` is the same for SET, where
the n-th fact is the one with n facts up to it (`PlaceIs`, `Counted`).

REPLACE has two loops. `TryInv` is the inner one over the destinations: a destination taken
becomes a hole and lowers `nfact` by one; what is out of the search then may match and be
left over. `ReplaceInv` is the outer one: holes are the destinations that carry a source,
sources without are `left`, in number and content. `ReplaceCompletes` needs that holes and
sources with a match are equally many, for which no two facts may agree on the matcher.
It was expected to need this of the sources as well; the proof showed that it does not: a second
source of the same key finds a hole and is inserted. The property says so now.

`SaveLoadProofs`: `SaveLoadInductive` proves `Inv`, from which `SaveLoadTypes`,
`LoadedIsTheSaved`, `WholeFilesLoad`, `ShortFilesRefused` and `CreatedOnce` follow. None of
them is inductive alone: what is loaded is right only because of what was written, several
sections and a process earlier. A ruleset has a text (`TextOf`): its items in the order of the file, with
the place of each in the data and, for a string, the offset of its copy in the table. `Inv` says that
the buffer `Holds` the items of the sections that are done, or has failed (`SavingInv`); that a
file is such a text, possibly cut, and a whole one holds all five sections
(`FileInv`); that the loader stands at the first item of the next section with exactly the
memory left that the remaining sections need, or behind the end of the file (`LoadingInv`), and
that the sections the file holds have been read right (`LoadedInv`).

Each reader is then proved against its writer, from `ReadWord` up to `SectionLoaded`: at the
place of its items (`At`) it returns what was written, goes to the place behind
them and takes as much memory as counted; where the file ends first, it returns zeros and, if
`errno` was set, an error or a failed allocation. `ReadMany` is used for six
kinds of elements; as an operator cannot be the parameter of a lemma, `ReadBy` names them and
`Listed` is the lemma about any list. `ArenaIsEnough` adds the needs of the sections up:
the header, which counts prerequisites as targets, pays for every allocation.
Sums and flattened sequences are recursive functions, whose rounds are
handled by `UpTo` and `IsLoop`, and `SumsOf` is the sum up to each place. What a double has
become (`AsDouble`) is proved for either sign, and is near the double only if that is not negative,
hence the exception in `SameValue`. `NoMethods` is for a file that has lost its methods and
was opened with `errno` 0: the loader finds none of them, so that `RegisterBuiltins`, which has at least one
to add, does not let the ruleset run.

Only model-checked, as they are out of the prover's reach: liveness under fairness
(`ChangesReachTargets`, `FinalizationEnds`, `Ends`, `DaemonStarts`) and the meaning of
compiled programs (`RunsAsDocumented`), since `Language` evaluates trees by recursive operators.

## 5. Not modelled

See `components` in `PROJECT.json`. CREATE and DEBUG, which nothing generates; the
reference counts of facts; memory exhaustion; the conversion of objects to facts; the commands of the
console that print. A failed compilation (`dres.c:501`): the plugin exits if finalization
fails. `Machine` is re-entered by the builtin `resolve` only: in this
repository no other handler calls `update_goal`. `factstore_exit`: plugins are unloaded when
the daemon ends. A second `dres_t`, which would share `default_method`: the daemon has one.
Recursion of resolutions without end, on which the code sets no limit (the models: `MaxDepth`). Lexer, grammar and AST are mostly generated or allocate memory;
logs, dumps and the Prolog libraries have no effect on the state of the resolver.

## 6. Plan

Done: every component of the inventory that keeps state has its module (section 2), and
its proofs (section 4). Left, in this order:

1. `RunsAsDocumented` for straight-line actions, with `Language` as recursive functions.
2. `Finalization`: compile, sort and retry in `dres_update_goal` composed with
   `Methods`; code whose compilation has failed has no HALT.
