------------------------------- MODULE Scheduler -------------------------------
(***************************************************************************)
(* The resolver plugin in the main loop of the policy daemon               *)
(* (ohm-plugin/factstore.c): every signal of the fact store schedules an   *)
(* update of the goal 'all' as an idle source of the main loop, plugins    *)
(* change facts and resolve goals of their own in between.                 *)
(*                                                                         *)
(* The daemon has one thread, so a callback of the main loop only begins   *)
(* when none is active.  A resolution is the one of module Resolver, with  *)
(* the signals that its fact assignments emit.                             *)
(***************************************************************************)
EXTENDS Resolver

CONSTANTS
  All,      \* the goal 'all'
  Sources   \* ids of sources of the main loop: g_idle_add never returns 0

ASSUME SchedulerAssumption == All \in Targets /\ Sources # {} /\ Sources \subseteq Nat \ {0}

VARIABLES
  update,   \* id of the next update, 0 if there is none
  idle,     \* the idle sources that have not returned yet
  running,  \* the idle source whose update_all is active, 0 if there is none
  owed      \* history: facts changed outside update_all since it last began

scheduling == <<update, idle, running, owed>>
allVars == <<vars, scheduling>>

SchedInit == Init /\ update = 0 /\ idle = {} /\ running = 0 /\ owed = {}

-------------------------------------------------------------------------------
(* Deviation: schedule_resolve does not look at update. *)
ScheduleAlways ==
  \E id \in Sources \ idle : update' = id /\ idle' = idle \cup {id}

(* schedule_resolve, the handler of all the signals of the fact store. *)
ScheduleResolve ==
  IF update = 0
  THEN \E id \in Sources \ idle : update' = id /\ idle' = idle \cup {id}
  ELSE UNCHANGED <<update, idle>>

Free == frames = <<>> /\ running = 0

(* Bound: the last resolution of a behaviour is one of 'all', so that      *)
(* MaxStamp never keeps a scheduled update from running.                   *)
Room == stamp + 1 < MaxStamp

(* A plugin changes a fact. *)
PluginChanges(f, v) ==
  /\ Free /\ Room
  /\ ExternalChange(f, v)
  /\ ScheduleResolve
  /\ owed' = owed \cup {f}
  /\ UNCHANGED running

(* A plugin resolves a goal of its own. *)
PluginResolves(g, locals) ==
  /\ Free /\ Room
  /\ Invoke(g, locals)
  /\ UNCHANGED scheduling

PluginRejected ==
  /\ Free
  /\ InvokeRejected \/ (Room /\ InvokeBadLocals)
  /\ UNCHANGED scheduling

(* The actions of a target assign a fact. *)
ActionChanges(f, v) ==
  /\ Write(f, v)
  /\ ScheduleResolve
  /\ owed' = IF running = 0 THEN owed \cup {f} ELSE owed
  /\ UNCHANGED running

(* A rollback restores facts; whether that emits signals is up to the fact *)
(* store.                                                                  *)
RollBack ==
  /\ GoalRollsBack
  /\ ScheduleResolve \/ UNCHANGED <<update, idle>>
  /\ UNCHANGED <<running, owed>>

Continue == Walking /\ UNCHANGED scheduling

(* The main loop dispatches the idle source: update_all resolves 'all'. *)
Dispatch(id) ==
  /\ Free /\ id \in idle
  /\ Invoke(All, FALSE)
  /\ running' = id
  /\ owed' = {}
  /\ UNCHANGED <<update, idle>>

(* Deviation: update_all forgets to reset the id. *)
NotReset == update

(* update_all resets the id when the resolution is over... *)
Reset == 0

(* ...and returns FALSE, upon which the main loop removes the source. *)
UpdateDone ==
  /\ running # 0 /\ frames = <<>>
  /\ update' = Reset
  /\ idle' = idle \ {running}
  /\ running' = 0
  /\ UNCHANGED <<vars, owed>>

SchedNext ==
  \/ \E f \in Facts, v \in Values : PluginChanges(f, v) \/ ActionChanges(f, v)
  \/ \E g \in Goals, locals \in BOOLEAN : PluginResolves(g, locals)
  \/ PluginRejected
  \/ RollBack
  \/ Continue
  \/ \E id \in Sources : Dispatch(id)
  \/ UpdateDone

SchedSpec == SchedInit /\ [][SchedNext]_allVars

(* An activity of the resolver ends: byte code has no backward branches,   *)
(* and dependencies[] is finite.  The actions of a target are left when    *)
(* the calls within them are over, which may be so only now and then.      *)
Progress ==
  Skip \/ RunActions \/ CloseCall \/ GoalCommits \/ GoalReturns \/ GoalFails

Leave == ActionsDone \/ \E s \in {"failure", "error"} : ActionsFail(s)

(* The main loop is idle again and again: otherwise sources of a higher    *)
(* priority would keep an idle source from running for ever.               *)
Fairness ==
  /\ WF_allVars(Progress /\ UNCHANGED scheduling)
  /\ SF_allVars(Leave /\ UNCHANGED scheduling)
  /\ WF_allVars(RollBack)
  /\ WF_allVars(UpdateDone)
  /\ SF_allVars(\E id \in Sources : Dispatch(id))

FairSpec == SchedSpec /\ Fairness

-------------------------------------------------------------------------------
SchedTypeOK ==
  /\ update \in Sources \cup {0} /\ running \in Sources \cup {0}
  /\ idle \subseteq Sources
  /\ owed \subseteq Facts

(* However signals, direct resolutions and updates interleave, at most one *)
(* update of 'all' is queued or running, and update is its id              *)
(* (factstore.c:95, 110-112).                                              *)
OneUpdate ==
  /\ idle = IF update = 0 THEN {} ELSE {update}
  /\ running # 0 => running = update

(* A fact that was changed while update_all was not running has an update  *)
(* of 'all' queued behind it that has not begun.                           *)
OwedIsScheduled == owed # {} => idle # {} /\ running = 0

(* Such a change reaches every target that 'all' walks and that depends on *)
(* the fact: its actions run again.  Overview, section 5.2.                *)
ChangesReachTargets ==
  \A t \in Walked(All) : \A f \in Prereqs[t] \cap Facts :
    f \in owed ~> f \notin stale[t]

(* Overview, section 4.2.3.1: whenever a tracked fact is changed, by       *)
(* whomever, an update attempt of 'all' is scheduled, so that no target    *)
(* below 'all' stays behind (factstore.c:110, update is still set while    *)
(* the actions of 'all' change facts).                                     *)
EveryChangeReachesTargets ==
  \A t \in Walked(All) : \A f \in Prereqs[t] \cap Facts :
    f \in stale[t] ~> f \notin stale[t]
================================================================================
