------------------------------ MODULE PlatSrvApp ------------------------------
(***************************************************************************)
(* The start of the program (app.cpp, core/appmodule_manager.cpp): the     *)
(* main thread reads the configuration, starts the task manager, creates   *)
(* the module lists, initialises them and registers the middleware.  Two   *)
(* modules register a task each, the event loop (core/handy_loop) and the  *)
(* upgrade task (modules/upgrade), with the task manager, a library that   *)
(* is not in the repository and is modelled from its use.                  *)
(*                                                                         *)
(* A task that does not call is_task_alive for alive_time, because its     *)
(* thread gets no time or a callback of the loop takes too long, is timed  *)
(* out; e_task_reboot_system then asks for a reboot, which comes later.    *)
(* Of the four lists three are empty; AppModules is the one that is not.   *)
(***************************************************************************)
EXTENDS AppModules

CONSTANTS
  Main,            \* the main thread
  HandyLoop,       \* module 1 of appmodule_table.cpp
  SystemUpgrade    \* and module 3

Tasks == {HandyLoop, SystemUpgrade}

ASSUME MainAssumption == Main \in Threads
ASSUME TasksAssumption ==
  Tasks \subseteq (Enabled \cap HasInit) \ Configurable /\ HandyLoop # SystemUpgrade

VARIABLES
  phase,          \* how far the main thread is in PlatSrvApp::init
  task,           \* the task of each of the two modules
  dead,           \* the tasks that is_task_alive denies
  moduleState,    \* _module_state of upgrade.cpp
  told_end        \* the exit action of the upgrade task has been called

taskVars == <<task, dead, moduleState, told_end>>
appVars == <<vars, phase, taskVars>>

\* "ready": task_run has been called, the thread has not executed anything yet.
PlatTypeOK ==
  /\ AppTypeOK
  /\ phase \in {"config", "tasks", "manager", "modules", "walk", "midwares", "up", "terminated"}
  /\ task \in [Tasks -> {"none", "ready", "runs", "ended"}]
  /\ dead \subseteq Tasks
  /\ moduleState \in BOOLEAN /\ told_end \in BOOLEAN

PlatInit ==
  /\ Init
  /\ phase = "config"
  /\ task = [k \in Tasks |-> "none"]
  /\ dead = {}
  /\ moduleState = FALSE
  /\ told_end = FALSE

-----------------------------------------------------------------------------
(* PlatSrvApp::init, on the main thread.                                   *)

\* The constructor of Configures throws what nobody catches when a file is
\* missing or does not parse, json's operators when a value is.
LoadConfigures ==
  /\ phase = "config"
  /\ phase' \in {"tasks", "terminated"}
  /\ UNCHANGED <<vars, taskVars>>

\* The process is no more; only here may it stop.
Terminated == phase = "terminated" /\ UNCHANGED appVars

TaskInit ==
  /\ phase = "tasks"
  /\ phase' = "manager"
  /\ UNCHANGED <<vars, taskVars>>

\* appmodule_manager: from now on appmodule() gives the lists.
CreateManager ==
  /\ phase = "manager"
  /\ phase' = "modules"
  /\ UNCHANGED <<vars, taskVars>>

\* PlatSrvAppModuleManager::init
InitManager ==
  /\ phase = "modules"
  /\ Begin(Main, "init_all", HandyLoop)   \* all have no target
  /\ phase' = "walk"
  /\ UNCHANGED taskVars

InitOtherLists_AtOnce ==   \* mutant: the lists are initialised in the background
  /\ phase = "walk"
  /\ phase' = "midwares"
  /\ UNCHANGED <<vars, taskVars>>

\* The other three lists have no modules.
InitOtherLists ==
  /\ phase = "walk"
  /\ call[Main] = None
  /\ phase' = "midwares"
  /\ UNCHANGED <<vars, taskVars>>

RegisterSdkMidwares ==
  /\ phase = "midwares"
  /\ phase' = "up"
  /\ UNCHANGED <<vars, taskVars>>

-----------------------------------------------------------------------------
(* The calls of all threads on the list.                                   *)

ListsExist == phase \in {"modules", "walk", "midwares", "up"}

BeginOther(t) ==
  /\ ListsExist
  /\ t # Main
  /\ \E op \in Operations, m \in Modules : Begin(t, op, m)
  /\ UNCHANGED <<phase, taskVars>>

Status ==
  /\ ListsExist
  /\ CurrentStatus
  /\ UNCHANGED <<phase, taskVars>>

\* task_handy_loop_init, system_upgrade_task_init: register_task, the actions
\* on exit, timeout and exception, task_run.  The others start no task.
Started(t, m) ==
  IF m \in Tasks /\ Inits(call[t].op)
  THEN task' = [task EXCEPT ![m] = "ready"] ELSE UNCHANGED task

\* A step of a call: waiting for the lock is not one.
Walk(t) ==
  /\ UNCHANGED <<phase, dead, moduleState, told_end>>
  /\ \/ \E m \in Modules : (Skip(t, m) \/ Callback(t, m)) /\ UNCHANGED task
     \/ \E m \in Modules : Return(t, m) /\ Started(t, m)
     \/ Unlock(t) /\ UNCHANGED task

Take(t) == Lock(t) /\ UNCHANGED <<phase, taskVars>>

-----------------------------------------------------------------------------
(* The tasks.                                                              *)

LoopBegins ==
  /\ task[HandyLoop] = "ready"
  /\ task' = [task EXCEPT ![HandyLoop] = "runs"]
  /\ UNCHANGED <<vars, phase, dead, moduleState, told_end>>

\* The first statement of system_upgrade.
UpgradeBegins ==
  /\ task[SystemUpgrade] = "ready"
  /\ task' = [task EXCEPT ![SystemUpgrade] = "runs"]
  /\ moduleState' = TRUE
  /\ UNCHANGED <<vars, phase, dead, told_end>>

UpgradeEnds_ByStateOnly ==   \* mutant: the loop does not ask is_task_alive
  /\ task[SystemUpgrade] = "runs"
  /\ ~moduleState
  /\ task' = [task EXCEPT ![SystemUpgrade] = "ended"]
  /\ UNCHANGED <<vars, phase, dead, moduleState, told_end>>

\* The condition of the loop, looked at every three seconds; while it holds,
\* nothing changes.
UpgradeEnds ==
  /\ task[SystemUpgrade] = "runs"
  /\ SystemUpgrade \in dead \/ ~moduleState
  /\ task' = [task EXCEPT ![SystemUpgrade] = "ended"]
  /\ UNCHANGED <<vars, phase, dead, moduleState, told_end>>

\* The task manager, on its own thread: the time is over, or an exception.
\* The upgrade module has given it an action for that, the loop none.
TaskDies(k) ==
  /\ task[k] \in {"ready", "runs"}
  /\ k \notin dead
  /\ dead' = dead \cup {k}
  /\ moduleState' = IF k = SystemUpgrade THEN FALSE ELSE moduleState
  /\ UNCHANGED <<vars, phase, task, told_end>>

\* ... and when the function of the task has returned.
UpgradeExitAction ==
  /\ task[SystemUpgrade] = "ended"
  /\ ~told_end
  /\ moduleState' = FALSE
  /\ told_end' = TRUE
  /\ UNCHANGED <<vars, phase, task, dead>>

-----------------------------------------------------------------------------
PlatNext ==
  \/ LoadConfigures \/ Terminated \/ TaskInit \/ CreateManager
  \/ InitManager \/ InitOtherLists \/ RegisterSdkMidwares
  \/ \E t \in Threads : BeginOther(t) \/ Take(t) \/ Walk(t)
  \/ Status
  \/ LoopBegins \/ UpgradeBegins \/ UpgradeEnds
  \/ \E k \in Tasks : TaskDies(k)
  \/ UpgradeExitAction

PlatSpec == PlatInit /\ [][PlatNext]_appVars

\* Threads that can go on do: init() and exit() of the modules return, the
\* upgrade task looks at its condition every three seconds.
PlatFairSpec ==
  /\ PlatSpec
  /\ \A t \in Threads : WF_appVars(Walk(t))
  /\ WF_appVars(UpgradeBegins) /\ WF_appVars(UpgradeEnds) /\ WF_appVars(UpgradeExitAction)

-----------------------------------------------------------------------------
\* The lock of the list never stays held: no module's init() or exit() waits
\* for something the walk has in its hands.  (mtx_, the modules' callbacks)
LockIsReleased == \A t \in Threads : (mtx = t) ~> (mtx # t)

\* Once the task manager has given the upgrade task up, also when it does so
\* before the task's first statement sets _module_state, the task ends and the
\* module is not reported as working ever after.  (system_upgrade and its
\* actions)
UpgradeIsOver ==
  SystemUpgrade \in dead ~> [](task[SystemUpgrade] = "ended" /\ ~moduleState)

\* A task is started once: init() of its module runs when no task of it has
\* been started, and each is started before the middleware is registered.
\* (init_appmodules, PlatSrvApp::init)
TasksStartOnce ==
  /\ \A t \in Threads :
       call[t] # None /\ Inits(call[t].op) /\ call[t].in /\ call[t].at \in Tasks =>
         task[call[t].at] = "none"
  /\ phase \in {"midwares", "up"} => \A k \in Tasks : task[k] # "none"
=============================================================================
