--------------------------- MODULE PlatSrvApp_proof ---------------------------
(***************************************************************************)
(* Proofs about AppModules and about PlatSrvApp, which extends it, for     *)
(* lists of any length and any number of threads.  What the start-up adds  *)
(* to the list of modules never disturbs it: every step of PlatSrvApp is a *)
(* step of AppModules or leaves the list alone, so that the theorems about *)
(* the list hold of the whole program.                                     *)
(***************************************************************************)
EXTENDS PlatSrvApp, TLAPS

-----------------------------------------------------------------------------
(* The list of modules (AppModules).  None of the properties is inductive  *)
(* alone: a walk is undisturbed because its thread holds mtx_, and what it *)
(* skips is up because a module that can not be configured is never        *)
(* unloaded.                                                               *)

USE ThreadAssumption, ModulesAssumption DEF Modules, Operations

\* The modules an init_all must have up when it has come past them.
Fixed == (Enabled \cap HasInit) \ Configurable

\* The thread on its walk holds the lock.
Holds == \A t \in Threads : call[t] # None /\ call[t].at > 0 => mtx = t

\* A thread in a callback is at a module, and in init() at one that is IDLE.
InCallback ==
  \A t \in Threads : call[t] # None /\ call[t].in =>
    /\ call[t].at \in Modules
    /\ Inits(call[t].op) => state[call[t].at] = "IDLE"
    /\ ~Inits(call[t].op) => call[t].at \in Configurable

\* States and what is up agree one way, and for fixed modules the other.
StateInv ==
  /\ \A m \in live : state[m] = "INSTALLED"
  /\ \A m \in Fixed : state[m] = "INSTALLED" => m \in live

Walked ==
  \A t \in Threads : call[t] # None /\ call[t].op = "init_all" =>
    \A m \in Fixed : m < call[t].at => m \in live

AppInv == AppTypeOK /\ Holds /\ InCallback /\ StateInv /\ Walked /\ LiveIsReported

\* At first nobody walks the list and nothing is up.
LEMMA InitAppInv == Init => AppInv
BY DEF Init, AppInv, AppTypeOK, Holds, InCallback, StateInv, Walked, LiveIsReported, Fixed

-----------------------------------------------------------------------------
\* None is no call.
LEMMA NoneIsNoCall == None \notin Call
BY DEF None, Call

\* A call begins, before its lock.
LEMMA BeginInv ==
  ASSUME AppInv, NEW t \in Threads, NEW op \in Operations, NEW m \in Modules, Begin(t, op, m)
  PROVE  AppInv'
<1> DEFINE c == [op |-> op, target |-> m, at |-> 0, in |-> FALSE]
<1>1. c \in Call /\ c.op = op /\ c.at = 0 /\ c.in = FALSE
  BY DEF Call
<1>2. call' = [call EXCEPT ![t] = c]
  BY DEF Begin
<1> HIDE DEF c
<1>3. AppTypeOK'
  BY <1>1, <1>2 DEF AppInv, AppTypeOK, Begin
<1>4. Holds' /\ InCallback' /\ Walked'
  BY <1>1, <1>2 DEF AppInv, AppTypeOK, Holds, InCallback, Walked, Begin, Fixed
<1> QED
  BY <1>3, <1>4 DEF AppInv, StateInv, LiveIsReported, Begin

\* What every step of a walk but its callbacks has in common.
LEMMA MoveInv ==
  ASSUME AppInv, NEW t \in Threads, call[t] # None, NEW i \in 1 .. N + 1,
         call' = [call EXCEPT ![t].at = i], ~call[t].in, mtx' = t,
         UNCHANGED <<state, live, told>>,
         mtx = t \/ mtx = NoThread,
         call[t].op = "init_all" => \A m \in Fixed : m < i => m \in live
  PROVE  AppInv'
<1>1. call[t] \in Call
  BY DEF AppInv, AppTypeOK
<1>2. call'[t] \in Call /\ call'[t].at = i /\ call'[t].op = call[t].op /\ call'[t].in = call[t].in
  BY <1>1 DEF AppInv, AppTypeOK, Call
<1>3. \A u \in Threads : u # t => call'[u] = call[u]
  BY DEF AppInv, AppTypeOK
<1>4. call' \in [Threads -> Call \cup {None}]
  BY <1>2, <1>3 DEF AppInv, AppTypeOK
<1>5. Holds' /\ InCallback' /\ Walked'
  BY <1>2, <1>3, <1>4 DEF AppInv, Holds, InCallback, Walked, Fixed
<1> QED
  BY <1>4, <1>5 DEF AppInv, AppTypeOK, StateInv, LiveIsReported

\* It takes the lock.
LEMMA LockAppInv ==
  ASSUME AppInv, NEW t \in Threads, Lock(t)
  PROVE  AppInv'
<1>1. call[t] # None /\ call[t].at = 0 /\ ~call[t].in
  BY DEF Lock, AppInv, InCallback
<1>2. 1 \in 1 .. N + 1 /\ \A m \in Fixed : ~(m < 1)
  BY DEF Fixed
<1> QED
  BY <1>1, <1>2, MoveInv DEF Lock

\* Its walk passes a module over.
LEMMA SkipInv ==
  ASSUME AppInv, NEW t \in Threads, NEW m \in Modules, Skip(t, m)
  PROVE  AppInv'
<1>1. call[t] # None /\ call[t].at = m /\ ~call[t].in /\ mtx = t
  BY DEF Skip, At, AppInv, Holds
<1>2. ASSUME call[t].op = "init_all", NEW k \in Fixed, k < m + 1 PROVE k \in live
  <2>1. CASE k < m
    BY <1>1, <1>2, <2>1 DEF AppInv, Walked
  <2>2. CASE k = m
    <3>1. state[k] # "IDLE"
      BY <1>2, <2>2 DEF Skip, Wanted, Inits, Single, Fixed
    <3> QED
      BY <1>2, <3>1 DEF AppInv, AppTypeOK, StateInv, Fixed
  <2> QED
    BY <1>2, <2>1, <2>2 DEF Fixed
<1>3. call' = [call EXCEPT ![t].at = m + 1] /\ mtx' = t /\ UNCHANGED <<state, live, told>>
  BY <1>1 DEF Skip
<1>4. m + 1 \in 1 .. N + 1
  OBVIOUS
<1> QED
  BY <1>1, <1>2, <1>3, <1>4, MoveInv

\* It calls a module's init() or exit().
LEMMA CallbackInv ==
  ASSUME AppInv, NEW t \in Threads, NEW m \in Modules, Callback(t, m)
  PROVE  AppInv'
<1>1. call[t] # None /\ call[t] \in Call /\ call[t].at = m
  BY DEF Callback, At, AppInv, AppTypeOK
<1>2. /\ call'[t] \in Call /\ call'[t].at = m
      /\ call'[t].op = call[t].op /\ call'[t].in
  BY <1>1 DEF Callback, AppInv, AppTypeOK, Call
<1>3. \A u \in Threads : u # t => call'[u] = call[u]
  BY DEF Callback, AppInv, AppTypeOK
<1>4. call' \in [Threads -> Call \cup {None}]
  BY <1>2, <1>3 DEF Callback, AppInv, AppTypeOK
<1>5. InCallback'
  <2>1. Inits(call[t].op) => state[m] = "IDLE"
    BY <1>1 DEF Callback, Wanted
  <2>2. ~Inits(call[t].op) => m \in Configurable
    BY <1>1 DEF Callback, Wanted, Inits
  <2> QED
    BY <1>2, <1>3, <2>1, <2>2 DEF AppInv, InCallback, Callback, Inits
<1>6. Holds' /\ Walked'
  BY <1>1, <1>2, <1>3 DEF AppInv, Holds, Walked, Callback
<1> QED
  BY <1>4, <1>5, <1>6 DEF AppInv, AppTypeOK, StateInv, LiveIsReported, Callback

\* While one thread is on its walk the others have not begun theirs.
LEMMA OthersWait ==
  ASSUME AppInv, NEW t \in Threads, call[t] # None, call[t].at > 0,
         NEW u \in Threads, u # t, call[u] # None
  PROVE  call[u].at = 0 /\ ~call[u].in
<1>1. ~(call[u].at > 0)
  BY DEF AppInv, Holds
<1>2. call[u] \in Call
  BY DEF AppInv, AppTypeOK
<1>3. call[u].at = 0
  BY <1>1, <1>2 DEF Call
<1> QED
  BY <1>3 DEF AppInv, InCallback

\* The callback returns, and the state is set.
LEMMA ReturnInv ==
  ASSUME AppInv, NEW t \in Threads, NEW m \in Modules, Return(t, m)
  PROVE  AppInv'
<1>1. call[t] # None /\ call[t] \in Call /\ call[t].at = m /\ call[t].in /\ mtx = t
  BY DEF Return, AppInv, AppTypeOK, Holds
<1>2. /\ call'[t] \in Call /\ call'[t].at = m + 1
      /\ call'[t].op = call[t].op /\ ~call'[t].in
  BY <1>1 DEF Return, AppInv, AppTypeOK, Call
<1>3. \A u \in Threads : u # t => call'[u] = call[u]
  BY DEF Return, AppInv, AppTypeOK
<1>4. call' \in [Threads -> Call \cup {None}]
  BY <1>2, <1>3 DEF Return, AppInv, AppTypeOK
<1>5. /\ state' \in [Modules -> {"IDLE", "INSTALLED"}]
      /\ \A k \in Modules : k # m => state'[k] = state[k]
      /\ Inits(call[t].op) => state'[m] = "INSTALLED"
  BY DEF Return, AppInv, AppTypeOK, Inits
<1>6. \/ Inits(call[t].op) /\ live' = live \cup {m}
      \/ ~Inits(call[t].op) /\ live' = live \ {m} /\ m \in Configurable
  BY <1>1 DEF Return, AppInv, InCallback
<1>7. AppTypeOK'
  BY <1>4, <1>5, <1>6 DEF Return, AppInv, AppTypeOK
<1>8. StateInv'
  BY <1>5, <1>6 DEF AppInv, AppTypeOK, StateInv, Fixed
<1>9. Holds' /\ InCallback'
  <2> SUFFICES ASSUME NEW u \in Threads, call'[u] # None
               PROVE  /\ call'[u].at > 0 => mtx' = u
                      /\ ~call'[u].in
    BY DEF Holds, InCallback
  <2>1. CASE u = t
    BY <1>1, <1>2, <2>1 DEF Return
  <2>2. CASE u # t
    BY <1>1, <1>3, <2>2, OthersWait
  <2> QED
    BY <2>1, <2>2
<1>10. Walked'
  <2> SUFFICES ASSUME NEW u \in Threads, call'[u] # None, call'[u].op = "init_all",
                      NEW k \in Fixed, k < call'[u].at
               PROVE  k \in live'
    BY DEF Walked, Fixed
  <2>1. CASE u = t
    BY <1>1, <1>2, <1>6, <2>1 DEF AppInv, Walked, Inits, Fixed
  <2>2. CASE u # t
    BY <1>1, <1>3, <2>2, OthersWait DEF Fixed
  <2> QED
    BY <2>1, <2>2
<1> QED
  BY <1>7, <1>8, <1>9, <1>10 DEF AppInv, LiveIsReported, Return

\* The walk is over.
LEMMA UnlockInv ==
  ASSUME AppInv, NEW t \in Threads, Unlock(t)
  PROVE  AppInv'
<1>1. call[t] # None /\ call[t].at > 0
  BY DEF Unlock, At
<1>2. call'[t] = None /\ \A u \in Threads : u # t => call'[u] = call[u]
  BY DEF Unlock, AppInv, AppTypeOK
<1>3. AppTypeOK'
  BY DEF Unlock, AppInv, AppTypeOK
<1>4. Holds' /\ InCallback' /\ Walked'
  BY <1>1, <1>2, OthersWait DEF Unlock, AppInv, Holds, InCallback, Walked, Fixed
<1> QED
  BY <1>3, <1>4 DEF AppInv, StateInv, LiveIsReported, Unlock

\* What is reported is what is so at that moment.
LEMMA StatusInv ==
  ASSUME AppInv, CurrentStatus
  PROVE  AppInv'
<1>1. told'.state = state /\ told'.live = live
  BY DEF CurrentStatus
<1>2. LiveIsReported'
  BY <1>1 DEF AppInv, StateInv, LiveIsReported
<1> QED
  BY <1>2 DEF CurrentStatus, AppInv, AppTypeOK, Holds, InCallback, StateInv, Walked

\* Every step keeps it.
LEMMA AppInductive == AppInv /\ [Next]_vars => AppInv'
<1> SUFFICES ASSUME AppInv, [Next]_vars PROVE AppInv'
  OBVIOUS
<1>1. CASE UNCHANGED vars
  BY <1>1 DEF vars, AppInv, AppTypeOK, Holds, InCallback, StateInv, Walked, LiveIsReported
<1>2. ASSUME NEW t \in Threads, NEW op \in Operations, NEW m \in Modules, Begin(t, op, m)
      PROVE  AppInv'
  BY <1>2, BeginInv
<1>3. ASSUME NEW t \in Threads, Lock(t) PROVE AppInv'
  BY <1>3, LockAppInv
<1>4. ASSUME NEW t \in Threads, NEW m \in Modules,
             Skip(t, m) \/ Callback(t, m) \/ Return(t, m)
      PROVE  AppInv'
  BY <1>4, SkipInv, CallbackInv, ReturnInv
<1>5. ASSUME NEW t \in Threads, Unlock(t) PROVE AppInv'
  BY <1>5, UnlockInv
<1>6. CASE CurrentStatus
  BY <1>6, StatusInv
<1> QED
  BY <1>1, <1>2, <1>3, <1>4, <1>5, <1>6 DEF Next

\* So it always holds.
LEMMA AppInvariant == Spec => []AppInv
BY InitAppInv, AppInductive, PTL DEF Spec

-----------------------------------------------------------------------------
\* init() of a module is called when it is not up, and never in two threads at
\* once, for lists of any length.  (init_appmodules, init_single_appmodule)
THEOREM ModulesInitOnce == Spec => []InitsOnce
<1>1. AppInv => InitsOnce
  <2> SUFFICES ASSUME AppInv, NEW t \in Threads, call[t] # None, Inits(call[t].op), call[t].in
               PROVE  /\ call[t].at \notin live
                      /\ \A u \in Threads \ {t} : call[u] # None => ~call[u].in
    BY DEF InitsOnce
  <2>1. call[t].at \in Modules /\ state[call[t].at] = "IDLE"
    BY DEF AppInv, InCallback
  <2>2. call[t].at \notin live
    BY <2>1 DEF AppInv, StateInv
  <2> QED
    BY <2>1, <2>2, OthersWait
<1> QED
  BY <1>1, AppInvariant, PTL

\* The modules that can not be configured come up in the order of the list.
\* (appmodule_table.cpp, init_appmodules)
THEOREM ModulesInitInOrder == Spec => []InitsInOrder
<1>1. AppInv => InitsInOrder
  BY DEF AppInv, Walked, InitsInOrder, Fixed
<1> QED
  BY <1>1, AppInvariant, PTL

\* A status never reports a module that is up as anything but installed.
\* (appmodules_current_status)
THEOREM StatusIsTrue == Spec => []LiveIsReported
<1>1. AppInv => LiveIsReported
  BY DEF AppInv
<1> QED
  BY <1>1, AppInvariant, PTL

-----------------------------------------------------------------------------
(* The start-up and the tasks (PlatSrvApp).                                *)

USE ThreadAssumption, ModulesAssumption, MainAssumption, TasksAssumption DEF Modules, Operations

\* Modules with a task are of the list, and are there to stay.
LEMMA TasksAreFixed == Tasks \subseteq Fixed /\ Tasks \subseteq Modules /\ HandyLoop \in Modules
BY DEF Fixed, Tasks

-----------------------------------------------------------------------------
(* The list of modules.                                                    *)

\* A step of a walk is a step of the list.
LEMMA WalkIsNext ==
  ASSUME NEW t \in Threads, Walk(t) PROVE Next
BY DEF Walk, Next

\* What the start-up does to the list is a step of AppModules, or nothing.
LEMMA PlatStep == [PlatNext]_appVars => [Next]_vars
<1> SUFFICES ASSUME [PlatNext]_appVars PROVE [Next]_vars
  OBVIOUS
<1>1. CASE UNCHANGED appVars
  BY <1>1 DEF appVars
<1>2. CASE LoadConfigures \/ Terminated \/ TaskInit \/ CreateManager
  BY <1>2 DEF LoadConfigures, Terminated, TaskInit, CreateManager, appVars
<1>3. CASE InitManager
  <2>1. Begin(Main, "init_all", HandyLoop) /\ "init_all" \in Operations
    BY <1>3 DEF InitManager
  <2> QED
    BY <2>1, TasksAreFixed DEF Next
<1>4. CASE InitOtherLists \/ RegisterSdkMidwares
  BY <1>4 DEF InitOtherLists, RegisterSdkMidwares
<1>5. ASSUME NEW t \in Threads, BeginOther(t) \/ Take(t) \/ Walk(t) PROVE Next
  BY <1>5, WalkIsNext DEF BeginOther, Take, Next
<1>6. CASE Status
  BY <1>6 DEF Status, Next
<1>7. CASE LoopBegins \/ UpgradeBegins \/ UpgradeEnds \/ UpgradeExitAction
  BY <1>7 DEF LoopBegins, UpgradeBegins, UpgradeEnds, UpgradeExitAction
<1>8. ASSUME NEW k \in Tasks, TaskDies(k) PROVE UNCHANGED vars
  BY <1>8 DEF TaskDies
<1> QED
  BY <1>1, <1>2, <1>3, <1>4, <1>5, <1>6, <1>7, <1>8 DEF PlatNext

\* The program uses the list of modules as AppModules has it used.
\* (PlatSrvAppModuleManager::init)
LEMMA PlatIsApp == PlatSpec => Spec
<1>1. PlatInit => Init
  BY DEF PlatInit
<1> QED
  BY <1>1, PlatStep, PTL DEF PlatSpec, Spec

\* Also in the whole program, whoever loads and unloads modules while it
\* starts, init() of a module runs when it is not up and in one thread.
\* (PlatSrvAppModuleManager::init, init_appmodules)
THEOREM PlatInitsOnce == PlatSpec => []InitsOnce
BY PlatIsApp, ModulesInitOnce, PTL

\* ... in the order of the table, the event loop before the server.
\* (appmodule_table.cpp)
THEOREM PlatInitsInOrder == PlatSpec => []InitsInOrder
BY PlatIsApp, ModulesInitInOrder, PTL

\* ... and what is up is reported so.  (appmodules_current_status)
THEOREM PlatStatusIsTrue == PlatSpec => []LiveIsReported
BY PlatIsApp, StatusIsTrue, PTL

-----------------------------------------------------------------------------
(* The tasks.                                                              *)

\* A module with a task is up when its task has been started: such a module
\* can not be configured, hence is never unloaded.
TaskIsUp == \A k \in Tasks : (task[k] # "none") <=> (k \in live)

\* What the main thread has behind it.
MainInv ==
  /\ phase \in {"config", "tasks", "manager", "modules"} => call[Main] = None
  /\ phase = "walk" /\ call[Main] # None => call[Main].op = "init_all"
  /\ phase = "walk" /\ call[Main] = None => Tasks \subseteq live
  /\ phase \in {"midwares", "up"} => Tasks \subseteq live

PlatInv == AppInv /\ PlatTypeOK /\ TaskIsUp /\ MainInv

\* At first no task has started.
LEMMA InitPlatInv == PlatInit => PlatInv
<1> SUFFICES ASSUME PlatInit PROVE PlatInv
  OBVIOUS
<1>1. AppInv /\ AppTypeOK
  BY InitAppInv DEF PlatInit, AppInv
<1> QED
  BY <1>1 DEF PlatInit, PlatInv, PlatTypeOK, TaskIsUp, MainInv, Init

\* The main thread begins to load.
LEMMA BeginMain ==
  ASSUME PlatInv, InitManager, AppInv' PROVE PlatInv'
<1>1. call'[Main] = [op |-> "init_all", target |-> HandyLoop, at |-> 0, in |-> FALSE]
  BY DEF InitManager, Begin, PlatInv, AppInv, AppTypeOK
<1>2. call'[Main] # None /\ call'[Main].op = "init_all"
  BY <1>1 DEF None
<1> QED
  BY <1>2 DEF InitManager, Begin, PlatInv, AppInv, PlatTypeOK, TaskIsUp, MainInv, taskVars

\* Another thread begins a call.
LEMMA BeginOthers ==
  ASSUME PlatInv, NEW t \in Threads, BeginOther(t), AppInv' PROVE PlatInv'
<1>1. call'[Main] = call[Main] /\ UNCHANGED <<live, phase, taskVars>>
  BY DEF BeginOther, Begin, PlatInv, AppInv, AppTypeOK
<1> QED
  BY <1>1 DEF PlatInv, AppInv, PlatTypeOK, TaskIsUp, MainInv, taskVars

\* The steps of a walk that neither begin nor end a call.
LEMMA MovesKeep ==
  ASSUME PlatInv, NEW t \in Threads, call[t] # None,
         call' \in [Threads -> Call \cup {None}],
         call'[t] # None, call'[t].op = call[t].op,
         \A u \in Threads \ {t} : call'[u] = call[u],
         UNCHANGED phase, Tasks \cap live \subseteq live'
  PROVE  MainInv'
<1>1. (call'[Main] = None) <=> (call[Main] = None)
  OBVIOUS
<1>2. call'[Main] # None => call'[Main].op = call[Main].op
  OBVIOUS
<1>3. Tasks \subseteq live => Tasks \subseteq live'
  OBVIOUS
<1> QED
  BY <1>1, <1>2, <1>3 DEF PlatInv, MainInv

\* A thread takes the lock.
LEMMA TakeKeeps ==
  ASSUME PlatInv, NEW t \in Threads, Take(t), AppInv' PROVE PlatInv'
<1>1. call[t] \in Call /\ call[t] # None
  BY DEF Take, Lock, PlatInv, AppInv, AppTypeOK
<1>2. call'[t] \in Call /\ call'[t].op = call[t].op /\ \A u \in Threads \ {t} : call'[u] = call[u]
  BY <1>1 DEF Take, Lock, PlatInv, AppInv, AppTypeOK, Call
<1>3. MainInv'
  BY <1>1, <1>2, MovesKeep, NoneIsNoCall DEF Take, Lock, AppInv, AppTypeOK
<1> QED
  BY <1>3 DEF PlatInv, AppInv, PlatTypeOK, TaskIsUp, Take, Lock, taskVars

\* A walk, in which a module may start its task.
LEMMA WalkKeeps ==
  ASSUME PlatInv, NEW t \in Threads, Walk(t), AppInv' PROVE PlatInv'
<1>1. ASSUME NEW m \in Modules, Skip(t, m) \/ Callback(t, m), UNCHANGED task PROVE PlatInv'
  <2>1. call[t] \in Call /\ call[t] # None
    BY <1>1 DEF Skip, Callback, At, PlatInv, AppInv, AppTypeOK
  <2>2. call'[t] \in Call /\ call'[t].op = call[t].op /\ \A u \in Threads \ {t} : call'[u] = call[u]
    <3>1. CASE Skip(t, m)
      <4>1. call' = [call EXCEPT ![t].at = m + 1] /\ m + 1 \in 0 .. N + 1
        BY <3>1 DEF Skip
      <4>2. call \in [Threads -> Call \cup {None}]
        BY DEF PlatInv, AppInv, AppTypeOK
      <4> QED
        BY <2>1, <4>1, <4>2 DEF Call
    <3>2. CASE Callback(t, m)
      BY <2>1, <3>2 DEF Callback, PlatInv, AppInv, AppTypeOK, Call
    <3> QED
      BY <1>1, <3>1, <3>2
  <2>3. UNCHANGED <<live, phase, task, dead, moduleState, told_end>>
    BY <1>1 DEF Walk, Skip, Callback
  <2>4. MainInv'
    BY <2>1, <2>2, <2>3, MovesKeep, NoneIsNoCall DEF AppInv, AppTypeOK
  <2> QED
    BY <2>3, <2>4 DEF PlatInv, AppInv, PlatTypeOK, TaskIsUp
<1>2. ASSUME NEW m \in Modules, Return(t, m), Started(t, m) PROVE PlatInv'
  <2>1. call[t] \in Call /\ call[t] # None /\ call[t].at = m /\ call[t].in
    BY <1>2 DEF Return, PlatInv, AppInv, AppTypeOK
  <2>2. call'[t] \in Call /\ call'[t].op = call[t].op /\ \A u \in Threads \ {t} : call'[u] = call[u]
    BY <1>2, <2>1 DEF Return, PlatInv, AppInv, AppTypeOK, Call
  <2>3. \/ Inits(call[t].op) /\ live' = live \cup {m}
        \/ ~Inits(call[t].op) /\ live' = live \ {m} /\ m \notin Tasks
    BY <1>2, <2>1 DEF Return, PlatInv, AppInv, InCallback
  <2>4. UNCHANGED <<phase, dead, moduleState, told_end>>
    BY DEF Walk
  <2>5. MainInv'
    BY <2>1, <2>2, <2>3, <2>4, MovesKeep, NoneIsNoCall DEF AppInv, AppTypeOK
  <2>6. TaskIsUp' /\ task' \in [Tasks -> {"none", "ready", "runs", "ended"}]
    <3>1. CASE m \in Tasks /\ Inits(call[t].op)
      BY <1>2, <2>3, <3>1 DEF Started, PlatInv, PlatTypeOK, TaskIsUp
    <3>2. CASE ~(m \in Tasks /\ Inits(call[t].op))
      BY <1>2, <2>3, <3>2 DEF Started, PlatInv, PlatTypeOK, TaskIsUp
    <3> QED
      BY <3>1, <3>2
  <2> QED
    BY <2>4, <2>5, <2>6 DEF PlatInv, AppInv, PlatTypeOK
<1>3. ASSUME Unlock(t), UNCHANGED task PROVE PlatInv'
  <2>1. call[t] # None /\ call[t].at = N + 1
    BY <1>3 DEF Unlock, At
  <2>2. call'[t] = None /\ \A u \in Threads \ {t} : call'[u] = call[u]
    BY <1>3 DEF Unlock, PlatInv, AppInv, AppTypeOK
  <2>3. UNCHANGED <<live, phase, task, dead, moduleState, told_end>>
    BY <1>3 DEF Walk, Unlock
  <2>4. ASSUME t = Main, phase = "walk" PROVE Tasks \subseteq live
    <3>1. \A k \in Fixed : k < N + 1 => k \in live
      BY <2>1, <2>4 DEF PlatInv, MainInv, AppInv, Walked
    <3> QED
      BY <3>1, TasksAreFixed
  <2>5. MainInv'
    BY <2>2, <2>3, <2>4 DEF PlatInv, MainInv
  <2> QED
    BY <2>3, <2>5 DEF PlatInv, AppInv, PlatTypeOK, TaskIsUp
<1> QED
  BY <1>1, <1>2, <1>3 DEF Walk

\* The tasks' own steps: none starts a task, none touches the list.
LEMMA TasksKeep ==
  ASSUME PlatInv, AppInv',
         \/ LoopBegins \/ UpgradeBegins \/ UpgradeEnds \/ UpgradeExitAction
         \/ \E k \in Tasks : TaskDies(k)
  PROVE  PlatInv'
<1>1. UNCHANGED <<live, call, phase>>
  BY DEF LoopBegins, UpgradeBegins, UpgradeEnds, UpgradeExitAction, TaskDies, vars
<1>2. PlatTypeOK'
  BY <1>1 DEF LoopBegins, UpgradeBegins, UpgradeEnds, UpgradeExitAction, TaskDies,
              PlatInv, AppInv, PlatTypeOK
<1>3. \A k \in Tasks : (task'[k] # "none") <=> (task[k] # "none")
  BY DEF LoopBegins, UpgradeBegins, UpgradeEnds, UpgradeExitAction, TaskDies, PlatInv, PlatTypeOK
<1> QED
  BY <1>1, <1>2, <1>3 DEF PlatInv, TaskIsUp, MainInv

\* Every step of the start-up keeps it.
LEMMA PlatInductive == PlatInv /\ [PlatNext]_appVars => PlatInv'
<1> SUFFICES ASSUME PlatInv, [PlatNext]_appVars PROVE PlatInv'
  OBVIOUS
<1>0. AppInv'
  BY PlatStep, AppInductive DEF PlatInv
<1>1. CASE UNCHANGED appVars \/ Terminated
  <2>1. UNCHANGED <<vars, phase, task, dead, moduleState, told_end>>
    BY <1>1 DEF appVars, Terminated, taskVars
  <2> QED
    BY <1>0, <2>1 DEF PlatInv, AppInv, PlatTypeOK, TaskIsUp, MainInv, vars
<1>2. CASE LoadConfigures \/ TaskInit \/ CreateManager \/ InitOtherLists \/ RegisterSdkMidwares
  <2>1. UNCHANGED <<call, live, task, dead, moduleState, told_end>>
    BY <1>2 DEF LoadConfigures, TaskInit, CreateManager, InitOtherLists, RegisterSdkMidwares,
                vars, taskVars
  <2>2. MainInv' /\ phase' \in {"config", "tasks", "manager", "modules", "walk", "midwares", "up",
                                "terminated"}
    BY <1>2, <2>1 DEF LoadConfigures, TaskInit, CreateManager, InitOtherLists,
                      RegisterSdkMidwares, PlatInv, MainInv
  <2> QED
    BY <1>0, <2>1, <2>2 DEF PlatInv, AppInv, PlatTypeOK, TaskIsUp
<1>3. CASE InitManager
  BY <1>0, <1>3, BeginMain
<1>4. ASSUME NEW t \in Threads, BeginOther(t) \/ Take(t) \/ Walk(t) PROVE PlatInv'
  BY <1>0, <1>4, BeginOthers, TakeKeeps, WalkKeeps
<1>5. CASE Status
  BY <1>0, <1>5 DEF Status, CurrentStatus, taskVars, PlatInv, AppInv, PlatTypeOK, TaskIsUp, MainInv
<1>6. CASE \/ LoopBegins \/ UpgradeBegins \/ UpgradeEnds \/ UpgradeExitAction
           \/ \E k \in Tasks : TaskDies(k)
  BY <1>0, <1>6, TasksKeep
<1> QED
  BY <1>1, <1>2, <1>3, <1>4, <1>5, <1>6 DEF PlatNext

\* So it always holds.
LEMMA PlatInvariant == PlatSpec => []PlatInv
BY InitPlatInv, PlatInductive, PTL DEF PlatSpec

\* However the start-up and other threads' loading and unloading interleave,
\* the event loop and the upgrade task are started once, and before the
\* middleware is registered.  (init_appmodules, PlatSrvApp::init)
THEOREM EachTaskStartsOnce == PlatSpec => []TasksStartOnce
<1>1. PlatInv => TasksStartOnce
  <2> SUFFICES ASSUME PlatInv PROVE TasksStartOnce
    OBVIOUS
  <2>1. ASSUME NEW t \in Threads, call[t] # None, Inits(call[t].op), call[t].in,
               call[t].at \in Tasks
        PROVE  task[call[t].at] = "none"
    <3>1. state[call[t].at] = "IDLE"
      BY <2>1 DEF PlatInv, AppInv, InCallback
    <3>2. call[t].at \notin live
      BY <3>1 DEF PlatInv, AppInv, StateInv
    <3> QED
      BY <2>1, <3>2 DEF PlatInv, TaskIsUp
  <2>2. phase \in {"midwares", "up"} => \A k \in Tasks : task[k] # "none"
    BY DEF PlatInv, MainInv, TaskIsUp
  <2> QED
    BY <2>1, <2>2 DEF TasksStartOnce
<1> QED
  BY <1>1, PlatInvariant, PTL
=============================================================================
