------------------------------ MODULE AppModules ------------------------------
(***************************************************************************)
(* A list of application modules (core/appmodule.cpp): initialising all or *)
(* one of them, unloading all or one, and reporting their states.          *)
(*                                                                         *)
(* Every operation holds mtx_ from its start to its end, while it walks    *)
(* the list and calls the modules' own init() and exit(), which take time. *)
(* Modules are their positions in the list.                                *)
(***************************************************************************)
EXTENDS Integers

CONSTANTS
  Threads, NoThread,
  N,             \* length of appmodule_list_
  Enabled,       \* base_info.enable()
  HasInit, HasExit,
  Configurable   \* permission() is E_APP_MODULE_CFG_PERMISSION_ENABLE

Modules == 1 .. N

ASSUME ThreadAssumption == NoThread \notin Threads
ASSUME ModulesAssumption ==
  N \in Nat /\ \A S \in {Enabled, HasInit, HasExit, Configurable} : S \subseteq Modules

VARIABLES
  mtx,      \* the thread that holds mtx_
  call,     \* what each thread is doing: its operation and where it is
  state,    \* base_info.state() of each module
  live,     \* history: the modules whose init() has returned and exit() has not
  told      \* the states last reported, with the modules that were live then

vars == <<mtx, call, state, live, told>>

Operations == {"init_all", "finit_all", "init_single", "finit_single"}
None == [op |-> "none"]

\* at: the module whose turn it is, 0 before the lock is held; target: the one
\* module init_single and finit_single are asked for; in: in its callback.
Call == [op : Operations, target : Modules, at : 0 .. N + 1, in : BOOLEAN]

AppTypeOK ==
  /\ mtx \in Threads \cup {NoThread}
  /\ call \in [Threads -> Call \cup {None}]
  /\ state \in [Modules -> {"IDLE", "INSTALLED"}]   \* never INIT or BAD
  /\ live \subseteq Modules

Init ==
  /\ mtx = NoThread
  /\ call = [t \in Threads |-> None]
  /\ state = [m \in Modules |-> "IDLE"]
  /\ live = {}
  /\ told = [state |-> state, live |-> live]

-----------------------------------------------------------------------------
Inits(op) == op \in {"init_all", "init_single"}
Single(op) == op \in {"init_single", "finit_single"}

Wanted_Permission(c, m) ==   \* mutant: the permission is asked for by all four
  /\ m \in Enabled \cap Configurable
  /\ IF Inits(c.op) THEN state[m] = "IDLE" /\ m \in HasInit
                    ELSE state[m] = "INSTALLED" /\ m \in HasExit
  /\ Single(c.op) => m = c.target

\* Does this operation call m's init() or exit()?
Wanted(c, m) ==
  /\ m \in Enabled
  /\ IF Inits(c.op) THEN state[m] = "IDLE" /\ m \in HasInit
                    ELSE state[m] = "INSTALLED" /\ m \in HasExit
  /\ c.op # "init_all" => m \in Configurable
  /\ Single(c.op) => m = c.target

\* A thread makes a call: main once at the start, others on request.
Begin(t, op, m) ==
  /\ call[t] = None
  /\ call' = [call EXCEPT ![t] = [op |-> op, target |-> m, at |-> 0, in |-> FALSE]]
  /\ UNCHANGED <<mtx, state, live, told>>

Lock_Ignored(t) ==   \* mutant: without the lock
  /\ call[t] # None
  /\ call[t].at = 0
  /\ call' = [call EXCEPT ![t].at = 1]
  /\ UNCHANGED <<mtx, state, live, told>>

Lock(t) ==
  /\ mtx = NoThread
  /\ call[t] # None
  /\ call[t].at = 0
  /\ mtx' = t
  /\ call' = [call EXCEPT ![t].at = 1]
  /\ UNCHANGED <<state, live, told>>

At(t, m) == call[t] # None /\ call[t].at = m /\ ~call[t].in

Skip(t, m) ==
  /\ At(t, m)
  /\ ~Wanted(call[t], m)
  /\ call' = [call EXCEPT ![t].at = m + 1]
  /\ UNCHANGED <<mtx, state, live, told>>

Callback(t, m) ==
  /\ At(t, m)
  /\ Wanted(call[t], m)
  /\ call' = [call EXCEPT ![t].in = TRUE]
  /\ UNCHANGED <<mtx, state, live, told>>

Return_Unset(t, m) ==   \* mutant: init() without set_state
  /\ call[t] # None /\ call[t].at = m /\ call[t].in
  /\ call' = [call EXCEPT ![t].at = m + 1, ![t].in = FALSE]
  /\ live' = IF Inits(call[t].op) THEN live \cup {m} ELSE live \ {m}
  /\ UNCHANGED <<mtx, state, told>>

Return_AsksStatus(t, m) ==   \* mutant: init() asks for the status of its own list
  /\ call[t] # None /\ call[t].at = m /\ call[t].in
  /\ mtx = NoThread
  /\ call' = [call EXCEPT ![t].at = m + 1, ![t].in = FALSE]
  /\ state' = [state EXCEPT ![m] = IF call[t].op = "finit_all" THEN "IDLE" ELSE "INSTALLED"]
  /\ live' = IF Inits(call[t].op) THEN live \cup {m} ELSE live \ {m}
  /\ UNCHANGED <<mtx, told>>

\* finit_single sets the state that was there, where finit_all sets IDLE.
Return(t, m) ==
  /\ call[t] # None /\ call[t].at = m /\ call[t].in
  /\ call' = [call EXCEPT ![t].at = m + 1, ![t].in = FALSE]
  /\ state' = [state EXCEPT ![m] = IF call[t].op = "finit_all" THEN "IDLE" ELSE "INSTALLED"]
  /\ live' = IF Inits(call[t].op) THEN live \cup {m} ELSE live \ {m}
  /\ UNCHANGED <<mtx, told>>

Unlock(t) ==
  /\ At(t, N + 1)
  /\ mtx' = NoThread
  /\ call' = [call EXCEPT ![t] = None]
  /\ UNCHANGED <<state, live, told>>

\* appmodules_current_status
CurrentStatus ==
  /\ mtx = NoThread
  /\ told' = [state |-> state, live |-> live]
  /\ UNCHANGED <<mtx, call, state, live>>

Next ==
  \/ \E t \in Threads :
       \/ \E op \in Operations, m \in Modules : Begin(t, op, m)
       \/ Lock(t)
       \/ \E m \in Modules : Skip(t, m) \/ Callback(t, m) \/ Return(t, m)
       \/ Unlock(t)
  \/ CurrentStatus

Spec == Init /\ [][Next]_vars

-----------------------------------------------------------------------------
\* However the calls of the threads follow each other, init() of a module runs
\* only when it is not live, and in one thread at a time.
\* (init_appmodules, init_single_appmodule)
InitsOnce ==
  \A t \in Threads : call[t] # None /\ Inits(call[t].op) /\ call[t].in =>
    /\ call[t].at \notin live
    /\ \A u \in Threads \ {t} : call[u] # None => ~call[u].in

\* init() of a module the configuration may not unload runs when all such
\* modules before it in the list are up: sdk_net_init needs the handy loop.
\* (appmodule_table.cpp, init_appmodules)
InitsInOrder ==
  \A t \in Threads : call[t] # None /\ call[t].op = "init_all" /\ call[t].in =>
    \A m \in (Enabled \cap HasInit) \ Configurable : m < call[t].at => m \in live

\* A module that is up is reported as installed, also while others are being
\* loaded and unloaded.  (appmodules_current_status)
LiveIsReported == \A m \in told.live : told.state[m] = "INSTALLED"
=============================================================================
