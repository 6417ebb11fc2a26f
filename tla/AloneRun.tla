------------------------------- MODULE AloneRun -------------------------------
(***************************************************************************)
(* alone_run (main.cpp): a process of the server takes a lock on the pid   *)
(* file before it starts, so that only one runs.  The kernel gives the     *)
(* lock up when its process ends; the file stays.                          *)
(*                                                                         *)
(* Each system call is one action: several processes may be in alone_run   *)
(* at the same time, and each may be killed between any two calls.         *)
(***************************************************************************)
CONSTANTS
  Procs, NoProc    \* process ids; one is used again after its process has ended

ASSUME ProcsAssumption == NoProc \notin Procs

VARIABLES
  pc,        \* the statement of alone_run each process is at
  lock,      \* the process that holds the write lock
  pidfile,   \* the process id in the file, NoProc when it is empty
  unlocked   \* history: a process has gone on although fcntl has failed

aloneVars == <<pc, lock, pidfile, unlocked>>

AloneTypeOK ==
  /\ pc \in [Procs -> {"none", "lock", "truncate", "write", "run"}]
  /\ lock \in Procs \cup {NoProc}
  /\ pidfile \in Procs \cup {NoProc}
  /\ unlocked \in BOOLEAN

AloneInit ==
  /\ pc = [p \in Procs |-> "none"]
  /\ lock = NoProc
  /\ pidfile = NoProc
  /\ unlocked = FALSE

-----------------------------------------------------------------------------
OpenFile_WritesPid(p) ==   \* mutant: the pid is written before the lock is held
  /\ pc[p] = "none"
  /\ pc' = [pc EXCEPT ![p] = "lock"]
  /\ pidfile' = p
  /\ UNCHANGED <<lock, unlocked>>

\* open; a process that can not open the file exits.
OpenFile(p) ==
  /\ pc[p] = "none"
  /\ pc' = [pc EXCEPT ![p] = "lock"]
  /\ UNCHANGED <<lock, pidfile, unlocked>>

LockFile(p) ==
  /\ pc[p] = "lock"
  /\ lock = NoProc
  /\ lock' = p
  /\ pc' = [pc EXCEPT ![p] = "truncate"]
  /\ UNCHANGED <<pidfile, unlocked>>

LockHeld_GoesOn(p) ==   \* mutant: without the exit
  /\ pc[p] = "lock"
  /\ lock # NoProc
  /\ pc' = [pc EXCEPT ![p] = "truncate"]
  /\ UNCHANGED <<lock, pidfile, unlocked>>

\* EACCES or EAGAIN: "proccessing is running!", and exit.
LockHeld(p) ==
  /\ pc[p] = "lock"
  /\ lock # NoProc
  /\ pc' = [pc EXCEPT ![p] = "none"]
  /\ UNCHANGED <<lock, pidfile, unlocked>>

\* Any other errno is printed, and the process goes on without the lock.
LockError(p) ==
  /\ pc[p] = "lock"
  /\ pc' = [pc EXCEPT ![p] = "truncate"]
  /\ unlocked' = TRUE
  /\ UNCHANGED <<lock, pidfile>>

TruncateFile(p) ==
  /\ pc[p] = "truncate"
  /\ pidfile' = NoProc
  /\ pc' = [pc EXCEPT ![p] = "write"]
  /\ UNCHANGED <<lock, unlocked>>

\* Nobody looks whether write has succeeded.
WritePid(p) ==
  /\ pc[p] = "write"
  /\ pidfile' \in {p, pidfile}
  /\ pc' = [pc EXCEPT ![p] = "run"]
  /\ UNCHANGED <<lock, unlocked>>

\* The process ends or is killed.
End(p) ==
  /\ pc[p] # "none"
  /\ pc' = [pc EXCEPT ![p] = "none"]
  /\ lock' = IF lock = p THEN NoProc ELSE lock
  /\ UNCHANGED <<pidfile, unlocked>>

Start(p) ==
  \/ OpenFile(p)
  \/ LockFile(p) \/ LockHeld(p) \/ LockError(p)
  \/ TruncateFile(p)
  \/ WritePid(p)

Running == {p \in Procs : pc[p] = "run"}

-----------------------------------------------------------------------------
\* main.cpp:16 "保证只有一个程序运行": one server runs at a time, however the
\* starts and ends of processes interleave, as long as fcntl fails only for a
\* lock that is held.  (alone_run)
OnlyOneRuns == ~unlocked => \A p, q \in Running : p = q

\* The file holds the process id of the server that runs or, where writing it
\* has failed, nothing; never that of another process, dead or starting.
\* (alone_run: ftruncate and write come after the lock)
PidFileIsRunners == ~unlocked => \A p \in Running : pidfile \in {p, NoProc}
=============================================================================
