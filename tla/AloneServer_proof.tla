-------------------------- MODULE AloneServer_proof --------------------------
(***************************************************************************)
(* Proofs about AloneRun and AloneServer, for any number of processes.     *)
(* The only fact about processes the argument needs is that those past     *)
(* fcntl hold the lock, so that there is one of them; what it has found in *)
(* the table then stays true until it acts on it.                          *)
(***************************************************************************)
EXTENDS AloneServer, FiniteSetTheorems, TLAPS

\* The part of alone_run that comes after the lock, and the server.
Critical == {"truncate", "write", "run"}

LockInv ==
  ~unlocked =>
    \A p \in Procs :
      /\ pc[p] \in Critical => lock = p
      /\ pc[p] = "write" => pidfile = NoProc
      /\ pc[p] = "run" => pidfile \in {p, NoProc}

\* What init() and user_exist have found is still so when INSERT is executed.
StepsInv ==
  ~unlocked =>
    \A p \in Procs :
      /\ job[p].at = "created" => rows = {}
      /\ job[p].at = "adding" => ~UserExist(job[p].name, job[p].name)

\* Every process that has come past CREATE TABLE finds the table.
TableInv == \A p \in Procs : job[p].at \in {"created", "ready", "adding"} => table

ServerInv ==
  /\ ServerTypeOK
  /\ TableInv
  /\ IsFiniteSet(rows)
  /\ LockInv
  /\ StepsInv
  /\ RowsUnique

-----------------------------------------------------------------------------
\* The kernel's lock alone: whatever a process does in alone_run, or how it
\* ends, those past fcntl hold the lock.  (alone_run)
LEMMA AloneStep ==
  ASSUME AloneTypeOK, LockInv, NEW p \in Procs, Start(p) \/ End(p)
  PROVE  AloneTypeOK' /\ LockInv'
<1> USE ProcsAssumption
<1>1. CASE OpenFile(p)
  BY <1>1 DEF OpenFile, AloneTypeOK, LockInv, Critical
<1>2. CASE LockFile(p)
  BY <1>2 DEF LockFile, AloneTypeOK, LockInv, Critical
<1>3. CASE LockHeld(p)
  BY <1>3 DEF LockHeld, AloneTypeOK, LockInv, Critical
<1>4. CASE LockError(p)
  BY <1>4 DEF LockError, AloneTypeOK, LockInv
<1>5. CASE TruncateFile(p)
  BY <1>5 DEF TruncateFile, AloneTypeOK, LockInv, Critical
<1>6. CASE WritePid(p)
  BY <1>6 DEF WritePid, AloneTypeOK, LockInv, Critical
<1>7. CASE End(p)
  BY <1>7 DEF End, AloneTypeOK, LockInv, Critical
<1> QED
  BY <1>1, <1>2, <1>3, <1>4, <1>5, <1>6, <1>7 DEF Start

\* One process runs, and the file says nothing else: from LockInv alone.
LEMMA LockedIsAlone ==
  ASSUME AloneTypeOK, LockInv
  PROVE  OnlyOneRuns /\ PidFileIsRunners
BY DEF AloneTypeOK, LockInv, Critical, OnlyOneRuns, PidFileIsRunners, Running

\* At first no process runs and there is no table.
LEMMA InitServer == ServerInit => ServerInv
<1> SUFFICES ASSUME ServerInit PROVE ServerInv
  OBVIOUS
<1>1. AloneTypeOK /\ LockInv
  BY DEF ServerInit, AloneInit, AloneTypeOK, LockInv, Critical
<1>2. job \in [Procs -> Job] /\ \A p \in Procs : job[p].at = "closed"
  BY AdminAssumption DEF ServerInit, Job, At
<1>3. rows = {} /\ table = FALSE /\ IsFiniteSet(rows)
  BY FS_EmptySet DEF ServerInit
<1>4. StepsInv /\ TableInv /\ RowsUnique
  BY <1>2, <1>3 DEF StepsInv, TableInv, RowsUnique
<1> QED
  BY <1>1, <1>2, <1>3, <1>4 DEF ServerInv, ServerTypeOK

\* A new row has an id in Nat and no user's name, as nobody was found.
LEMMA InsertKeeps ==
  ASSUME rows \subseteq Rows, IsFiniteSet(rows), NEW name \in Names, NEW nik \in Names,
         Insert(name, nik)
  PROVE  /\ rows' \subseteq Rows
         /\ IsFiniteSet(rows')
         /\ ~UserExist(name, nik) /\ name = nik /\ RowsUnique /\ unlocked' = unlocked
              => RowsUnique'
         /\ rows = {} => RowsUnique'
<1> DEFINE new == [id |-> Cardinality(rows) + 1, name |-> name, nik |-> nik]
<1>1. new \in Rows
  BY FS_CardinalityType DEF Rows
<1>2. rows' = rows \cup {new}
  BY DEF Insert
<1>3. IsFiniteSet(rows')
  BY <1>2, FS_AddElement
<1>4. new.name = name /\ new.nik = nik
  OBVIOUS
<1> HIDE DEF new
<1>5. ASSUME ~UserExist(name, nik), RowsUnique, unlocked' = unlocked
      PROVE  RowsUnique'
  BY <1>2, <1>4, <1>5 DEF RowsUnique, UserExist
<1>6. ASSUME rows = {}
      PROVE  RowsUnique'
  BY <1>2, <1>6 DEF RowsUnique
<1> QED
  BY <1>1, <1>2, <1>3, <1>5, <1>6

-----------------------------------------------------------------------------
\* Only the process that holds the lock is in init() or in add_user.
LEMMA OneInServer ==
  ASSUME ServerInv, ~unlocked, NEW p \in Procs, NEW q \in Procs,
         job[p].at # "closed", job[q].at # "closed"
  PROVE  p = q
BY DEF ServerInv, ServerTypeOK, LockInv, Critical

\* A step of the server proper leaves alone_run's state as it is.
LEMMA ServerStep ==
  ASSUME ServerInv, NEW p \in Procs, UNCHANGED aloneVars,
         \/ Open(p) \/ TableFound(p) \/ CreateTable(p) \/ InsertAdmin(p)
         \/ \E name \in Names : LookForUser(p, name)
         \/ InsertUser(p)
  PROVE  ServerInv'
<1> USE DEF ServerInv, ServerTypeOK, TableInv
<1>1. AloneTypeOK' /\ LockInv' /\ unlocked' = unlocked /\ pc' = pc
  BY DEF aloneVars, AloneTypeOK, LockInv
<1>2. CASE Open(p)
  <2>1. job' \in [Procs -> Job] /\ job'[p].at = "opened"
    BY <1>2, AdminAssumption DEF Open, Job, At
  <2>2. StepsInv' /\ RowsUnique'
    BY <1>1, <1>2, <2>1 DEF Open, StepsInv, RowsUnique, UserExist, At
  <2> QED
    BY <1>1, <1>2, <2>1, <2>2 DEF Open
<1>3. CASE TableFound(p)
  <2>1. job' \in [Procs -> Job] /\ job'[p].at = "ready"
    BY <1>3, AdminAssumption DEF TableFound, Job, At
  <2>2. StepsInv' /\ RowsUnique'
    BY <1>1, <1>3, <2>1 DEF TableFound, StepsInv, RowsUnique, UserExist, At
  <2> QED
    BY <1>1, <1>3, <2>1, <2>2 DEF TableFound
<1>4. CASE CreateTable(p)
  <2>1. job' \in [Procs -> Job] /\ job'[p].at = "created"
    BY <1>4, AdminAssumption DEF CreateTable, Job, At
  <2>2. rows = {} /\ rows' = {}
    BY <1>4 DEF CreateTable
  <2>3. StepsInv' /\ RowsUnique'
    BY <2>2 DEF StepsInv, RowsUnique, UserExist
  <2> QED
    BY <1>1, <1>4, <2>1, <2>2, <2>3 DEF CreateTable
<1>5. CASE InsertAdmin(p)
  <2>1. job' \in [Procs -> Job] /\ job'[p].at = "ready"
    BY <1>5, AdminAssumption DEF InsertAdmin, Job, At
  <2>2. rows' \subseteq Rows /\ IsFiniteSet(rows') /\ (rows = {} => RowsUnique')
    BY <1>5, AdminAssumption, InsertKeeps DEF InsertAdmin
  <2>3. RowsUnique'
    <3>1. ~unlocked => rows = {}
      BY <1>5 DEF InsertAdmin, StepsInv
    <3> QED
      BY <1>1, <2>2, <3>1 DEF RowsUnique
  <2>4. StepsInv'
    <3> SUFFICES ASSUME ~unlocked, NEW q \in Procs PROVE job'[q].at \notin {"created", "adding"}
      BY <1>1 DEF StepsInv
    <3>1. CASE q = p
      BY <2>1, <3>1
    <3>2. CASE q # p
      <4>1. job'[q] = job[q]
        BY <1>5, <3>2 DEF InsertAdmin
      <4>2. job[p].at # "closed"
        BY <1>5 DEF InsertAdmin
      <4> QED
        BY <3>2, <4>1, <4>2, OneInServer
    <3> QED
      BY <3>1, <3>2
  <2>5. table' /\ \A q \in Procs : job'[q].at # "closed" => pc'[q] = "run"
    BY <1>1, <1>5
    DEF InsertAdmin, At
  <2> QED
    BY <1>1, <1>5, <2>1, <2>2, <2>3, <2>4, <2>5 DEF InsertAdmin
<1>6. CASE \E name \in Names : LookForUser(p, name)
  <2>1. PICK name \in Names : LookForUser(p, name)
    BY <1>6
  <2>2. /\ job' \in [Procs -> Job]
        /\ job'[p].at = "adding" /\ job'[p].name = name
        /\ ~UserExist(name, name)
    BY <2>1 DEF LookForUser, Job
  <2>3. RowsUnique' /\ StepsInv'
    BY <1>1, <2>1, <2>2 DEF LookForUser, StepsInv, RowsUnique, UserExist
  <2> QED
    BY <1>1, <2>1, <2>2, <2>3 DEF LookForUser
<1>7. CASE InsertUser(p)
  <2>1. job' \in [Procs -> Job] /\ job'[p].at = "ready"
    BY <1>7, AdminAssumption DEF InsertUser, Job, At
  <2>2. job[p].name \in Names /\ Insert(job[p].name, job[p].name)
    BY <1>7 DEF InsertUser, Job
  <2>3. rows' \subseteq Rows /\ IsFiniteSet(rows')
    BY <2>2, InsertKeeps
  <2>4. RowsUnique'
    <3>1. ~unlocked => ~UserExist(job[p].name, job[p].name)
      BY <1>7 DEF InsertUser, StepsInv
    <3> QED
      BY <1>1, <2>2, <3>1, InsertKeeps DEF RowsUnique
  <2>5. StepsInv'
    <3> SUFFICES ASSUME ~unlocked, NEW q \in Procs PROVE job'[q].at \notin {"created", "adding"}
      BY <1>1 DEF StepsInv
    <3>1. CASE q = p
      BY <2>1, <3>1
    <3>2. CASE q # p
      <4>1. job'[q] = job[q]
        BY <1>7, <3>2 DEF InsertUser
      <4>2. job[p].at # "closed"
        BY <1>7 DEF InsertUser
      <4> QED
        BY <3>2, <4>1, <4>2, OneInServer
    <3> QED
      BY <3>1, <3>2
  <2>6. table' /\ \A q \in Procs : job'[q].at # "closed" => pc'[q] = "run"
    BY <1>1, <1>7 DEF InsertUser, At
  <2> QED
    BY <1>1, <1>7, <2>1, <2>3, <2>4, <2>5, <2>6 DEF InsertUser
<1> QED
  BY <1>2, <1>3, <1>4, <1>5, <1>6, <1>7

\* A step of alone_run, or the end of a process, touches no row.  A process
\* in alone_run has no database connection.
LEMMA ProcessStep ==
  ASSUME ServerInv, NEW p \in Procs,
         \/ Start(p) /\ UNCHANGED <<table, rows, job>>
         \/ EndServer(p)
  PROVE  ServerInv'
<1>1. AloneTypeOK' /\ LockInv'
  BY AloneStep DEF EndServer, ServerInv, ServerTypeOK
<1>2. rows' = rows /\ table' = table /\ (unlocked => unlocked')
  BY DEF EndServer, Start, OpenFile, LockFile, LockHeld, LockError, TruncateFile, WritePid, End
<1>3. RowsUnique'
  BY <1>2 DEF ServerInv, RowsUnique
<1>4. CASE Start(p) /\ UNCHANGED <<table, rows, job>>
  <2>1. StepsInv' /\ TableInv'
    BY <1>2, <1>4 DEF ServerInv, StepsInv, TableInv, UserExist
  <2>2. \A q \in Procs : job'[q].at # "closed" => pc'[q] = "run"
    BY <1>4 DEF Start, OpenFile, LockFile, LockHeld, LockError, TruncateFile, WritePid,
                ServerInv, ServerTypeOK, AloneTypeOK
  <2> QED
    BY <1>1, <1>2, <1>3, <1>4, <2>1, <2>2 DEF ServerInv, ServerTypeOK
<1>5. CASE EndServer(p)
  <2>1. job' \in [Procs -> Job] /\ job'[p].at = "closed"
    BY <1>5, AdminAssumption DEF EndServer, Job, At, ServerInv, ServerTypeOK
  <2>2. \A q \in Procs : q # p => job'[q] = job[q] /\ pc'[q] = pc[q]
    BY <1>5 DEF EndServer, End, ServerInv, ServerTypeOK, AloneTypeOK
  <2>3. StepsInv' /\ TableInv'
    BY <1>2, <2>1, <2>2 DEF ServerInv, StepsInv, TableInv, UserExist
  <2> QED
    BY <1>1, <1>2, <1>3, <2>1, <2>2, <2>3 DEF ServerInv, ServerTypeOK
<1> QED
  BY <1>4, <1>5

\* Every step of every process keeps the invariant.
LEMMA ServerInductive == ServerInv /\ [ServerNext]_serverVars => ServerInv'
<1> SUFFICES ASSUME ServerInv, [ServerNext]_serverVars PROVE ServerInv'
  OBVIOUS
<1>1. CASE UNCHANGED serverVars
  BY <1>1 DEF serverVars, aloneVars, ServerInv, ServerTypeOK, AloneTypeOK, TableInv,
              LockInv, StepsInv, RowsUnique, UserExist
<1>2. CASE ServerNext
  <2>1. PICK p \in Procs :
          \/ Start(p) /\ UNCHANGED <<table, rows, job>>
          \/ Open(p) \/ TableFound(p) \/ CreateTable(p) \/ InsertAdmin(p)
          \/ \E name \in Names : LookForUser(p, name)
          \/ InsertUser(p)
          \/ EndServer(p)
    BY <1>2 DEF ServerNext
  <2>2. CASE (Start(p) /\ UNCHANGED <<table, rows, job>>) \/ EndServer(p)
    BY <2>2, ProcessStep
  <2>3. CASE \/ Open(p) \/ TableFound(p) \/ CreateTable(p) \/ InsertAdmin(p)
             \/ \E name \in Names : LookForUser(p, name)
             \/ InsertUser(p)
    <3>1. UNCHANGED aloneVars
      BY <2>3 DEF Open, TableFound, CreateTable, InsertAdmin, LookForUser, InsertUser
    <3> QED
      BY <2>3, <3>1, ServerStep
  <2> QED
    BY <2>1, <2>2, <2>3
<1> QED
  BY <1>1, <1>2

\* So it always holds.
LEMMA ServerInvariant == ServerSpec => []ServerInv
BY InitServer, ServerInductive, PTL DEF ServerSpec

-----------------------------------------------------------------------------
\* Of any number of processes one runs at a time.  (alone_run)
THEOREM OneServer == ServerSpec => []OnlyOneRuns
<1>1. ServerInv => OnlyOneRuns
  BY LockedIsAlone DEF ServerInv, ServerTypeOK
<1> QED
  BY <1>1, ServerInvariant, PTL

\* The pid file never names another process than the one that runs.
\* (alone_run)
THEOREM PidFileTrue == ServerSpec => []PidFileIsRunners
<1>1. ServerInv => PidFileIsRunners
  BY LockedIsAlone DEF ServerInv, ServerTypeOK
<1> QED
  BY <1>1, ServerInvariant, PTL

\* No user is inserted twice, by any number of processes that start and end
\* between any two statements.  (init, user_exist, add_user, alone_run)
THEOREM RowsStayUnique == ServerSpec => []RowsUnique
<1>1. ServerInv => RowsUnique
  BY DEF ServerInv
<1> QED
  BY <1>1, ServerInvariant, PTL

-----------------------------------------------------------------------------
(* The refinement of SdkUserDb: its three variables, as AloneServer maps   *)
(* them, and what each kind of step does to them.                          *)

Slim(r) == [name |-> r.name, nik |-> r.nik, pass |-> "pass",
            perm |-> "U_PERMISSION_ADMIN", valid |-> TRUE, black |-> FALSE]
DbRows == {Slim(r) : r \in rows}
DbNow == IF Running = {} THEN "closed" ELSE DbOf(job[CHOOSE p \in Running : TRUE].at)

\* What the abstract actions are under the mapping.
LEMMA MappedActions ==
  /\ Db!dbVars = <<table, DbRows, DbNow>>
  /\ Db!dbVars' = <<table', DbRows', DbNow'>>
  /\ Db!Open <=> DbNow = "closed" /\ DbNow' = "opened" /\ UNCHANGED <<table, DbRows>>
  /\ Db!TableFound <=>
        DbNow = "opened" /\ table /\ DbNow' = "ready" /\ UNCHANGED <<table, DbRows>>
  /\ Db!CreateTable <=>
        DbNow = "opened" /\ ~table /\ table' = TRUE /\ DbNow' = "created" /\ UNCHANGED DbRows
  /\ Db!Crash <=> DbNow # "closed" /\ DbNow' = "closed" /\ UNCHANGED <<table, DbRows>>
BY DEF Db!dbVars, Db!Open, Db!TableFound, Db!CreateTable, Db!Crash, DbRows, DbNow, Slim

\* What inserting the administrator is in terms of the table SdkUserDb sees.
LEMMA MappedInsertAdmin ==
  Db!InsertAdmin <=>
    /\ DbNow = "created"
    /\ DbRows' = DbRows \cup {Slim([name |-> AdminName, nik |-> AdminNik])}
    /\ DbNow' = "ready" /\ UNCHANGED table
BY DEF Db!InsertAdmin, Db!NewRow, DbRows, DbNow, Slim

\* Inserting a row nobody has the names of is a step of SdkUserDb.
LEMMA MappedAddUser ==
  ASSUME NEW name \in Names, DbNow = "ready", DbNow' = "ready", UNCHANGED table,
         \A r \in DbRows : r.name # name /\ r.nik # name,
         DbRows' = DbRows \cup {Slim([name |-> name, nik |-> name])}
  PROVE  Db!DbNext
<1>1. ~Db!UserExist(name, name)
  BY DEF Db!UserExist, Db!ByName, Db!ByNik, DbRows, Slim
<1>2. Db!AddUser(name, name, "pass", "U_PERMISSION_ADMIN", "e_sdk_user_db_ok")
  BY <1>1 DEF Db!AddUser, Db!NewRow, DbRows, Slim
<1>3. Db!DbCall
  BY <1>2 DEF Db!DbCall, Db!Errors, DbNow
<1> QED
  BY <1>3 DEF Db!DbNext

\* The abstract process is the one that runs.
LEMMA RunningIsOne ==
  ASSUME ServerInv, ~unlocked, NEW p \in Procs, pc[p] = "run"
  PROVE  Running = {p} /\ DbNow = DbOf(job[p].at)
<1>1. Running = {p}
  BY LockedIsAlone DEF ServerInv, ServerTypeOK, OnlyOneRuns, Running
<1> QED
  BY <1>1 DEF DbNow

\* When no process runs, the abstract database is closed.
LEMMA NoneRuns ==
  ASSUME Running = {}
  PROVE  DbNow = "closed"
BY DEF DbNow

\* INSERT of a row whose names are name and nik.
LEMMA MappedInsert ==
  ASSUME NEW name, NEW nik, Insert(name, nik)
  PROVE  DbRows' = DbRows \cup {Slim([name |-> name, nik |-> nik])}
<1> DEFINE new == [id |-> Cardinality(rows) + 1, name |-> name, nik |-> nik]
<1>1. rows' = rows \cup {new}
  BY DEF Insert
<1>2. Slim(new) = Slim([name |-> name, nik |-> nik])
  BY DEF Slim
<1> HIDE DEF new
<1>3. DbRows' = DbRows \cup {Slim(new)}
  BY <1>1 DEF DbRows
<1> QED
  BY <1>2, <1>3

\* A process that starts, fails to start or ends.
LEMMA ProcessStepMaps ==
  ASSUME ServerInv, ServerInv', ~unlocked', NEW p \in Procs,
         \/ Start(p) /\ UNCHANGED <<table, rows, job>>
         \/ EndServer(p)
  PROVE  Db!Crash \/ UNCHANGED Db!dbVars
<1>1. ~unlocked /\ UNCHANGED <<table, rows, DbRows>>
  BY DEF EndServer, Start, OpenFile, LockFile, LockHeld, LockError, TruncateFile, WritePid,
         End, DbRows
<1>2. pc \in [Procs -> {"none", "lock", "truncate", "write", "run"}]
  BY DEF ServerInv, ServerTypeOK, AloneTypeOK
<1>3. CASE WritePid(p) /\ UNCHANGED job
  <2>1. Running = {}
    BY <1>1, <1>3 DEF WritePid, Running, ServerInv, LockInv, Critical
  <2>2. pc'[p] = "run"
    BY <1>2, <1>3 DEF WritePid
  <2>3. DbNow' = DbOf(job'[p].at)
    <3>1. Running' = {p}
      BY <2>2 DEF ServerInv, ServerTypeOK, AloneTypeOK, LockInv, Critical, Running
    <3> QED
      BY <3>1 DEF DbNow
  <2>4. job'[p].at = "closed"
    BY <1>3 DEF WritePid, ServerInv, ServerTypeOK
  <2> QED
    BY <1>1, <2>1, <2>3, <2>4, NoneRuns, MappedActions DEF DbOf
<1>4. CASE Start(p) /\ ~WritePid(p) /\ UNCHANGED job
  <2>1. Running' = Running
    BY <1>2, <1>4 DEF Start, OpenFile, LockFile, LockHeld, LockError, TruncateFile, Running
  <2>2. DbNow' = DbNow
    BY <1>4, <2>1 DEF DbNow
  <2> QED
    BY <1>1, <2>2, MappedActions
<1>5. CASE EndServer(p) /\ pc[p] = "run"
  <2>1. Running = {p}
    BY <1>1, <1>5, RunningIsOne
  <2>2. Running' = {}
    BY <1>2, <1>5, <2>1 DEF EndServer, End, Running
  <2>3. DbNow' = "closed"
    BY <2>2 DEF DbNow
  <2> QED
    BY <1>1, <2>3, MappedActions
<1>6. CASE EndServer(p) /\ pc[p] # "run"
  <2>1. Running' = Running /\ \A q \in Running : job'[q] = job[q]
    BY <1>2, <1>6 DEF EndServer, End, Running, ServerInv, ServerTypeOK
  <2>2. DbNow' = DbNow
    BY <2>1 DEF DbNow
  <2> QED
    BY <1>1, <2>2, MappedActions
<1> QED
  BY <1>3, <1>4, <1>5, <1>6

\* One statement of the process that runs.
LEMMA ServerStepMaps ==
  ASSUME ServerInv, ServerInv', ~unlocked', NEW p \in Procs, UNCHANGED aloneVars,
         \/ Open(p) \/ TableFound(p) \/ CreateTable(p) \/ InsertAdmin(p)
         \/ \E name \in Names : LookForUser(p, name)
         \/ InsertUser(p)
  PROVE  Db!DbNext \/ UNCHANGED Db!dbVars
<1>1. ~unlocked /\ pc' = pc /\ pc[p] = "run" /\ job \in [Procs -> Job]
  BY DEF aloneVars, Open, TableFound, CreateTable, InsertAdmin, LookForUser, InsertUser,
         ServerInv, ServerTypeOK
<1>2. DbNow = DbOf(job[p].at)
  BY <1>1, RunningIsOne
<1>3. DbNow' = DbOf(job'[p].at)
  <2>1. pc'[p] = "run"
    BY <1>1
  <2>2. Running' = {p}
    BY <2>1 DEF ServerInv, ServerTypeOK, AloneTypeOK, LockInv, Critical, Running
  <2> QED
    BY <2>2 DEF DbNow
<1>4. CASE Open(p)
  <2>1. DbNow = "closed" /\ DbNow' = "opened" /\ UNCHANGED <<table, DbRows>>
    BY <1>1, <1>2, <1>3, <1>4 DEF Open, At, DbOf, DbRows
  <2> QED
    BY <2>1, MappedActions DEF Db!DbNext, Db!DbInitStep
<1>5. CASE TableFound(p)
  <2>1. DbNow = "opened" /\ table /\ DbNow' = "ready" /\ UNCHANGED <<table, DbRows>>
    BY <1>1, <1>2, <1>3, <1>5 DEF TableFound, At, DbOf, DbRows
  <2> QED
    BY <2>1, MappedActions DEF Db!DbNext, Db!DbInitStep
<1>6. CASE CreateTable(p)
  <2>1. DbNow = "opened" /\ ~table /\ table' = TRUE /\ DbNow' = "created" /\ UNCHANGED DbRows
    BY <1>1, <1>2, <1>3, <1>6 DEF CreateTable, At, DbOf, DbRows
  <2> QED
    BY <2>1, MappedActions DEF Db!DbNext, Db!DbInitStep
<1>7. CASE InsertAdmin(p)
  <2>1. DbNow = "created" /\ DbNow' = "ready" /\ UNCHANGED table
    BY <1>1, <1>2, <1>3, <1>7 DEF InsertAdmin, At, DbOf
  <2>2. DbRows' = DbRows \cup {Slim([name |-> AdminName, nik |-> AdminNik])}
    BY <1>7, MappedInsert DEF InsertAdmin
  <2> QED
    BY <2>1, <2>2, MappedInsertAdmin DEF Db!DbNext, Db!DbInitStep
<1>8. CASE \E name \in Names : LookForUser(p, name)
  <2>1. DbNow = "ready" /\ DbNow' = "ready" /\ UNCHANGED <<table, DbRows>>
    BY <1>1, <1>2, <1>3, <1>8 DEF LookForUser, DbOf, DbRows
  <2> QED
    BY <2>1, MappedActions
<1>9. CASE InsertUser(p)
  <2>1. DbNow = "ready" /\ DbNow' = "ready" /\ UNCHANGED table
    BY <1>1, <1>2, <1>3, <1>9 DEF InsertUser, At, DbOf
  <2> DEFINE name == job[p].name
  <2>2. name \in Names /\ Insert(name, name)
    BY <1>1, <1>9 DEF InsertUser, Job
  <2>3. ~UserExist(name, name)
    BY <1>1, <1>9 DEF InsertUser, ServerInv, StepsInv
  <2> HIDE DEF name
  <2>4. \A r \in DbRows : r.name # name /\ r.nik # name
    BY <2>3 DEF UserExist, DbRows, Slim
  <2>5. DbRows' = DbRows \cup {Slim([name |-> name, nik |-> name])}
    BY <2>2, MappedInsert
  <2> QED
    BY <2>1, <2>2, <2>4, <2>5, MappedAddUser
<1> QED
  BY <1>4, <1>5, <1>6, <1>7, <1>8, <1>9

\* While fcntl fails only for a held lock, every step is one of SdkUserDb or
\* leaves what it sees alone.
LEMMA StepMaps ==
  ASSUME ServerInv, ServerInv', [ServerNext]_serverVars
  PROVE  [~unlocked' => Db!DbNext]_(Db!dbVars)
<1> SUFFICES ASSUME ~unlocked' PROVE Db!DbNext \/ UNCHANGED Db!dbVars
  OBVIOUS
<1>1. CASE UNCHANGED serverVars
  <2>1. UNCHANGED <<table, DbRows, DbNow>>
    BY <1>1 DEF serverVars, aloneVars, DbRows, DbNow, Running
  <2> QED
    BY <2>1, MappedActions
<1>2. CASE ServerNext
  <2>1. PICK p \in Procs :
          \/ Start(p) /\ UNCHANGED <<table, rows, job>>
          \/ Open(p) \/ TableFound(p) \/ CreateTable(p) \/ InsertAdmin(p)
          \/ \E name \in Names : LookForUser(p, name)
          \/ InsertUser(p)
          \/ EndServer(p)
    BY <1>2 DEF ServerNext
  <2>2. CASE (Start(p) /\ UNCHANGED <<table, rows, job>>) \/ EndServer(p)
    BY <2>2, ProcessStepMaps DEF Db!DbNext
  <2>3. CASE \/ Open(p) \/ TableFound(p) \/ CreateTable(p) \/ InsertAdmin(p)
             \/ \E name \in Names : LookForUser(p, name)
             \/ InsertUser(p)
    <3>1. UNCHANGED aloneVars
      BY <2>3 DEF Open, TableFound, CreateTable, InsertAdmin, LookForUser, InsertUser
    <3> QED
      BY <2>3, <3>1, ServerStepMaps
  <2> QED
    BY <2>1, <2>2, <2>3
<1> QED
  BY <1>1, <1>2

\* Any number of processes that execute one SQL statement at a time, and end
\* between any two, do what SdkUserDb has one process do in whole calls; as
\* long as fcntl fails only for a lock that is held.  (init, add_user,
\* alone_run)
THEOREM ServerRefinesUserDb == ServerSpec => ImplementsSdkUserDb
<1>1. ServerInit => Db!DbInit
  <2> SUFFICES ASSUME ServerInit PROVE Db!DbInit
    OBVIOUS
  <2>1. Running = {}
    BY DEF ServerInit, AloneInit, Running
  <2>2. DbNow = "closed" /\ DbRows = {}
    BY <2>1, NoneRuns DEF DbRows, ServerInit
  <2> QED
    BY <2>2 DEF Db!DbInit, ServerInit, DbRows, DbNow, Slim
<1>2. ServerInv /\ ServerInv' /\ [ServerNext]_serverVars =>
        [~unlocked' => Db!DbNext]_(Db!dbVars)
  BY StepMaps
<1> QED
  BY <1>1, <1>2, ServerInvariant, PTL DEF ServerSpec, ImplementsSdkUserDb
=============================================================================
