----------------------------- MODULE AloneServer -----------------------------
(***************************************************************************)
(* Several processes of the server and the one database file they share:   *)
(* AloneRun with what sdk_user_db_sqlite3.cpp executes, one SQL statement  *)
(* at a time.  add_user looks for the user and inserts it in two           *)
(* statements under mtx_, which keeps out the threads of its own process   *)
(* only; the table declares no column unique.  That the two are one step,  *)
(* as SdkUserDb has it, is due to alone_run.                               *)
(***************************************************************************)
EXTENDS AloneRun, Naturals, FiniteSets

CONSTANTS
  Names,                 \* user and nick names
  AdminName, AdminNik,   \* the row init() inserts
  MaxRows                \* bound: rows the table may come to hold

ASSUME AdminAssumption == AdminName \in Names /\ AdminNik \in Names
ASSUME MaxRowsAssumption == MaxRows \in Nat

VARIABLES
  table,   \* the database holds the table
  rows,    \* its rows, with their AUTOINCREMENT ids
  job      \* how far init() is in each process, or the user it is adding

serverVars == <<aloneVars, table, rows, job>>

Job == [at : {"closed", "opened", "created", "ready", "adding"}, name : Names]
At(step) == [at |-> step, name |-> AdminName]

Rows == [id : Nat \ {0}, name : Names, nik : Names]

ServerTypeOK ==
  /\ AloneTypeOK
  /\ table \in BOOLEAN
  /\ rows \subseteq Rows
  /\ job \in [Procs -> Job]
  /\ rows # {} => table
  /\ \A p \in Procs : job[p].at # "closed" => pc[p] = "run"

ServerInit ==
  /\ AloneInit
  /\ table = FALSE
  /\ rows = {}
  /\ job = [p \in Procs |-> At("closed")]

-----------------------------------------------------------------------------
Insert(name, nik) ==
  rows' = rows \cup {[id |-> Cardinality(rows) + 1, name |-> name, nik |-> nik]}

\* user_exist: name = ? or nik = ?
UserExist(name, nik) == \E r \in rows : r.name = name \/ r.nik = nik

Open(p) ==
  /\ pc[p] = "run"
  /\ job[p].at = "closed"
  /\ job' = [job EXCEPT ![p] = At("opened")]
  /\ UNCHANGED <<aloneVars, table, rows>>

TableFound_FillsIt(p) ==   \* mutant: the administrator is inserted at each start
  /\ job[p].at = "opened"
  /\ table
  /\ job' = [job EXCEPT ![p] = At("created")]
  /\ UNCHANGED <<aloneVars, table, rows>>

TableFound(p) ==
  /\ job[p].at = "opened"
  /\ table
  /\ job' = [job EXCEPT ![p] = At("ready")]
  /\ UNCHANGED <<aloneVars, table, rows>>

\* CREATE TABLE; were the table there by now, it would throw: End.
CreateTable(p) ==
  /\ job[p].at = "opened"
  /\ ~table
  /\ table' = TRUE
  /\ job' = [job EXCEPT ![p] = At("created")]
  /\ UNCHANGED <<aloneVars, rows>>

InsertAdmin(p) ==
  /\ job[p].at = "created"
  /\ Insert(AdminName, AdminNik)
  /\ job' = [job EXCEPT ![p] = At("ready")]
  /\ UNCHANGED <<aloneVars, table>>

LookForUser_NickOnly(p, name) ==   \* mutant: WHERE nik = ?
  /\ job[p].at = "ready"
  /\ Cardinality(rows) < MaxRows
  /\ ~\E r \in rows : r.nik = name
  /\ job' = [job EXCEPT ![p] = [at |-> "adding", name |-> name]]
  /\ UNCHANGED <<aloneVars, table, rows>>

\* add_user: user_exist has found nobody.  The nick name is the name.
LookForUser(p, name) ==
  /\ job[p].at = "ready"
  /\ Cardinality(rows) < MaxRows
  /\ ~UserExist(name, name)
  /\ job' = [job EXCEPT ![p] = [at |-> "adding", name |-> name]]
  /\ UNCHANGED <<aloneVars, table, rows>>

InsertUser(p) ==
  /\ job[p].at = "adding"
  /\ Insert(job[p].name, job[p].name)
  /\ job' = [job EXCEPT ![p] = At("ready")]
  /\ UNCHANGED <<aloneVars, table>>

\* The process ends: its database connection closes.
EndServer(p) ==
  /\ End(p)
  /\ job' = [job EXCEPT ![p] = At("closed")]
  /\ UNCHANGED <<table, rows>>

ServerNext ==
  \E p \in Procs :
    \/ Start(p) /\ UNCHANGED <<table, rows, job>>
    \/ Open(p) \/ TableFound(p) \/ CreateTable(p) \/ InsertAdmin(p)
    \/ \E name \in Names : LookForUser(p, name)
    \/ InsertUser(p)
    \/ EndServer(p)

ServerSpec == ServerInit /\ [][ServerNext]_serverVars

-----------------------------------------------------------------------------
\* Names and nick names are unique over all processes, starts and crashes: no
\* user, nor the administrator, is inserted twice.  Nothing but the pid-file
\* lock sees to it.  (init, add_user, alone_run)
RowsUnique ==
  ~unlocked => \A r, s \in rows : r.name = s.name \/ r.nik = s.nik => r = s

-----------------------------------------------------------------------------
\* The refinement mapping: the table without ids, under the running process.
DbOf(step) == IF step = "adding" THEN "ready" ELSE step

Db == INSTANCE SdkUserDb WITH
        Passwords <- {"pass"}, AdminPass <- "pass",
        Perms <- {"U_PERMISSION_INVALID", "U_PERMISSION_ADMIN"},
        rows <- {[name |-> r.name, nik |-> r.nik, pass |-> "pass",
                  perm |-> "U_PERMISSION_ADMIN", valid |-> TRUE, black |-> FALSE] : r \in rows},
        db <- IF Running = {} THEN "closed"
              ELSE DbOf(job[CHOOSE p \in Running : TRUE].at)

\* While the lock keeps processes apart, many of them that execute single
\* statements do what SdkUserDb has one process do in whole calls.
ImplementsSdkUserDb ==
  /\ Db!DbInit
  /\ [][~unlocked' => Db!DbNext]_(Db!dbVars)
=============================================================================
