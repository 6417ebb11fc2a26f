------------------------------ MODULE SdkUserDb ------------------------------
(***************************************************************************)
(* The user table in SQLite (sdk_user_db_sqlite3.cpp): how a process opens *)
(* and fills it, and the queries, insertions and deletions it serves.      *)
(*                                                                         *)
(* The file outlives the process: table and rows survive a crash, db does  *)
(* not.  init() executes CREATE TABLE and the INSERT of the administrator  *)
(* as two statements, and a crash may come between them.  Every other      *)
(* method holds mtx_ throughout and is one action.                         *)
(***************************************************************************)
CONSTANTS
  Names,                          \* user and nick names
  Passwords, Perms,
  AdminName, AdminNik, AdminPass  \* the row init() inserts

ASSUME AdminAssumption ==
  AdminName \in Names /\ AdminNik \in Names /\ AdminPass \in Passwords
ASSUME PermsAssumption == {"U_PERMISSION_INVALID", "U_PERMISSION_ADMIN"} \subseteq Perms

VARIABLES
  table,    \* the database holds the table
  rows,     \* its rows; id, dates and contact details are left out
  db        \* db_handle_ of the running process, and how far init() is

dbVars == <<table, rows, db>>

Row == [name : Names, nik : Names, pass : Passwords, perm : Perms,
        valid : BOOLEAN, black : BOOLEAN]

DbState == {"closed", "opened", "created", "ready", "broken"}

DbTypeOK ==
  /\ table \in BOOLEAN
  /\ rows \subseteq Row
  /\ db \in DbState
  /\ (rows # {} \/ db \in {"created", "ready"}) => table

DbInit == table = FALSE /\ rows = {} /\ db = "closed"

\* A row as INSERT leaves it: valid and black take the table's defaults.
NewRow(name, nik, pass, perm) ==
  [name |-> name, nik |-> nik, pass |-> pass, perm |-> perm, valid |-> TRUE, black |-> FALSE]

-----------------------------------------------------------------------------
(* init                                                                    *)

Open ==
  /\ db = "closed"
  /\ db' = "opened"
  /\ UNCHANGED <<table, rows>>

\* The Database constructor throws: init() says so, and no caller looks.
OpenFails ==
  /\ db = "closed"
  /\ db' = "broken"
  /\ UNCHANGED <<table, rows>>

TableFound ==
  /\ db = "opened"
  /\ table
  /\ db' = "ready"
  /\ UNCHANGED <<table, rows>>

CreateTable ==
  /\ db = "opened"
  /\ ~table
  /\ table' = TRUE
  /\ db' = "created"
  /\ UNCHANGED rows

InsertAdmin ==
  /\ db = "created"
  /\ rows' = rows \cup {NewRow(AdminName, AdminNik, AdminPass, "U_PERMISSION_ADMIN")}
  /\ db' = "ready"
  /\ UNCHANGED table

DbInitStep == Open \/ OpenFails \/ TableFound \/ CreateTable \/ InsertAdmin

\* The process ends, for whatever reason.
Crash ==
  /\ db # "closed"
  /\ db' = "closed"
  /\ UNCHANGED <<table, rows>>

-----------------------------------------------------------------------------
(* query, add_user, del_user, export_user                                  *)

ByName(name) == {r \in rows : r.name = name}
ByNik(nik) == {r \in rows : r.nik = nik}

\* query and query_by_nikname: the row, when there is one.
QueryOk(name) == ByName(name) # {}
Query(name) == CHOOSE r \in ByName(name) : TRUE

UserExist_NameOnly(name, nik) == ByName(name) # {}   \* mutant

\* user_exist: name = ? or nik = ?
UserExist(name, nik) == ByName(name) \cup ByNik(nik) # {}

AddUser(name, nik, pass, perm, err) ==
  \/ /\ UserExist(name, nik)
     /\ err = "e_sdk_user_exist"
     /\ UNCHANGED rows
  \/ /\ ~UserExist(name, nik)
     /\ err = "e_sdk_user_db_ok"
     /\ rows' = rows \cup {NewRow(name, nik, pass, perm)}

DelUser(name, nik, err) ==
  \/ /\ ~UserExist(name, nik)
     /\ err = "e_sdk_user_not_exist"
     /\ UNCHANGED rows
  \/ /\ UserExist(name, nik)
     /\ err = "e_sdk_user_db_ok"
     /\ rows' = rows \ (ByName(name) \cup ByNik(nik))

Marked(r, valid, black) ==
  [name |-> r.name, nik |-> r.nik, pass |-> r.pass, perm |-> r.perm,
   valid |-> valid, black |-> black]

\* The other program that shares the database (the django server of
\* readme.md:65) marks a user invalid or black, or clears the marks.
ExternalMark(r, valid, black) ==
  /\ r \in rows
  /\ rows' = (rows \ {r}) \cup {Marked(r, valid, black)}
  /\ UNCHANGED <<table, db>>

Errors == {"e_sdk_user_db_ok", "e_sdk_user_exist", "e_sdk_user_not_exist"}

-----------------------------------------------------------------------------
(* The table under any sequence of calls and crashes.                      *)

DbCall ==
  /\ db = "ready"
  /\ \E name, nik \in Names, err \in Errors :
       \/ \E pass \in Passwords, perm \in Perms : AddUser(name, nik, pass, perm, err)
       \/ DelUser(name, nik, err)
  /\ UNCHANGED <<table, db>>

Mark == \E r \in rows, valid, black \in BOOLEAN : ExternalMark(r, valid, black)

DbNext == DbInitStep \/ Crash \/ DbCall \/ Mark

DbSpec == DbInit /\ [][DbNext]_dbVars

\* No two rows share a name, and no two a nick name, although the table
\* declares neither unique: query(name) has one answer.  (user_exist under the
\* lock of add_user; init() only fills a table it has just created.)
KeysUnique == \A r, s \in rows : r.name = s.name \/ r.nik = s.nik => r = s
=============================================================================
