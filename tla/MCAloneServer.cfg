\* Three processes that start, crash and start again, over one table.
SPECIFICATION ServerSpec
CONSTANTS
  Procs = {p1, p2, p3}
  NoProc = NoProc
  Names <- MCNames
  AdminName = "admin"
  AdminNik = "wotsen"
  MaxRows = 2
INVARIANTS OnlyOneRuns PidFileIsRunners RowsUnique
PROPERTIES ImplementsSdkUserDb
