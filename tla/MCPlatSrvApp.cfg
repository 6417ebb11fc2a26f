\* The main thread and another one; two modules with a task that are there to
\* stay, and one that may be unloaded.
SPECIFICATION PlatFairSpec
CONSTANTS
  Threads = {main, other}
  NoThread = NoThread
  Main = main
  N = 3
  Enabled = {1, 2, 3}
  HasInit = {1, 2, 3}
  HasExit = {3}
  Configurable = {3}
  HandyLoop = 1
  SystemUpgrade = 2
INVARIANTS InitsOnce InitsInOrder LiveIsReported TasksStartOnce
PROPERTIES LockIsReleased UpgradeIsOver
