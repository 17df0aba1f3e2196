CONSTANTS
  Clients = {c1, c2}
  Owner = Owner
  Worker = Worker
  NoThread = NoThread
  Tasks = {t1, t2}
  NoTask = NoTask
  MaxCalls = 2
  MaxSpurious = 1
  OwnerMayJoin = TRUE
SPECIFICATION SafeSpec
SYMMETRY Symmetry
INVARIANTS
  TypeOK
  TasksInOrder
  NoLostWakeup
  QuietAfterJoin
PROPERTIES
  NoAcceptAfterStop
