CONSTANTS
  Clients = {c1}
  Owner = Owner
  Worker = Worker
  NoThread = NoThread
  Tasks = {t1}
  NoTask = NoTask
  MaxCalls = 2
  MaxSpurious = 0
  OwnerMayJoin = FALSE
SPECIFICATION SafeSpec
PROPERTIES
  EmptyMeansExecuted
