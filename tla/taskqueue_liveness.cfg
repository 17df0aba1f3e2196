CONSTANTS
  Clients = {c1}
  Owner = Owner
  Worker = Worker
  NoThread = NoThread
  Tasks = {t1, t2}
  NoTask = NoTask
  MaxCalls = 1
  MaxSpurious = 1
  OwnerMayJoin = FALSE
SPECIFICATION Spec
PROPERTIES
  ImplementsExecutor
  EveryFutureResolves
  RunsUnlessStopped
  DestructorReturns
