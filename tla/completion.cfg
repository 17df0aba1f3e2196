CONSTANTS
  Releasers = {r1, r2, r3}
  Waiters = {w1}
  Phased = TRUE
  MaxUps = 4
  MaxWaits = 2
  MaxSpurious = 1
SPECIFICATION Spec
INVARIANTS
  TypeOK
  NoLostWakeup
PROPERTIES
  NoTimeoutMeansDone
  WaitReturns
