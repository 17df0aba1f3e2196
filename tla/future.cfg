CONSTANTS
  Wrapped = {f1, f2, f3}
  FutureRef = FutureRef
  MaxWaits = 3
  MaxSpurious = 1
SPECIFICATION Spec
INVARIANTS
  NoUseAfterFree
  ConditionNotLeaked
  NoSleepAfterDone
PROPERTIES
  WakeupHasCause
  ExecutedEndsWait
