CONSTANTS
  SizeValues = 16
  MaxSize = 5
SPECIFICATION MemcpySpec
INVARIANTS
  NoMoreThanLen
CHECK_DEADLOCK FALSE
