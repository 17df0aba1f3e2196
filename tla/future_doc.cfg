CONSTANTS
  Wrapped = {f1}
  FutureRef = FutureRef
  MaxWaits = 1
  MaxSpurious = 1
SPECIFICATION SafeSpec
PROPERTIES
  NoTimeoutMeansExecuted
