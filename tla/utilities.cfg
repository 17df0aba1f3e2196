CONSTANTS
  ShortOpts <- TestOptions
  LongOpts <- TestOptions
  OptWithParams = {"options", "left"}
  LeaveInParams = {"left"}
  Letters = {"o", "l", "f", "u"}
  Strings = {"o", "l", "f", "u"}
  Words = {"v", "w"}
  NoItem = "no item"
  Nothing = "nothing"
  EmptyWord = ""
  MaxArguments = 3
  Size = 3
  Contents = {"a", "b"}
  Threads = {t1, t2, t3}
  Levels = {1, 4}
  Texts = {0, 2, 9}
  Unset = unset
  Blank = blank
  Malformed = malformed
  Default = 4
  MaxCalls = 1
  Limit = 32
  MaxFormat = 20
  MaxMessage = 40
  MaxTracers = 3
  Characters = {"a", "b", "/", "."}
  Separators = {"/", "."}
  MaxLength = 4
SPECIFICATION UtilitiesSpec
INVARIANTS
  UtilitiesTypeOK
  OptionsAsWritten
  ChangesDelivered
  LevelSticks
  PrintsByLevel
  MessageWhole
  ErrorReachesCaller
  JoinUndoesSplit
PROPERTIES
  TraceCallsEnd
CHECK_DEADLOCK FALSE
