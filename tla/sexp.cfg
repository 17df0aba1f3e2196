CONSTANTS
  Alphabet = {10, 34, 40, 41, 52, 59, 92, 97, 120, 255}
  MaxInput = 5
  SignedChar = TRUE
SPECIFICATION Spec
INVARIANTS
  TypeOK
PROPERTIES
  LexemeAsWritten
  CharacterUsedUp
  ImplementsEvents
