CONSTANTS
  Alphabet = {34, 52, 92, 120}
  MaxInput = 4
  SignedChar = TRUE
SPECIFICATION SafeSpec
INVARIANTS
  StringsAreLimited
