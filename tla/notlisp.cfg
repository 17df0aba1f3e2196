CONSTANTS
  Keywords = {":k"}
  Integers = {}
  Reals = {}
  Atoms = {":k", "x", "y", "list", "quote", "set", "rest"}
  Strings = {"s"}
  Environment <- MCEnvironment
  Value <- ValueOf
  Names <- NamesIn
  Apply <- MCApply
  IsExpr <- MCIsExpr
  Meaning <- MCMeaning
  MaxAtoms = 3
  MaxLists = 2
  MaxParses = 2
SPECIFICATION Spec
INVARIANTS
  TypeOK
  StackFollowsParser
  EvaluatesAsWritten
  RestGivesEachOnce
