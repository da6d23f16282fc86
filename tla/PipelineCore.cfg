\* Table-column and app-bar-action processor pipelines.
CONSTANTS
  MaxProcessors = 2
  AppendCol = {"age", "obj", "bogus"}
  Throw = Throw
  Undefined = Undefined
SPECIFICATION Spec
INVARIANT TypeOK
