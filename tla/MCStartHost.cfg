SPECIFICATION Spec
CONSTANTS
  f1 = f1
  f2 = f2
  f3 = f3
  Funcs <- MCFuncs
  Home <- MCHome
  Host = host
  Table = table
  Calls = {"call", "return_call"}
  MaxCalls = 1
INVARIANTS
  NothingReplayed
