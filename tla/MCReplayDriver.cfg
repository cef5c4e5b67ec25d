SPECIFICATION Spec
CONSTANTS
  Exports <- MCExports
  Imports <- MCImports
  Kind <- MCKind
  Posts <- MCPosts
  Args = {e, a, b}
  NoArgs = e
  None = none
  MaxDepth = 3
  MaxReallocs = 2
INVARIANTS
  DriverTypeOK
  NoSpuriousPanic
  Faithful
  CompletesOnlyWhole
  DriverContext
  ReallocsMatched
PROPERTIES
  DeviationStops
  ReplayIsExecution
  ReplayEnds
