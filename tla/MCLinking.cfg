SPECIFICATION Spec
CONSTANTS
  Modules = {"lib", "app"}
  Imports <- MCImports
  Exports <- MCExports
  Names = {"a", "b"}
  MaxDefinitions = 6
INVARIANTS
  TypeOK
  LinksRight
  ExportsRight
  SupportedAccepted
CHECK_DEADLOCK FALSE
