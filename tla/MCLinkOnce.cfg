SPECIFICATION Spec
CONSTANTS
  Modules = {"lib", "app"}
  Imports <- MCImports
  Exports <- MCExports
  Names = {"a", "b"}
  MaxDefinitions = 4
INVARIANT OnceChecked
CHECK_DEADLOCK FALSE
