SPECIFICATION Spec
CONSTANTS
  NumPages = 3
  PageSize = 8
  Offsets <- MCOffsets
  Lens = {0, 3}
  MaxOps = 2
INVARIANTS
  TypeOK
  ScansAgree
  TrackedExactly
