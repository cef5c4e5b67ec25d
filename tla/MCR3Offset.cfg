SPECIFICATION Spec
CONSTANTS
  Size = 4
  InitSize = 3
  Bytes = {0, 1}
  Zero = 0
  Data <- NoData
  Segment <- MCSegment
  Half = 2
  Widths = {1, 3, 4}
  FloatWidth = 2
  Zeros <- MCZeros
  NaNs <- MCNaNs
  Offsets = {0, 1}
INVARIANTS
  LoadsRecorded
