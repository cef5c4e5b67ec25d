SPECIFICATION Spec
CONSTANTS
  Params <- MCParams
  Results <- MCResults
  Slack = {0, 3}
INVARIANTS
  BufferFits
