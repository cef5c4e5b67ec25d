SPECIFICATION Spec
CONSTANTS
  NumAddrs = 7
  Slots = {s1, s2}
  Lens = {0, 1}
  Slack = {0, 1}
  MaxTrace = 2
INVARIANTS
  TypeOK
  HeldIntact
  OnlyMessagesLost
PROPERTY
  ReadsEnd
CHECK_DEADLOCK FALSE
