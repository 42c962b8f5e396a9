SPECIFICATION FairSpec
CONSTANTS
  MaxInvites = 1
  Fails = {}
  Deaf = FALSE
PROPERTY
  TimeoutIsFinal
CHECK_DEADLOCK FALSE
