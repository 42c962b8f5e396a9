SPECIFICATION Spec
CONSTANTS
  MaxInvites = 2
  Fails = {"200"}
  Deaf = TRUE
INVARIANTS
  TypeOK
  NoLeak
CHECK_DEADLOCK FALSE
