SPECIFICATION FairSpec
CONSTANTS
  Owner = "Dial"
  MaxAuthAttempts = 0
  MaxNet = 2
  Env = {"abandon", "untagged", "dup"}
INVARIANTS
  TypeOK
  AckedIsEnded
  NoLeak
PROPERTIES
  AnswerIsAcked
  AnswerEndsWait
CHECK_DEADLOCK FALSE
