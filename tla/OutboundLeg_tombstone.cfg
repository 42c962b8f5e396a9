SPECIFICATION FairSpec
CONSTANTS
  Owner = "Originate"
  MaxAuthAttempts = 0
  MaxNet = 2
  Env = {"abandon"}
PROPERTY
  AnswerIsAcked
CHECK_DEADLOCK FALSE
