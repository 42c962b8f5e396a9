SPECIFICATION FairSpec
CONSTANTS
  Owner = "Originate"
  MaxAuthAttempts = 2
  MaxNet = 2
  Env = {"abandon", "challenge", "hangup", "badsdp", "dup", "unsent"}
INVARIANTS
  AckBeforeBye
  OneRetryPerChallenge
PROPERTY
  RefusalEndsWait
CHECK_DEADLOCK FALSE
