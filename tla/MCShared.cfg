SPECIFICATION SharedSpec
CONSTANTS
  Leg = {l1, l2}
  Admin = {}
  start_muted = {l2}
  max_members = 0
  Mixers = {m1, m2}
  MaxJoins = 2
  MaxCommands = 1
  Others = {"o1", "o2"}
  OtherRequests <- MCOtherRequests
  Expiration = 5
  RefreshPoint = 1
  Timeout = 1
  max_retries = 2
  forbidden_retry_interval = 2
  auth_rejection_permanent = TRUE
  minimum_expiration = 2
  maximum_expiration = 5
  max_contacts = 1
  MaxDelay = 1
  MaxNet = 1
  MaxClock = 5
INVARIANTS
  ContactsBounded
  RegisteredIsBound
PROPERTIES
  SilencedIsUnheard
  RegistrationSettles
CHECK_DEADLOCK FALSE
