SPECIFICATION AccessSpec
CONSTANTS
  Conn = {c1, c2}
  auth_limit = 1
  auth_timeout = 30
  Capacity = 1
  Backend = "PureRustSrtp"
  SeqMod = 8
  RocMod = 4
  RtcpMod = 8
  Window = 3
  Starts = {0, 5, 7}
  MaxRtp = 9
  MaxRtcp = 3
INVARIANTS
  SlotAccounting
  AcceptedOnce
  KeystreamFresh
  InTimeIsAccepted
PROPERTY
  PreAuthIsBounded
CHECK_DEADLOCK FALSE
