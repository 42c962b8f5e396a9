SPECIFICATION CallsSpec
CONSTANTS
  MaxInvites = 1
  Fails = {}
  Deaf = FALSE
  Destinations = 2
  Branch = {b1}
  T1 = 1
  T2 = 2
  TIMER_B = 4
  TIMER_D = 3
  TIMER_K = 2
  MaxAge = 4
  MaxSends = 2
INVARIANTS
  InviteIsAnswered
  DialogIsEnded
  OnlyAnsweredIsUp
  AnswerWins
  ForkIsResolved
  BusyMeansAllBusy
  NoTimeoutAfterFinal
PROPERTIES
  EndIsReleased
  PartyEndsCall
  OutcomeIsReported
  ClientIsReaped
CHECK_DEADLOCK FALSE
