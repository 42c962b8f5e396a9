SPECIFICATION FairSpec
CONSTANTS
  Call = {c1}
  Req = {r1, r2}
  Answerable = {r1}
  Src = {s1}
  MaxInst = 1
  EventQueueCapacity = 1
  TimerInterval = 2
  T1 = 1
  T2 = 2
  TIMER_H = 2
  TIMER_I = 1
  TIMER_J = 2
  MaxAge = 2
  LateTU = FALSE
PROPERTIES
  AcceptedEndIsReported
  FinalIsReaped
  SessionIsDelivered
  AnsweredIsReaped
