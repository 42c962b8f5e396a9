SPECIFICATION Spec
CONSTANTS
  Call = {c1}
  Req = {}
  Answerable = {}
  Src = {s1}
  MaxInst = 2
  EventQueueCapacity = 1
  TimerInterval = 1
  T1 = 1
  T2 = 2
  TIMER_H = 3
  TIMER_I = 1
  TIMER_J = 2
  MaxAge = 3
  LateTU = FALSE
PROPERTY
  NoSecondCall
