SPECIFICATION Spec
CONSTANTS
  Timer = {t1, t2}
  IOEvent = {e1, e2}
  PollKey = {k1}
  MaxReg = 3
  None = None
INVARIANTS RefsExact
PROPERTIES OnlyWantedIsCalled DueTimerFires ReadyIsServed
CHECK_DEADLOCK FALSE
