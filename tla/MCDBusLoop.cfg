SPECIFICATION DBusSpec
CONSTANTS
  Timer = {t1, t2}
  IOEvent = {e1, e2}
  PollKey = {r, w}
  Reading = r
  MaxReg = 6
  MaxQueue = 2
  None = None
INVARIANTS EventsPaired
PROPERTIES MessagesAreDispatched
CHECK_DEADLOCK FALSE
