SPECIFICATION Spec
CONSTANTS
  Proc = {p1, p2}
  Other = Other
  None = None
  RETRY = 1
  COUNTDOWN = 1
  PipeSize = 2
  MaxSignals = 2
CHECK_DEADLOCK FALSE
INVARIANTS
  ShutdownIsKept
  OneStays
PROPERTIES
  TermIsHonoured
  ReplacedEnds
