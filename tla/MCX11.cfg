SPECIFICATION Spec
CONSTANTS
  Context = {c1, c2}
  MaxKeymap = 2
  MaxSent = 3
  None = None
INVARIANTS KeyStateCurrent KeySeesLayout DanglesAfterBreakOnly
PROPERTIES EventsAreHandled
CHECK_DEADLOCK FALSE
