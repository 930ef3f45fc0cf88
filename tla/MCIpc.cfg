SPECIFICATION Spec
CONSTANTS
  Client = {c1, c2}
  MaxIC = 3
  MaxInbox = 3
  None = None
CHECK_DEADLOCK FALSE
INVARIANTS
  SendersExact
  MatchesExact
  OrphansAreExpected
PROPERTIES
  AnnouncedLeaveIsFinal
