SPECIFICATION Spec
CONSTANTS
  MaxId = 3
  Group = {g1, g2}
  Global = Global
  Independent = Independent
  FlagValues = {{}}
  RectValues = {0}
  Texts = {}
  NoText = NoText
  Requests = {"CommitString"}
INVARIANTS IdsConserved FocusExact
PROPERTIES ListenerFollowsFocus OldFocusLeavesFirst
SYMMETRY GroupSymmetry
VIEW WithoutLog
CHECK_DEADLOCK FALSE
