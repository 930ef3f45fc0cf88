SPECIFICATION Spec
CONSTANTS
  MaxId = 2
  Group = {g1}
  Global = Global
  Independent = Independent
  FlagValues = {{}, {"SURROUNDING_TEXT"}}
  RectValues = {0, 1}
  Texts = {t1, t2}
  NoText = NoText
  Requests = {"Reset", "KeyEvent", "CommitString", "UpdatePreedit", "ForwardKey"}
PROPERTIES NewContextIsFresh
VIEW WithoutLog
CHECK_DEADLOCK FALSE
