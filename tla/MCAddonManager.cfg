SPECIFICATION Spec
CONSTANTS
  a1 = a1
  a2 = a2
  a3 = a3
  Addon = {a1, a2, a3}
  Frontend = {a2, a3}
  Files <- MCFiles
  Override <- MCOverride
  None = None
CHECK_DEADLOCK FALSE
INVARIANTS
  DependenciesUsable
  FrontendIdsExact
  OnlyOrderKeepsOut
PROPERTIES
  LoadTerminates
