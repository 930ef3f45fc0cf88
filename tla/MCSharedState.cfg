SPECIFICATION SharingSpec
CONSTANTS
  Context = {c1, c2, c3}
  Value = {a, b}
  NoValue = NoValue
  NoList = NoList
  PolicySlot = {appName, title}
  CopySlot = {state}
  NoSlot = NoSlot
INVARIANTS ListsExact
PROPERTIES SharingConverges SharingStaysOnTheList
SYMMETRY DataSymmetry
