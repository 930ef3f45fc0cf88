CONSTANTS
  IC = {c1, c2}
  FrontendOf <- OneEach
  Frontends <- Both
  Texts <- SomeTexts
  Items = {i1}
  Keyboard <- SomeKeys
  triggerKey <- Hotkeys
  MaxTime = 1
  MaxGroups = 1
SPECIFICATION Spec

CHECK_DEADLOCK FALSE
INVARIANT EventsAreCaptured
