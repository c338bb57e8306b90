SPECIFICATION Spec
CONSTANTS
  Typed <- MCTyped
  Unknown <- MCUnknown
  MaxAhead = 1
  Word = 256
  MaxLost = 1
  AheadOnceMisread = FALSE
  Stray = {2}
  SelfTime <- MCSelfTime
  NameRank <- MCNameRank
  Sizes = {2, 11, 12}
  Nfunctions = {0, 2}
INVARIANTS TypeOK KeysAsPressed IndexesInArray FocusShown ScreenIsState StopsOnlyIf
CHECK_DEADLOCK FALSE
