SPECIFICATION PSpec
CONSTANTS
  Addresses = {1, 2, 3}
  Sizes = {0, 1, 2, 3}
  f = f
  g = g
  Function <- MCFunction
  NoFunction = NoFunction
  IntSpan = 8
  MaxEvents = 4
  Asked = {0, 2}
  Resized = {0, 1, 3}
  StrayFrees = {1}
  Callers <- MCSitesBelowMain
INVARIANT ReportsAreTrue
CHECK_DEADLOCK FALSE
