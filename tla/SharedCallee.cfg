SPECIFICATION Spec
CONSTANTS
  f = f
  g = g
  Function <- MCFunction
  Symbols <- MCSymbols
  Symbol <- MCSymbol
  Spontaneous = Spontaneous
  Durations = {1}
  FIELDWIDTH = 1
  MaxEvents = 5
INVARIANT PairTimesAddUp
CHECK_DEADLOCK FALSE
