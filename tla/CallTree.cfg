SPECIFICATION Spec
CONSTANTS
  f = f
  g = g
  Function <- MCFunction
  Symbols <- MCSymbols
  Symbol <- MCSymbol
  Spontaneous = Spontaneous
  Durations = {1, 4}
  FIELDWIDTH = 1
  MaxEvents = 5
INVARIANTS TypeOK PathIsStack CallsConserved PairsAgree IntervalsNested TimesConserved
  PairTimesAddUpOtherwise CrashesOnlyIfSkewed
CHECK_DEADLOCK FALSE
