SPECIFICATION Spec
CONSTANTS
  Addresses = {0, 1, 2, 3, 6}
  Names = {"f", "g"}
  Label = "label"
  Unknown = "??"
  MaxSymbols = 4
  AddrSpan = 16
  IntSpan = 8
  Bases = {0, 8}
INVARIANTS NamesTheEnclosing ComparesFunctions CrashesOnFunctionLast
CHECK_DEADLOCK FALSE
