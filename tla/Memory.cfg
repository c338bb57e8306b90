SPECIFICATION Spec
CONSTANTS
  Addresses = {1, 2}
  Sizes = {0, 1, 3}
  Function = {f}
  NoFunction = NoFunction
  IntSpan = 8
  MaxEvents = 4
INVARIANTS TypeOK SortedBlocks BooksBalance CoveredByCurrent OwnedOnce
CHECK_DEADLOCK FALSE
