SPECIFICATION Spec
CONSTANTS
  Threads = {t1}
  Functions = {f}
  NoFunction = NoFunction
  ObjectFiles = 1
  BUFSIZE = 2
  MaxCalls = 3
  MaxSignals = 0
INVARIANT NoOverrun
CHECK_DEADLOCK FALSE
