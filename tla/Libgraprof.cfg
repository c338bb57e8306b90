SPECIFICATION Spec
CONSTANTS
  Threads = {t1}
  Functions = {f, g}
  NoFunction = NoFunction
  ObjectFiles = 2
  BUFSIZE = 2
  MaxCalls = 3
  MaxSignals = 1
INVARIANTS TypeOK NothingLost TraceReadable ErrnoKept ExitCloses
  OverrunOnlyAfterFailure
PROPERTIES HooksRearmed
CHECK_DEADLOCK FALSE
