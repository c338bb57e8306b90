SPECIFICATION Spec
CONSTANTS
  P = P
  Q = Q
  R = R
  Profilee = P
  Others = {Q, R}
  Earlier = Earlier
  None = None
  ObjectFiles <- MCObjectFiles
  BUFSIZE = 2
  MaxPackets <- MCMaxPackets
SYMMETRY MCSymmetry
INVARIANTS TypeOK OneTrace EarlierOnlyIfUntraced CompleteIfExited
CHECK_DEADLOCK FALSE
