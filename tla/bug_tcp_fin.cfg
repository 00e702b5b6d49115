SPECIFICATION Spec
CONSTANTS
  SeqMod = 16
  Iss = 14
  Total = 4
  Writes = {1, 2}
  MaxSeg = 2
  SndHiwat = 4
  RcvHiwat = 2
  Cwnds = {2}
  MaxNet = 2
  MaxQueue = 2
  Shortages = {0}
  AckMbufs = {TRUE}
  AcksInOrder = FALSE
INVARIANTS FinComesLast
CHECK_DEADLOCK FALSE
