SPECIFICATION Spec
CONSTANTS
  SeqMod = 16
  Iss = 14
  Total = 3
  Writes = {1, 2}
  MaxSeg = 2
  SndHiwat = 3
  RcvHiwat = 2
  Cwnds = {2}
  MaxNet = 2
  MaxQueue = 2
  Shortages = {0, 1}
  AckMbufs = {TRUE}
  AcksInOrder = TRUE
INVARIANT IdleWithoutTimers
CHECK_DEADLOCK FALSE
