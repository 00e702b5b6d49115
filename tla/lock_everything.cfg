SPECIFICATION Spec
CONSTANTS
  p1 = p1
  p2 = p2
  p3 = p3
  p4 = p4
  NoProc = NoProc
  Procs <- ThreeProcs
  Requests <- AllRequests
  Options <- AllOptions
  CanRecurse = TRUE
  Interruptible = TRUE
  Nested = TRUE
  MaxHeld = 2
INVARIANTS
  BooksMatch
  Exclusion
  DrainedIsQuiet
PROPERTIES
  UpgradeExcludesWriters
  ImplementsReadWriteLock
CHECK_DEADLOCK FALSE
