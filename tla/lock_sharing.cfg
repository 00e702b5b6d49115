SPECIFICATION FairSpec
CONSTANTS
  p1 = p1
  p2 = p2
  p3 = p3
  p4 = p4
  NoProc = NoProc
  Procs <- FourProcs
  Requests <- NoUpgrades
  Options <- Polling
  CanRecurse = TRUE
  Interruptible = FALSE
  Nested = FALSE
  MaxHeld = 2
INVARIANTS
  NoPanic
  SleepersAreAwaited
PROPERTY
  WritersAreServed
