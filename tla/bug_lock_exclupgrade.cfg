SPECIFICATION Spec
CONSTANTS
  p1 = p1
  p2 = p2
  p3 = p3
  p4 = p4
  NoProc = NoProc
  Procs <- TwoProcs
  Requests <- Upgrades
  Options <- Plain
  CanRecurse = FALSE
  Interruptible = FALSE
  Nested = FALSE
  MaxHeld = 1
INVARIANTS
  SleepersAreAwaited
