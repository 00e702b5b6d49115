SPECIFICATION FairSpec
CONSTANTS
  p1 = p1
  p2 = p2
  chan = chan
  NoChan = NoChan
  Procs <- MCProcs
  Sleeps <- MCSleeps
  Signals <- MCSignals
  Catchers <- MCCatchers
  MaxLate = 1
INVARIANTS
  SleepersAreQueued
  WakeupsStick
  TimeoutsEndWithTheSleep
PROPERTIES
  ReturnsAreTrue
  ImplementsDeadlines
  TimedSleepsEnd
  KillsEnd
