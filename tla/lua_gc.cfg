CONSTANTS
  a = a
  b = b
  c = c
  Main = Main
  Nil = Nil
  Cells <- MCCells
  Shapes <- MCShapes
  MainSlots = 2
  Metatables = {a}
  SetsShared = FALSE
  Watched = {b}
SPECIFICATION FairSpec
INVARIANTS NothingDangles BlackToWhite ListsAgree
PROPERTIES FinalizersRunOnce GarbageIsFreed
