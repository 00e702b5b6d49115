CONSTANTS
  a = a
  b = b
  c = c
  Main = Main
  Nil = Nil
  Cells <- MCCells
  Shapes <- MCShapes
  MainSlots = 2
  Metatables = {a}
  SetsShared = TRUE
  Watched = {b}
SPECIFICATION Spec
INVARIANT NothingDangles
