SPECIFICATION Spec
CONSTANTS
  p1 = p1
  p2 = p2
  head = head
  other = other
  c1 = c1
  c2 = c2
  c3 = c3
  NoProc = NoProc
  NoChan = NoChan
  NoConn = NoConn
  Procs = {p1, p2}
  Objs = {head, other}
  Listener = head
  Conns = {c1, c2, c3}
  Backlog = 1
  CanSleep = {"falloc", "m_get"}
SYMMETRY Symmetry
INVARIANTS
  NoMissedEvent
  QueuesAgree
  NoDanglingFile
CHECK_DEADLOCK FALSE
