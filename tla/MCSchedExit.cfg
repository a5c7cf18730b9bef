CONSTANTS
  t1 = t1
  t2 = t2
  t3 = t3
  p1 = p1
  p2 = p2
  Threads = {t1, t2, t3}
  Procs = {p1, p2}
  Home <- MCHome
  Prios <- MCPrios
  Boot = t1
  Root = root
  None = None
  RunTicks = 2
  MaxOink = 1
  Exits = {t1, t2}
SPECIFICATION SchedSpec
INVARIANTS PickFinds
