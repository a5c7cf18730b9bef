CONSTANTS
  t1 = t1
  t2 = t2
  t3 = t3
  p1 = p1
  p2 = p2
  Threads = {t1, t2, t3}
  Semas = {t1, t2, t3, k}
  Procs = {p1, p2}
  Home <- MCHome
  Prios <- MCPrios
  Does <- MCDoes
  Boot = t1
  Root = root
  None = None
  RunTicks = 1
  MaxOink = 0
  Exits = {}
  Hz = 2
  MaxPast = 1
  MaxAhead = 2
  MaxPend = 1
  MaxGiven = 1
SPECIFICATION FairClockSpec
INVARIANTS UnitsConserved EventqOK
PROPERTIES NobodyOverslept SleepsEnd
CHECK_DEADLOCK FALSE
