CONSTANTS
  Procs = {p1, p2, p3}
  Boot = p1
  Root = Root
  Tids = {1, 2}
  FirstTid = 1
  Null = Null
  MaxSig = 1
SPECIFICATION FairSpec
INVARIANTS RefsCount DerefAsserts StatusOnce UnitPerStatus
PROPERTIES StatusWakes
CHECK_DEADLOCK FALSE
