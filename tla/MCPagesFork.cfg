CONSTANTS
  t1 = t1
  t2 = t2
  t3 = t3
  t4 = t4
  v1 = v1
  v2 = v2
  v3 = v3
  a = a
  b = b
  txt = txt
  Users = {t1, t3}
  Views = {v1, v2}
  Sets = {a, b}
  Frames = {1, 2}
  ViewOf <- ZfodViews
  Of <- CowSet
  Kind <- AllZero
  Master <- NoMaster
  RdOnly = {}
  Child <- Forks
  Exits = {}
  Troubles = {2}
  NQio = 1
  ReadsFail = FALSE
  None = None
SPECIFICATION PagesSpec
INVARIANTS ImageOnSwap
CHECK_DEADLOCK FALSE
