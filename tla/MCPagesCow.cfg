CONSTANTS
  t1 = t1
  t2 = t2
  t3 = t3
  t4 = t4
  v1 = v1
  v2 = v2
  v3 = v3
  a = a
  b = b
  txt = txt
  Users = {t1, t2, t3}
  Views = {v1, v2}
  Sets = {a, b, txt}
  Frames = {1, 2, 3}
  ViewOf <- CowViews
  Of <- CowSet
  Kind <- CowKind
  Master <- CowMaster
  RdOnly = {}
  Child <- Forks
  Exits = {t1, t2, t3}
  Troubles = {}
  NQio = 0
  ReadsFail = TRUE
  None = None
SPECIFICATION PagesSpec
INVARIANTS RefsAreMappings MappedIsLatest FramesOwned AssertsHold
CHECK_DEADLOCK FALSE
