CONSTANTS
  Clients = {c1, c2}
  Servers = {s1}
  Refs = {r1, r2}
  Slots = {1, 2}
  Null = Null
  Reserved = Reserved
  Does = {"connect", "read", "segs", "clone", "close", "refuse"}
  MaxSig = 1
  MaxHeld = 1
  MaxDrift = 1
SPECIFICATION FairSpec
PROPERTIES CallsReturn
INVARIANTS UnitPerMessage NoDangling Registered WokenMeansAnswered
CHECK_DEADLOCK FALSE
