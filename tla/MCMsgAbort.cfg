CONSTANTS
  Clients = {c1, c2}
  Servers = {s1, s2}
  Refs = {r1, r2}
  Slots = {1, 2}
  Null = Null
  Reserved = Reserved
  Does = {"connect", "read", "segs", "clone", "fork", "send", "write"}
  MaxSig = 2
  MaxHeld = 2
  MaxDrift = 1
SPECIFICATION Spec
SYMMETRY Symmetry
INVARIANTS IowaitDrained FramesLive ServerNotForgotten SegStable
CHECK_DEADLOCK FALSE
PROPERTIES ImplementsRpc
