CONSTANTS
  Clients = {c1, c2}
  Servers = {s1}
  Refs = {r1, r2}
  Slots = {1, 2}
  Null = Null
  Reserved = Reserved
  Does = {"connect", "read", "segs", "refuse", "nomap", "shut", "fork", "close"}
  MaxSig = 1
  MaxHeld = 2
  MaxDrift = 1
SPECIFICATION Spec
SYMMETRY Symmetry
INVARIANTS RefsCounted NoneForgotten Severed StillHashed
CHECK_DEADLOCK FALSE
PROPERTIES AnsweredOnce
