CONSTANTS
  Clients = {c1}
  Servers = {s1}
  Refs = {r1}
  Slots = {1}
  Null = Null
  Reserved = Reserved
  Does = {"connect", "send"}
  MaxSig = 1
  MaxHeld = 1
  MaxDrift = 1
SPECIFICATION Spec
SYMMETRY Symmetry
INVARIANTS WithdrawIsCounted
CHECK_DEADLOCK FALSE
