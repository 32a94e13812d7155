SPECIFICATION Spec
CONSTANTS
  Ws = {w1, w2}
  Tokens = {working, quiet}
  None = None
  Ttl = 2
  MaxLate = 1
  Faults = {"push"}
SYMMETRY Symmetry
INVARIANTS
  ExitLeavesNothing
