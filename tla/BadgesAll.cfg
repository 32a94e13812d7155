SPECIFICATION Spec
CONSTANTS
  Ws = {w1, w2}
  Tokens = {working, quiet}
  None = None
  Ttl = 2
  MaxLate = 1
  Faults = {"push", "clear", "sweep", "late", "kill"}
SYMMETRY Symmetry
INVARIANTS
  TypeOK
  OneBadge
  ScreenIsMap
  ExitIsDark
  DisableIsDark
