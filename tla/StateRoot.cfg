SPECIFICATION Spec
CONSTANTS
  Proc = {p1, p2, p3}
  Socket = {s1, s2}
  Legacy = Legacy
  None = None
  MaxEra = 1
SYMMETRY Symmetry
INVARIANTS
  OneTenant
  WholeFiles
  ForgottenStaysGone
PROPERTY
  DecidedOnce
