SPECIFICATION Spec
CONSTANTS
  Proc = {p1, p2}
  Text = {t1, t2, t3}
  NoRow = {t3}
  None = None
SYMMETRY Symmetry
INVARIANTS
  TypeOK
  UserTextKept
  Recoverable
  PendingUntilShown
PROPERTY
  BackupKept
