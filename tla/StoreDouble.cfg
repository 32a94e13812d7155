SPECIFICATION Spec
CONSTANTS
  a = a
  b = b
  p = p
  q = q
  NoPath = NoPath
  Ids = {1, 2, 3}
  Labels = {a, b}
  Paths = {p, q}
  Snapshots <- SmallSnapshots
  Files <- SmallFiles
  Caps = {1, 2}
  Width = 2
  Slack = 1
  Stamps = {1, 2, 4}
  Horizon = 4
  MaxSessions = 2
INVARIANTS
  OneObservationEach
