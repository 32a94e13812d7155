SPECIFICATION Spec
CONSTANTS
  Cmd = {c1, c2}
  Daemon = {d1, d2}
  Nil = Nil
  Verbs <- DetachedVerbs
  Env <- DetachedEnv
SYMMETRY Symmetry
INVARIANTS
  TypeOK
  SingleWriter
  StopTargetsOwner
  ReadyMeansPublished
  DisableIsLastWord
  NoResurrection
