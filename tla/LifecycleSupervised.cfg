SPECIFICATION Spec
CONSTANTS
  Cmd = {c1, c2}
  Daemon = {d1, d2}
  Nil = Nil
  Verbs <- SupervisedVerbs
  Env <- SupervisedEnv
SYMMETRY Symmetry
INVARIANTS
  NoInheritedEpitaph
PROPERTIES
  EnableDelivers
  EnableNeverPassesDisable
  OwnedOnlyWhenWanted
  UserStopIsNotTerminated
