SPECIFICATION Spec
CONSTANTS
  Cmd = {c1, c2}
  Daemon = {d1, d2}
  Nil = Nil
  Verbs = {"enable", "supervise", "disable"}
  Env = {"slowstart"}
SYMMETRY Symmetry
PROPERTIES
  RollbackKeepsDisable
