SPECIFICATION FairSpec
CONSTANTS
  Cmd = {c1}
  Daemon = {d1}
  Nil = Nil
  Verbs <- AllVerbs
  Env <- LiveEnv
PROPERTIES
  VerbsReturn
  SupervisedComesBack
