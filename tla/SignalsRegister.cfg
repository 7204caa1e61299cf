SPECIFICATION Spec
CONSTANTS
  Sigs = {sigint}
  Objects = {o1}
  Workers = {}
  main = main
  NoFd = NoFd
  Careful = FALSE
INVARIANTS RegistrySurvives
CHECK_DEADLOCK FALSE
