SPECIFICATION AnySpec
CONSTANTS
  Sigs = {sigint, sigterm}
  Objects = {o1}
  Workers = {worker}
  main = main
  NoFd = NoFd
  Careful = TRUE
  Impls = {i1, i2}
  PipeCap = 2
  MaxConsole = 2
  NoObject = NoObject
INVARIANTS TypesOK OwedNotLost MaskRestored
INVARIANTS HandlerSafe CaughtNotLost HandlersRestored HandlerNotStuck
PROPERTIES SignalReported
SYMMETRY Symmetry
CHECK_DEADLOCK FALSE
