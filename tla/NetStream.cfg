SPECIFICATION Spec
CONSTANTS
  Objects = {o1, o2}
  Fds = {f1, f2}
  Backends = {"afd"}
  InterestSets = {{"READABLE"}, {"READABLE", "WRITABLE"}}
  MaxData = 1
  MaxActive = 1
  NoFd = NoFd
  NoReg = NoReg
  NoClass = NoClass
SYMMETRY Symmetry
INVARIANTS RegisteredIsWatched
CHECK_DEADLOCK FALSE
