SPECIFICATION Spec
CONSTANTS
  Objects = {o1, o2}
  Fds = {f1, f2}
  Backends = {"epoll"}
  InterestSets = {{"READABLE"}, {"READABLE", "WRITABLE"}}
  MaxData = 1
  MaxActive = 1
  NoFd = NoFd
  NoReg = NoReg
  NoClass = NoClass
SYMMETRY Symmetry
INVARIANTS UnboundReportsError
CHECK_DEADLOCK FALSE
