SPECIFICATION Spec
CONSTANTS
  Handles = {h1, h2}
  Threads = {t1, t2}
  Tokens = {k1, k2}
  InterestSets = {{"READABLE"}, {"WRITABLE"}}
  Conditions = {"IN"}
  Capacity = 1
  MaxOpens = 2
  MaxCount = 1
  Discipline = {"exclusive", "deregister_first", "steady_wakers"}
  NoReg = NoReg
  NoHandle = NoHandle
SYMMETRY Symmetry
INVARIANT EventFromItsSource
CHECK_DEADLOCK FALSE
