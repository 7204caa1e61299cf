SPECIFICATION FairSpec
CONSTANTS
  Handles = {h1, h2}
  Threads = {t1}
  Tokens = {k1}
  InterestSets = {{"READABLE"}, {"WRITABLE"}}
  Conditions = {"IN"}
  Capacity = 1
  MaxOpens = 2
  MaxCount = 1
  Discipline = {"exclusive", "steady_wakers"}
  NoReg = NoReg
  NoHandle = NoHandle
INVARIANT
  WakeNotLost
PROPERTIES
  WakeAnswered
  ImplementsContract
CHECK_DEADLOCK FALSE
