SPECIFICATION Spec
CONSTANTS
  Handles = {h1, h2}
  Threads = {t1, t2}
  Tokens = {k1}
  InterestSets = {{"READABLE"}, {"WRITABLE"}}
  Conditions = {"IN"}
  Capacity = 2
  MaxOpens = 2
  MaxCount = 1
  Discipline = {"exclusive"}
  NoReg = NoReg
  NoHandle = NoHandle
SYMMETRY Symmetry
INVARIANTS
  TypeOK
  CallsInv
  NoOrphanEntry
  RegistrationsArmed
  NoLostEdge
  NoStaleToken
PROPERTY
  DrainsOwnWaker
CHECK_DEADLOCK FALSE
