SPECIFICATION Spec
CONSTANTS
  Sockets = {s1}
  Threads = {t1}
  Tokens = {k1}
  WakerTokens = {}
  InterestSets = {{"READABLE"}, {"READABLE", "WRITABLE"}}
  Conditions = {"receive", "send"}
  Capacity = 1
  MaxOpens = 2
  MaxStates = 2
  MaxFaults = 1
  MaxPackets = 1
  NoReg = NoReg
  NoToken = NoToken
INVARIANTS
  TypeOK
  OneOperation
  StaysArmed
  EventFromItsSource
  PollSucceeds
CHECK_DEADLOCK FALSE
