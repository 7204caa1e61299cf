SPECIFICATION FairSpec
CONSTANTS
  Sockets = {s1}
  Threads = {t1}
  Tokens = {k1}
  WakerTokens = {k1}
  InterestSets = {{"READABLE"}, {"READABLE", "WRITABLE"}}
  Conditions = {"receive", "send"}
  Capacity = 1
  MaxOpens = 1
  MaxStates = 1
  MaxFaults = 0
  MaxPackets = 1
  NoReg = NoReg
  NoToken = NoToken
PROPERTIES
  ImplementsContract
CHECK_DEADLOCK FALSE
