SPECIFICATION AllSpec
CONSTANTS
  int_max = 7
  INFINITE = 15
  Second = 4
  Asked <- AskedTimeouts
  NoTimeout = NoTimeout
  Forever = Forever
  Refused = Refused
  Sources = {f1}
  waker = waker
  Tokens = {k1, k2}
  InterestSets = {{"READABLE"}, {"READABLE", "WRITABLE"}}
  PollKinds = {"READABLE", "WRITABLE"}
  PipeCap = 2
  Capacity = 2
  NoReg = NoReg
INVARIANTS
  RequestedReadinessReported
  ClosedFlagsAgree
  FailureAlwaysReported
  WaitsAsAsked
PROPERTIES
  WakeReported
  ImplementsContract
