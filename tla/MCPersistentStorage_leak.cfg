\* Is the argument buffer freed on every path?
CONSTANTS
  Clients = {c1}
  Calls = {k1}
  Threads = {t1}
  MaxSlots = 1
  None = None
  KeepAlive = TRUE
  CallKinds = {"save"}
  CallbackSets <- AllSet
SPECIFICATION Spec
INVARIANTS
  ArgsAlwaysFreed
