\* The same question for an application that destroys a storage while a call
\* of it is in flight.
CONSTANTS
  Clients = {c1, c2}
  Calls = {k1, k2}
  Threads = {t1}
  MaxSlots = 2
  None = None
  KeepAlive = FALSE
  CallKinds = {"load"}
  CallbackSets <- AllSet
SPECIFICATION Spec
INVARIANTS
  LoadRepliesOwn
