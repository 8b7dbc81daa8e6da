\* Nested and concurrent loads of storages that are kept alive: each reaches
\* its own storage and is answered with its own value, and all that was
\* started finishes.
CONSTANTS
  Clients = {c1, c2}
  Calls = {k1, k2}
  Threads = {t1, t2}
  MaxSlots = 1
  None = None
  KeepAlive = TRUE
  CallKinds = {"load"}
  CallbackSets <- AllSet
SPECIFICATION FairSpec
INVARIANTS
  LoadRepliesOwn
  RoutedToOwner
PROPERTIES
  CallsAnswered
  ObjectsSettle
  ImplementsRegistry
