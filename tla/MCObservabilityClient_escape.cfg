\* Does any exception leave a dispatch function?
CONSTANTS
  Clients = {c1}
  Calls = {k1}
  MaxSlots = 1
  None = None
  KeepAlive = TRUE
  CallKinds = {"gauge"}
  CallbackSets <- AllOrNothing
SPECIFICATION Spec
INVARIANTS
  NothingEscapes
