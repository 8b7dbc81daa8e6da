\* Every kind of dispatch, with destruction under running calls.
CONSTANTS
  Clients = {c1, c2}
  Calls = {k1, k2}
  MaxSlots = 1
  None = None
  KeepAlive = FALSE
  CallKinds = {"init", "gauge", "error", "should_enable"}
  CallbackSets <- AllOrNothing
SPECIFICATION Spec
SYMMETRY Symmetry
INVARIANTS
  TypeOK
  ArgsFreedOnce
  NoSilentLoss
