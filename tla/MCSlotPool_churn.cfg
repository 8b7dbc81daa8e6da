\* Objects come and go under running calls; the application ignores the
\* keep-alive rule.
CONSTANTS
  Clients = {c1, c2, c3}
  Calls = {k1, k2}
  MaxSlots = 2
  None = None
  KeepAlive = FALSE
SPECIFICATION PoolSpec
SYMMETRY Symmetry
INVARIANTS
  PoolTypeOK
  TableNotRaced
  SlotOwnership
  RegisteredIsRouted
  InFlightStaysValid
  MisroutedOnlyAfterRelease
  NothingLeaked
PROPERTIES
  DestroyedOutsideLock
  RefusedOnlyWhenFull
