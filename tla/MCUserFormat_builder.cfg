\* Two changes to a builder, by setters and by files, with saving and
\* building anywhere between them.
SPECIFICATION Spec
CONSTANTS
  Keys = {"k1", "k2"}
  Words = {"a", "b"}
  IntLimit = 4
  MaxSteps = 2
INVARIANT UserAsSaid
INVARIANT AttributesAsSaid
