\* Scoped and other applications with two adapters.
CONSTANTS
  Objects = {s1, s2}
  Handles = {h1, h2}
  Layers = {}
  Instances = {i1, i2}
  Data = {d1}
  NoRef = NoRef
  Adapters = {a1, a2}
  Builders = {b1}
  None = None
  Absent = Absent
SPECIFICATION LifecycleSpec
SYMMETRY Symmetry
INVARIANTS
  LifecycleTypeOK
  AdaptersOutliveInstances
  ConfiguredAsChosen
