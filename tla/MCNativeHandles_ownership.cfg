\* Moves, assignments, copies and destructions in any order.
CONSTANTS
  Objects = {s1, s2}
  Handles = {h1, h2}
  Layers = {l1}
  Instances = {i1, i2, i3}
  Data = {d1, d2}
  NoRef = NoRef
SPECIFICATION Spec
SYMMETRY Symmetry
INVARIANTS
  TypeOK
  InstanceOwnership
  HandleOwnership
  ExposuresReachEvaluator
