\* Every value of the core, every struct, and files that deviate in two fields.
CONSTANTS
  Strings = {s1}
  Arrays = {empty, exposures}
  Numbers = {1, 5}
  VersionRange = 4
  True = True
  False = False
  Blobs = {b1}
  Empty = empty
  Absent = Absent
  Null = Null
  Other = Other
  MaxDeviations = 2
SPECIFICATION Spec
INVARIANTS
  StickySurvives
  CoreCanRead
