\* Three runs over nine documents, and a reader, in pages of two.
SPECIFICATION Spec
CONSTANTS
  Absent = Absent
  ServerZone = 0
  Documents <- AllDocuments
  Runs = {r1, r2, r3}
  Limits = {0, 1}
  PageSize = 2
  Zones <- SessionZones
SYMMETRY RunSymmetry
INVARIANTS
  TypeOK
  EveryItemIsCounted
  ServedAsParsed
  WalkMissesNothing
PROPERTIES
  ImplementsBoard
