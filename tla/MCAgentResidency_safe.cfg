SPECIFICATION Spec
CONSTANTS
  Ids = {a1, a2, a3}
  NoAgent = NoAgent
  MaxActs = 3
  MaxCrashes = 2
SYMMETRY IdSymmetry
INVARIANTS TypeOK PointerNamesOwner SoleHolderAhead
PROPERTIES OwnerKeptWhileReadable
CHECK_DEADLOCK FALSE
