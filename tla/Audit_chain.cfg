SPECIFICATION Spec
CONSTANTS
  Appends = {a1, a2}
  Purges = {p1, p2}
  Days = {1}
  Floor = 2
  MaxAttempts = 2
  MaxEvents = 4
  MaxClock = 4
SYMMETRY Symmetry
INVARIANTS
  TypeOK
  ChainVerifies
  ContinuousUnlessEmptied
  DroppedOutrun
PROPERTIES
  PurgeSparesRecent
