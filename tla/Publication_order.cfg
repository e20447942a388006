SPECIFICATION Spec
CONSTANTS
  JobIds = {a, b}
  Sources = {s, t}
  Kinds = {"website", "reindex"}
  Editions = {"first", "longer"}
  Length <- Lengths
  File = "first"
  Failed = {}
  Requests = {q1, q2}
  Cancelled = {}
  Deletable = {}
  ListLimit = 2
  None = None
SYMMETRY Symmetry
INVARIANTS
  TypeOK
  ReadyIndexed
  SameDocuments
PROPERTIES
  PublishedWhole
CHECK_DEADLOCK FALSE
