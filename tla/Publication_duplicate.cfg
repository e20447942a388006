SPECIFICATION Spec
CONSTANTS
  JobIds = {a, b}
  Sources = {s, t}
  Kinds = {"upload"}
  Editions = {"first"}
  Length <- Lengths
  File = "first"
  Failed = {}
  Requests = {q1, q2}
  Cancelled = {}
  Deletable = {}
  ListLimit = 2
  None = None
PROPERTIES
  DuplicatesHarmless
CHECK_DEADLOCK FALSE
