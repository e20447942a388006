SPECIFICATION FairSpec
CONSTANTS
  JobIds = {a}
  Sources = {s, t}
  Kinds = {"upload", "reindex"}
  Editions = {"first"}
  Length <- Lengths
  File = "first"
  Failed = {s}
  Requests = {q1, q2}
  Cancelled = {a}
  Deletable = {t}
  ListLimit = 1
  None = None
PROPERTIES
  PublishedWhole
  PublicationEndsIfIndexing
CHECK_DEADLOCK FALSE
