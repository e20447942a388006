SPECIFICATION FairSpec
CONSTANTS
  JobIds = {a}
  Sources = {s}
  Kinds = {"upload"}
  Editions = {"first"}
  Length <- Lengths
  File = "first"
  Failed = {}
  Requests = {q1}
  Cancelled = {}
  Deletable = {s}
  ListLimit = 2
  None = None
PROPERTIES
  PublicationEnds
CHECK_DEADLOCK FALSE
