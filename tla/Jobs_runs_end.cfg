SPECIFICATION FairSpec
CONSTANTS
  Workspaces = {w1}
  JobIds = {j1}
  Kinds = {"graph"}
  Runs = {r1, r2}
  Requests = {q1, q2}
  MaxRetries = 1
  MaxStep = 1
  None = None
PROPERTIES
  RunsEnd
