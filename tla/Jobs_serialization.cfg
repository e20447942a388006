SPECIFICATION Spec
CONSTANTS
  Workspaces = {w1}
  JobIds = {j1, j2}
  Kinds = {"graph"}
  Runs = {r1}
  Requests = {q1, q2}
  MaxRetries = 1
  MaxStep = 1
  None = None
PROPERTIES
  RecordedUnderReservation
