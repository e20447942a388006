SPECIFICATION RecoverySpec
CONSTANTS
  Workspaces = {w1}
  JobIds = {j1}
  Kinds = {"graph"}
  Runs = {r1}
  Requests = {q1, q2}
  MaxRetries = 0
  MaxStep = 1
  None = None
PROPERTIES
  ReservationReturned
