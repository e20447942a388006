SPECIFICATION AccessSpec
CONSTANTS
  a1 = a1
  a2 = a2
  mail = mail
  internal = internal
  AccountIds = {a1, a2}
  Email <- MCEmail
  SessionIds = {s1}
  AccountCalls = {c1, c2}
  Verification = TRUE
  MaxToken = 1
  MaxPassword = 1
  MaxLinks = 2
  Orgs = {o1}
  Users = {u1, u2}
  OrgCalls = {q1, q2}
  Clearances = {internal}
  Default = internal
  Invited = {"member", "owner"}
  Changes <- MCChanges
  Nobody = nobody
  Limits = {l1, l2}
  Width = 2
  Limit = 2
  MaxTime = 5
  MaxCount = 4
  d1 = d1
  b1 = b1
  b2 = b2
  Corpus = {d1, b1, b2}
  CorpusKind <- MCCorpusKind
  Settings = {"local", "pinecone", "hosted"}
  Configured <- MCConfigured
  TopLabel = 2
  FirstLabel = 1
  Filters = {{}, {d1}, {d1, b1}}
  Fusions <- MCFusions
  RuleScores = {0, 60, 85}
  Threshold = 70
  Margin = 15
  MaxChanges = 1
SYMMETRY Symmetry
CHECK_DEADLOCK FALSE
INVARIANTS
  AccessTypeOK
  UsedTokensRemembered
  OpenSinceReset
  OrphansUntold
  OwnerKept
  PrivilegeFromOwner
  RemovedStayOut
  WindowHolds
  AnswersRightful
  AnswersFromActive
  IndexedFound
PROPERTIES
  RevokedForGood
