SPECIFICATION LocalSpec
CONSTANTS
  Hits = {p1, p2, p3, w1, w2, w3, g1}
  p1 = p1
  p2 = p2
  p3 = p3
  w1 = w1
  w2 = w2
  w3 = w3
  g1 = g1
  k1 = k1
  k2 = k2
  k3 = k3
  kg = kg
  e1 = e1
  e2 = e2
  e3 = e3
  e4 = e4
  e5 = e5
  HitsBy <- MCHitsBy
  KeyOf <- MCKeyOf
  KeyRank <- MCKeyRank
  HitSource <- MCHitSource
  PassagesOf <- MCPassagesOf
  Content <- MCContent
  Plans <- MCPlans
  Depth = 2
  FusionK = 1
  Unit = 6
  Weights <- MCWeights
  TopHits = 2
  Pool = 3
  PerSource = 1
  Relevance = {1, 2}
  MaxPassages = 2
  Urls = {"a", "b", "c", "d", "e", "x"}
  Seed = "a"
  Robots = "e"
  SameHost = {"a", "b", "c", "d", "e"}
  PageLimit = 2
  QueueFactor = 2
  MaxRedirects = 1
  Texts = {"t", "u"}
  LinkLists <- MCLinkLists
  s1 = s1
  s2 = s2
  Sources = {s1, s2}
  SourceKind <- MCDocuments
  Requests = {r1, r2}
  Nobody = nobody
  Deployments = {"local", "pinecone", "hosted"}
  MaxGenerations = 2
  MaxRestarts = 1
  Fragile <- MCFragile
  Items = {i1, i2}
  MaxBuilds = 2
  MaxTurns = 3
SYMMETRY Symmetry
CHECK_DEADLOCK FALSE
INVARIANTS
  LocalTypeOK
  PointersWhole
  PointersAgree
  ReadyIndexedLocally
  RemovedUnseen
  ResumesUnlessCut
  CutoverWhole
  RankingSound
  CrawlSound
