CONSTANTS
  p1 = p1
  p2 = p2
  a1 = a1
  a2 = a2
  m0 = m0
  m1 = m1
  d1 = d1
  d2 = d2
  Pages = {p1, p2}
  MaxVersion = 2
  Cap = 2
  MaxOutside = 3
  MaxSyncs = 2
  DocPaths = {p1, p2}
  MaxPushes = 2
  Refreshers = {a1, a2}
  Models = {m0, m1}
  Seeded = m0
  LegacyModel = m0
  Desks = {d1, d2}
  MaxRevision = 3
  GenRequests = {d1, d2}
  MaxGens = 2
  RepoTexts <- MCRepoTexts
  WikiTexts <- MCWikiTexts
  Exposed = {"default", "security", "lang"}
  PrFiles <- MCPrFiles
  Frameworks = {"framework"}
  Askable = {"default", "org"}
  PreFusion = 3
  AskFor = 2
  RerankTop = 2
  SubmitTop = 2
  AlikePercent = 60
  TokenBudget = 2
  RrfK = 60
  Searchers = {a1, a2}
  CacheTtl = 2
  MaxNow = 5
  MaxMoves = 3
  Checkouts <- MCCheckouts
  MaxDocs = 3
  MaxTotalRules = 4
  MaxRulePaths = 2
  PolicyMax = 2
  TotalBudget = 5
  KnowledgeRoom = 3
  EvidenceCap = 6
  EvidenceRoom = 5
  RankCacheMax = 2
  GuidanceRoom = 2
  ManifestRoom = 3
  PathLevel = 1
  DirLevel = 2
  Retrieved <- MCRetrieved
  ToolRows <- MCToolRows
  MaxPrompted = 3
  FixInputs <- MCFixInputs
  MaxFixFindings = 3
  FixRoom = 5
  ThemeSizes = {0, 1, 2, 9}
  Heads <- MCHeads
  MaxFiles = 5
  LineWindow = 1
  MaxLines = 8
  IssueLinks <- MCIssueLinks
  RepoOfPr <- MCRepoOfPr
  MaxIssues = 2
  MaxFailures = 2
  IssueTtl = 2
  MaxIssueNow = 2
  Trees <- MCTrees
  ChangedPaths <- MCChangedPaths
  MaxManifests = 3
  ManifestBytes = 2
  AllBytes = 4
  ManifestCache = 2
  MaxRecords = 1
  MaxBad = 1
SPECIFICATION CorpusSpec
CHECK_DEADLOCK FALSE
INVARIANTS
  OneVersionServed
  
  
  ServedIsActive
  
  
  

  
