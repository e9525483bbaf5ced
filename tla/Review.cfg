\* Three chunks with room for two, two workers, one fault; two findings; two attempts.
CONSTANTS
  NumChunks = 3
  MaxChunks = 2
  MaxFindings = 3
  Concurrency = 2
  MaxFaults = 1
  f1 = f1
  f2 = f2
  FindingIds = {f1, f2}
  MaxAttempts = 3
  a1 = a1
  a2 = a2
  Attempts = {a1, a2}
  MaxEdits = 1
  p1 = p1
  p2 = p2
  Passes = {p1, p2}
  Linters = {"ruff"}
  Sources = {1, 2}
  ToReview = {1}
  Problems <- MCProblems
  ChangedIn = {1}
  MaxRawPerTool = 1
  MaxFilesPerRunner = 1
  PerFile = 2
  PerReview = 2
  MaxRows = 2
  LinterIn <- MCLinterIn
  LlmIn <- MCLlmIn
  MinConfidence <- MCMinConfidence
  ToolOf <- MCToolOf
  Targets = {1, 2, 3}
  MaxPasses = 2
  MaxTries = 2
  Aggregates <- MCAggregates
  ChangedLines <- MCChangedLines
  RuleFiles <- MCRuleFiles
  OwnerRules <- MCOwnerRules
  PerBucket = 1
  SectionItems = 2
  SectionSize = 4
  SectionSlack = 1
  InlineCap = 1
  BodySize = 8
  TopReviewers = 2
SPECIFICATION ReviewSpec
CHECK_DEADLOCK FALSE
INVARIANTS
  
  
  CreatorPairsComments
  
  
  
SYMMETRY PassSymmetry
