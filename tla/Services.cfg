CONSTANTS
  Admins = {u1, u2, u3}
  Supers = {u1}
  Locals = {u2, u3}
  MaxChanges = 2
  Approvers = {u1, u2}
  FlagCalls = {c1, c2, c3}
  FlagValues = {v1, v2}
  NoValue = null
  Logins = {c1, c2, c3}
  Threshold = 2
  MaxAttempts = 2
  Replicas = {p1, p2, p3}
  MaxBoots = 4
  NoKey = null
  a1 = a1
  a2 = a2
  a3 = a3
  k1 = k1
  k2 = k2
  o1 = o1
  zero = zero
  Attempts = {a1, a2, a3}
  Keys = {k1, k2}
  KeyOf <- MCKeyOf
  Orgs = {o1}
  Platform = zero
  OrgOf <- MCOrgOf
  Estimate = 2
  Costs = {3}
  CapChoices = {3, 4}
  MaxDay = 2
  Calls = {c1, c2}
  Providers = {p1, p2}
  CredTtl = 1
  HardStale = 1
  MaxRotation = 2
  MaxInstant = 2
  ModelIds = {m1}
  Makers = {p1, p2}
  Seed = seed
  Editors = {d1, d2}
  Resolvers = {x1, x2}
  PinTtl = 1
  MaxMoment = 3
  GhCallers = {g1, g2}
  TokenLife = 2
  RefreshAt = 1
  NegativeFor = 1
  MaxSends = 2
  MaxMints = 2
  MaxTicks = 2
  OldRuns = {u1}
  Sweepers = {w1, w2}
  PrTtl = 0
  RunTtl = 1
  EventTtl = 1
  MaxAge = 3
  PodEnvs <- MCPodEnvs
  Expected <- MCExpected
  MaxRotations = 1
SPECIFICATION ServicesSpec
CHECK_DEADLOCK FALSE
INVARIANTS
  AccessSound
  FlagByTwoUnlessOvertaken
  LlmCallsSound
  ProcessesSound
  ClosedBeforeRetired
