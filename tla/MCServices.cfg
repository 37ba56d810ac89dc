\* The services beside the coordinator, each alone.
SPECIFICATION ServicesSpec
CONSTANTS
  Callers = {c1, c2}
  Keys = {k1}
  Tokens = {1, 2}
  Exclusive = TRUE
  MaxAttempts = 3
  MaxRevision = 10
  MaxTime = 1
  Candidates = {"note", "weak", "team"}
  CandidateOf <- MCCandidates
  Statements = {"a", "b"}
  Overlapping <- MCOverlapping
  Subjects = {"ann"}
  DefaultDays = 2
  SensitiveDays <- MCSensitiveDays
  Reviewed = {"weak", "team"}
  MaxMemories = 3
  MaxDay = 1
  Nodes = {"a", "b", "c"}
  Versions = {"v1", "v2"}
  Edges <- MCEdges
  Lessons = {"l1"}
  MaxRuns = 2
  MaxManifests = 2
  Inputs <- MCInputs
  Subject <- MCSubject
  Authority <- MCAuthority
  Documents = {"d1", "d2"}
  DocVersions = {"v1", "v2"}
  CacheKeys = {"k1", "k2"}
  SourceRefs = {"s1", "s2"}
  ScopeRefs = {"p1", "p2"}
  Claims = {"c1"}
  ClaimTexts = {"t1", "t2"}
  Identities = {"i1"}
  Wants = {"w1", "w2"}
  MaxHints = 2
  MaxIntents = 2
  MaxDepth = 3
  MaxClock = 1
  Files = {"f1", "f2"}
  Schemas <- MCSchemas
  PayloadRefs = {"s1"}
  Ids = {"x", "y"}
  Numbers = {1, 2}
  Fencings = {1, 2}
  Events = {"e1", "e2", "e3"}
  Moments = {1, 2}
  MaxMarks = 2
  Tenant = "t1"
  Tenants = {"t1", "t2"}
  Period = 0
  ErrorRate = 60
  MaxReports = 3
  MaxIngests = 3
  MaxMoment = 1
  Writers = {"w1", "w2", "w3"}
  ArtifactKeys = {"a1"}
  Contents = {"one", "two"}
  Replicas = {"p1", "p2"}
  ApiRuns = {"r1", "r2"}
  ApiTasks = {"t1", "t2"}
  Goals = {"g1", "g2"}
  Compatible = {"g1"}
  SameAgain = TRUE
  MaxApiRevision = 4
CHECK_DEADLOCK FALSE
INVARIANTS
  ServicesTypeOK
  OneEffectPerKey
  ActionsTellTheTruth
  MemoryLinesHold
  MemoryReadersAreProtected
  EvolutionIsJustified
  DeletedIsNotServed
  InvalidationReaches
  VersionsStand
  StoresAgreeThroughout
  ErrorsCountOncePerIngest
  ReferencesStayTrue
  
PROPERTIES
  WhatIsSettledStays
  WorkflowKeepsOrder
  NodesSettle
