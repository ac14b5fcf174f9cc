SPECIFICATION ServicesSpec
CONSTANTS
  Services = {"questions", "api", "lock", "webhooks", "credentials", "migrations", "usage", "billing", "health",
              "propagation", "skills", "skillHistory"}
  None = None
  DayLength = 6
  PolicyUniverse <- MCPolicies
  PolicySetSize = 2
  PolicyContexts <- MCAskers
  Taxonomies <- MCTaxonomies
  GuardRules <- MCGuardRules
  GlobLength = 3
  RuleIds = {1, 2}
  RuleBodies = {1, 2}
  DocumentLength = 2
  Files = 2
  Windows <- MCWindows
  Thresholds <- MCThresholds
  Actors <- MCActors
  Tools <- MCTools
  ReportedAt = 4
  Entries = 3
  Lines = {"a", "b", "c"}
  DiffLength = 3
  MergeValues = {1, 2}
  MostChanges = 2
  Clients = {c1, c2}
  Routes <- MCRoutes
  NoId = "-"
  Editors = {e1, e2}
  MaxWrites = 4
  MaxRequests = 3
  Hooks <- MCHooks
  MaxHooks = 2
  Events <- MCEvents
  MaxRetries = 1
  Migrators = {m1, m2}
  MigrationVersions = 3
  Reversible = {2, 3}
  Databases = {"sql", "memory"}
  MaxMigrations = 3
  Collectors = {u1, u2}
  UsageStorages = {"memory", "sql"}
  UsagePage = 1
  MaxUsage = 4
  UsMaxTime = 2
  Syncs = {b1, b2}
  Providers <- MCProviders
  Interval = 1
  Lookback = 1
  CbMaxTime = 2
  Restated = 2
  UsageSamples <- MCUsageSamples
  UsageInputs <- MCUsageInputs
  Prices <- MCPrices
  Mappings <- MCMappings
  InfraRecords <- MCInfra
  AnomalyFactor = 2
  ReportSpan = 3
  s1 = s1
  s2 = s2
  w1 = w1
  Sessions = {s1, s2}
  Sweepers = {w1}
  Creds = {c1}
  Owner <- owner
  Accessors <- MCAccessors
  Policies <- MCAccessPolicies
  Scopes = {"org"}
  Values = {v1, v2}
  Versions = {1, 2}
  Provider <- OldAndNew
  MaxCalls = 4
  Absent = Absent
  Deleted = Deleted
  Idle = Idle
  HealthServers = {h1}
  HealthRuns = {r1, r2}
  HealthRetries = 1
  FailureThreshold = 2
  SuccessThreshold = 2
  MaxHealthChecks = 3
  Targets = {t1, t2}
  MaxRegistrations = 2
  Semvers <- MCSemvers
  PinSemvers <- MCPinSemvers
  VersionListSize = 2
  SkillNames <- MCSkillNames
  SkillIds <- MCSkillIds
  SkillVersionsUsed = {1, 2}
  SkillConfigs = {"x"}
  SkillErrors = {"e"}
  SkRetention = 1
  SkMaxTime = 2
  MaxSkillEvents = 2
  Garbage = Garbage
  MarketSkills <- MCMarketSkills
  MarketFilters <- MCMarketFilters
  MarketLimits = {None, 1, 9}
  MarketOffsets = {None, 1, 3}
  DefaultLimit = 1
  MaxLimit = 3
  AnalyticsLimit = 9
  Installs <- MCInstalls
  Invocations <- MCInvocations
  MonthStarts <- MCMonthStarts
  InstructionDocs <- MCInstructionDocs
  IncludeFiles = {"f", "g", "h"}
  IncludeTexts <- MCIncludeTexts
  IncludeLinks <- MCIncludeLinks
  TreeDepth = 3
  TableRows <- MCTableRows
  QueryConditions <- MCQueryConditions
  CursorValues = {0, 2}
  QueryLimits = {None, 0, 1, 2}
  ExportRecords <- MCExportRecords
  ExportFields <- MCExportFields
  DayHours = 4
  UsageRecords <- MCUsageRecords
CHECK_DEADLOCK FALSE
INVARIANTS  DocumentsSound ConfigDocumentsSound Decryptable NothingUnlogged
           McpServicesSound MigrationsSound  
PROPERTY OnlyRacingRotationRevives
