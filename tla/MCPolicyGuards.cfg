SPECIFICATION GuardsSpec
CONSTANTS
  Guards = {"approval", "killSwitch", "rateLimiter", "hooks", "query", "notify", "compliance", "dashboard"}
  Calls = {c1, c2, c3}
  Requests = {r1, r2}
  Fingerprints = {f1, f2}
  NoRequest = NoRequest
  KsCallers = {k1, k2}
  KsActions = {"deploy", "read"}
  Patterns <- MCPatterns
  Sla = 2
  KsMaxTime = 4
  KsMaxOps = 4
  Rules <- MCRules
  Contexts <- MCCallers
  Unset = Unset
  RlCallers = {l1}
  RlMaxTime = 3
  MaxConsumes = 4
  PreCount = 2
  PostCount = 2
  Kinds = {"denied", "veto", "request", "gated", "approve"}
  Storages = {"memory", "sql"}
  Readers = {"query", "notify", "compliance", "dashboard"}
  PageSize = 1
  MaxEntries = 3
  AtMaxTime = 2
  LookBacks = {1, 2}
  Threshold = 2
CHECK_DEADLOCK FALSE
INVARIANTS PendingIsIndexed AllowedWasApproved KillSwitchSound RateLimiterSound  
PROPERTY OnlyRacingDecisions
