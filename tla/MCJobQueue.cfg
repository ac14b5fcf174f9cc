SPECIFICATION Spec
CONSTANTS
    MaxJobs = 3
    MaxUserRetries = 1
    Concurrency = 2
    JobOptions <- MCJobOptions
    Types = {"x"}
    DrainCallers = {d1}
    PurgeAges <- MCPurgeAges
    AgeCap = 1
    MaxDelay = 2
INVARIANTS
    ActiveMatchesRunning
    AttemptsBounded
PROPERTIES
    DrainSound
    ImplementsPool
    DrainReturns
    EveryJobSettles
