SPECIFICATION MCSpec
CONSTANTS
  Calls = {w1}
  Ids = {i1, i2}
  Keys = {k1}
  Scopes = {"project"}
  Contexts <- OneProject
  Strategy <- Review
  Conflicts = {x1}
  EmbedMayFail = TRUE
  ReviewKey = k1
  Stores = {"one call"}
  SuRuns = {w1, w2}
  Memories = {i1, i2}
  Summaries = {x1, x2}
  MaxAge = 1
  MinRecords = 1
  MaxPerSummary = 2
  NoRow = NoRow
  MaxContents = 2
  SuMaxTime = 2
  None = None
CHECK_DEADLOCK FALSE
INVARIANT AcceptedIsStored
