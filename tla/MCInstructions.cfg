SPECIFICATION InstructionsSpec
CONSTANTS
  None = None
  InstructionDocs <- MCInstructionDocs
  IncludeFiles = {"f", "g", "h"}
  IncludeTexts <- MCIncludeTexts
  IncludeLinks <- MCIncludeLinks
  TreeDepth = 3
CHECK_DEADLOCK FALSE
INVARIANT CollectsAllUpToStop
