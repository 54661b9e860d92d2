\* One session against every caller and every failure the code recovers from.
CONSTANTS
  Token = {t1, t2}
  NLayers = 2
  CtxSize = 4
  MaxPrompt = 3
  PrefillCap = 2
  RawCap = 2
  ResumeMin = 2
  Dspark = TRUE
  Prompts <- MCPrompts
  FaultSites <- MCButCold
  Rewinds = {}
  Torn = Torn
  NoPayload = NoPayload
SPECIFICATION Spec
SYMMETRY TokenSymmetry
INVARIANTS
  TypeOK
  FrontierMatches
  SavedPayloadSound
  CaptureSound
PROPERTIES
  SyncOutcome
  SyncedOutput
  ProgressKept
