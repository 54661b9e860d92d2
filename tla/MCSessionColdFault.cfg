\* Only the failure of a chunk of a cold prefill.
CONSTANTS
  Token = {t1, t2}
  NLayers = 2
  CtxSize = 5
  MaxPrompt = 4
  PrefillCap = 2
  RawCap = 2
  ResumeMin = 2
  Dspark = TRUE
  Prompts <- MCPrompts
  FaultSites <- MCColdOnly
  Rewinds = {}
  Torn = Torn
  NoPayload = NoPayload
SPECIFICATION Spec
PROPERTIES
  SyncedOutput
