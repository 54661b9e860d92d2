\* A draft the verifier captured no prefix of is committed from slots of an older one.
CONSTANTS
  a = a
  b = b
  eos = eos
  Token <- MCToken
  NLayers = 1
  CtxSize = 6
  PrefillCap = 4
  RawCap = 4
  ResumeMin = 2
  Dspark = TRUE
  Prompts <- MCPrompts
  FaultSites <- MCNoFaults
  Rewinds = {}
  Torn = Torn
  NoPayload = NoPayload
  Greedy <- MCGreedy
  Block = 3
  Slots = 1
  Eos = eos
  DraftPastEos = FALSE
  Limits = {1, 4}
  SpecFaults <- MCNoFaults
SPECIFICATION SpecSpec
INVARIANT FrontierMatches
