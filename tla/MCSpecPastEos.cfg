\* Drafts that go on after Eos.
CONSTANTS
  a = a
  b = b
  eos = eos
  Token <- MCToken
  NLayers = 1
  CtxSize = 7
  PrefillCap = 4
  RawCap = 4
  ResumeMin = 2
  Dspark = TRUE
  Prompts <- MCPrompts
  FaultSites <- MCNoFaults
  Rewinds = {}
  Torn = Torn
  NoPayload = NoPayload
  Greedy <- MCEarly
  Block = 4
  Slots = 3
  Eos = eos
  DraftPastEos = TRUE
  Limits = {5}
  SpecFaults <- MCNoFaults
SPECIFICATION SpecSpec
INVARIANT FrontierMatches
