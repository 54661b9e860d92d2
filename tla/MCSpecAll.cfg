\* Speculation with every failure, drafts that stop at Eos and slots for every prefix.
CONSTANTS
  a = a
  b = b
  eos = eos
  Token <- MCToken
  NLayers = 1
  CtxSize = 6
  PrefillCap = 3
  RawCap = 4
  ResumeMin = 2
  Dspark = TRUE
  Prompts <- MCPrompts
  FaultSites <- MCDecodeFaults
  Rewinds = {}
  Torn = Torn
  NoPayload = NoPayload
  Greedy <- MCGreedy
  Block = 3
  Slots = 2
  Eos = eos
  DraftPastEos = FALSE
  Limits = {1, 3, 4}
  SpecFaults <- MCAllSites
SPECIFICATION MCSpec
INVARIANTS
  SpecFrontier
  ChunkSchedule
  AcceptedIsLive
  GreedyExact
  LongAccepted
PROPERTY KeepsText
