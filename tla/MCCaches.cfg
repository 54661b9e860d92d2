\* A window of four and chunks of four in a ring of eight rows, under a context of fourteen
\* tokens: the ring wraps.  The drafter: a prompt and extensions in chunks of three over a ring
\* of six; every pause of the scheduler is one cycle, but for misses: two.
CONSTANTS
  Window = 4
  CtxSize = 14
  Requested = 4
  DefaultChunk = 6
  Pad = 4
  MaxRaw = 8
  EnvRawCap = 0
  MaxDraft = 3
  Stale = Stale
  NoPayload = NoPayload
  Token = {t1}
  DraftToken = {d1}
  Prompts = {4}
  Extensions = {1, 2}
  SessionCtx = 9
  ChunkCap = 3
  CacheCap = 6
  Block = 2
  PrefixSlots = 1
  SchedWindow = 1
  SkipCycles = 1
  SlowSkip = 1
  NoDraftSkip = 1
  ShortAcceptSkip = 2
  ColdSkip = 2
  Junk = Junk
  t1 = t1
SPECIFICATION MCSpec
INVARIANTS
  WindowSeen
  LiveRows
  PayloadRows
  LongOwnRowsSeen
  DraftsFromLive
PROPERTIES
  CallReturns
  PausesEnd
