\* A requested chunk as large as the largest ring.
CONSTANTS
  Window = 4
  CtxSize = 14
  Requested = 8
  DefaultChunk = 6
  Pad = 4
  MaxRaw = 8
  EnvRawCap = 0
  MaxDraft = 3
  Stale = Stale
  NoPayload = NoPayload
SPECIFICATION Spec
INVARIANT WindowSeen
