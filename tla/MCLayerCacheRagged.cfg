\* Layers of ratio 4 and of another ratio, over thirteen positions; drafts longer than the slots.
CONSTANTS
  Token = {a}
  DraftToken = {b}
  Ratios = {3, 4}
  CtxSize = 13
  PrefillCap = 8
  MaxDraft = 5
  PrefixSlots = 2
  BatchPooling = TRUE
  RaggedCold = TRUE
  Empty = Empty
SPECIFICATION CacheSpec
INVARIANTS
  RowsMatch

