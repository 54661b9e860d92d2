\* One layer, two variants for each of its islands, one session on one pair of hidden states at one of
\* two addresses, a scratch buffer of up to two units.  Compressors of ratio 4 and of another ratio,
\* over eleven positions; drafts longer than the slots.
CONSTANTS
  Layers <- MCLayers
  Variants = 2
  Slots = {1}
  Addresses = {1, 2}
  MaxTmp = 2
  IslandNeeds <- MCNeeds
  Token = {t1}
  DraftToken = {d1}
  Ratios = {3, 4}
  CtxSize = 11
  PrefillCap = 6
  MaxDraft = 5
  PrefixSlots = 2
  BatchPooling = TRUE
  RaggedCold = FALSE
  Empty = Empty
SPECIFICATION MCSpec
INVARIANTS RanOnce ReplaySound RowsMatch
PROPERTY TokenEnds
