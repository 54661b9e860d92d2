\* A directory with room for two or three checkpoints, shared by engines of
\* different context sizes and quantizations that run one after the other.
CONSTANTS
  x = x
  y = y
  m = m
  Snapshots <- MCSnapshots
  Prompts <- MCPrompts
  Engines <- MCEngines
  RejectQuant = TRUE
  Budget = 12
  Overhead = 1
  Reasons = {"cold", "continued"}
  Trailers = {1}
  MinTokens = 1
  Step = 2
  MaxHits = 1
  Faults <- MCFaults
  None = None
SPECIFICATION Spec
INVARIANTS
  FilesWhole
  BudgetKept
  StoredIsFound
PROPERTIES
  KeepsUsable
  AnchorsLast
