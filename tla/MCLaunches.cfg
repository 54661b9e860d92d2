\* Tiles of one, two and four pairs, hidden and output rows of the model that is served; two
\* warps of one thread with room for two rows each.  MCLaunches gives the encoders and the
\* indexer their values, and every mix of an encoder's switches is an initial state.
CONSTANTS
  NThreads = 3
  GenMod = 2
  MinParallel = 3
  Low = 0
  Scores <- MCScores
  None = None
  Target = target
  Support = support
  NoFile = NoFile
  Gap = 1
  MaxSpan = 3
  StageBuffers = 2
  ArenaUnits = 3
  MaxArenas = 3
  MaxFails = 1
  Tensors <- MCTensors
  Calls <- MoeCalls
  Unit = 1
  Small = 2
  Large = 4
  MidDim = 2048
  OutDim = 4096
  ScoreRows <- StreamRows
  NWarps = 2
  Lanes = 1
  Items = 2
  K = 2
SPECIFICATION MCSpec
INVARIANTS
  NothingJunk
  LayerLeaves
  LookupsTrue
  PreparedAll
  RoutedSum
  SelectedBest
  ExactTogether
  JobAlive
  RowsOnce
PROPERTIES
  Implements
  ShutdownEnds
