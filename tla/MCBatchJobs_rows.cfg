CONSTANTS
  a = a
  b = b
  N = 2
  Lazy = {2}
  Task = {a, b}
  NoTask = NoTask
  Slots = 1
  MaxAttempts = 2
  MaxUploads = 2
  Budget <- OneEach
SPECIFICATION FairSpec
INVARIANT OneTaskPerRow
INVARIANT ChargesBacked
INVARIANT StatusTruthful
INVARIANT RowsTied
INVARIANT NoGhost
INVARIANT SlotLimit
PROPERTY SettledRows
PROPERTY JobEnds
