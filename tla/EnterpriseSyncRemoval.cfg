SPECIFICATION SyncSpec
CONSTANTS
  Identity = {i1, i2}
  Version = {v1, v2, v3}
  Hash = {h1, h2}
  SourceTime = {1, 2}
  Records <- MCRecords
  PageEnd <- MCPageEnd
  MaxCalls = 1
  None = None
SYMMETRY Symmetry
PROPERTY
  RemovalsApply
CHECK_DEADLOCK FALSE
