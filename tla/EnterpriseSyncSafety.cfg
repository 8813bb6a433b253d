SPECIFICATION SyncSpec
CONSTANTS
  Identity = {i1, i2}
  Version = {v1, v2, v3}
  Hash = {h1, h2}
  SourceTime = {1, 2}
  Records <- MCRecords
  PageEnd <- MCPageEnd
  MaxCalls = 2
  None = None
SYMMETRY Symmetry
INVARIANTS
  SyncTypeOK
  ResumedAsUninterrupted
  RevisionsCountChanges
  ActiveContentIsNewest
CHECK_DEADLOCK FALSE
