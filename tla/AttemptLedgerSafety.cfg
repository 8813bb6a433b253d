SPECIFICATION LedgerSpec
CONSTANTS
  Run = {r1}
  Worker = {w1, w2}
  NoWorker = NoWorker
  Step = {s1}
  Checkpointed = {s1}
  MaxAttempts = 2
  MaxCrashes = 1
  MaxCalls = 2
SYMMETRY Symmetry
INVARIANTS
  AcceptedOutputsAreAudited
  OpenRowsHaveACall
