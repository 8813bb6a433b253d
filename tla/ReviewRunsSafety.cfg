SPECIFICATION FairSpec
CONSTANTS
  Run = {r1}
  Worker = {w1, w2}
  NoWorker = NoWorker
  Step = {s1, s2, s3}
  Checkpointed = {s1, s2}
  MaxAttempts = 2
  MaxCrashes = 1
INVARIANTS
  TypeOK
  StaleThreadsAreFenced
  AcceptedStepsAreNotRepeated
  ResultIsAcceptedSteps
  OneThreadPerMainLoop
  EventLogTellsStatus
PROPERTIES
  CancellationWins
  AcceptedOutputIsFinal
  ImplementsLifecycle
  QueuedRunsAreTaken
  ClaimedRunsSettleOrStrand
