SPECIFICATION Spec
CONSTANTS
  None = None
  t1 = t1  w1 = w1  m1 = m1  m2 = m2  e1 = e1  e2 = e2  i1 = i1
  r1 = r1  r2 = r2  a1 = a1  d1 = d1  x1 = x1
  Track = {t1}  Work = {w1}  Milestone = {m1, m2}  Evidence = {e1, e2}  Issue = {i1}
  Risk = {r1, r2}  Act = {a1}  Claim = {}  Case = {d1}  Cross = {x1}
  TrackOf <- MCTrackOf  TrackStatus <- MCTrackStatus  Commitment <- MCCommitment
  RestsOn <- MCRestsOn  Targets <- MCTargets  Affects <- MCAffects
  Treatment <- MCTreatment  Verification <- MCVerification  Impact <- MCImpact
  Number <- MCNumber
  FirstState <- MCFirstState  Values <- MCValues  FirstSince <- MCFirstSince
  EventId = {1, 2}  LastStep = 1
INVARIANT
  RisksShowTheirSources
PROPERTY
  PastSituationIsClosed
CHECK_DEADLOCK FALSE
