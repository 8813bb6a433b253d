SPECIFICATION TwinSpec
CONSTANTS
  None = None
  t1 = t1  t2 = t2  w1 = w1  w2 = w2  m1 = m1  m2 = m2  e1 = e1  x1 = x1
  c1 = c1  c2 = c2  c3 = c3  o1 = o1  o2 = o2  q1 = q1  rA = rA  rB = rB
  Track = {t1, t2}  Work = {w1, w2}  Milestone = {m1, m2}  Evidence = {e1}  Act = {x1}
  Claim = {c1, c2, c3}  Option = {o1, o2}  Reversible = {o1}  Uncertainties = {q1}
  Role = {rA, rB}  RequiredRoles = {rA}
  TrackOf <- MCTrackOf  NextMilestone <- MCNextMilestone  Deadline = m1
  Sources <- MCSources  Standing <- MCStanding  Cost <- MCCost
  Position <- MCPosition  OptionClaims <- MCOptionClaims
  Values <- MCValues  FirstState <- MCFirstState
  EventId = {1, 2}  FirstStep = 1  LastStep = 3
  Executions <- MCExecutions  FixtureDossier <- MCDossier
  AllowedTypes = {"APPROVE_WITH_GUARDRAILS", "DEFER_UNTIL_TRIGGER", "ESCALATE"}
  CheckFloor = 2  Paths <- MCPaths  Expected <- MCExpected
  CaseStatus = "DECISION_REQUIRED"  TemplateStep = 1  Transitions <- MCTransitions
INVARIANTS
  HindsightIsFaithful
  TimelineCoversThePacket
  ChairMeetsItsChecks
  ViolationsStopTheAction
PROPERTIES
  PastIsClosed
CHECK_DEADLOCK FALSE
