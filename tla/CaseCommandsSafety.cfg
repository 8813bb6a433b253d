SPECIFICATION CaseSpec
CONSTANTS
  Client = {q1, q2}
  Key = {k1, k2, k3}
  Dossier = {d1, d2}
  Option = {a, b}
  k1 = k1
  k2 = k2
  k3 = k3
  d1 = d1
  d2 = d2
  a = a
  b = b
  Chosen <- MCChosen
  Pathless = {}
  LastStep = 2
  RevealStep = 2
  MaxVersion = 3
  Commands <- MCCommands
  None = None
SYMMETRY Symmetry
INVARIANTS
  CommandsTypeOK
  CaseIsItsEvents
  AnswersAreRecorded
  OneRowPerKey
  FinalAnswersTheAdvice
  EvaluationsFollowTheReveal
PROPERTY
  PhasesAreImmutable
