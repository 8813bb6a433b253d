SPECIFICATION DrySpec
CONSTANTS
  issue1 = issue1
  page1 = page1
  note1 = note1
  IssueVersion = {v1, v2, v3}
  Identity = {issue1, page1, note1}
  Version <- MCVersion
  Hash <- MCHash
  SourceTime = {1, 2}
  None = None
  TypeOf <- MCTypeOf
  Profiles <- MCProfiles
  CanonicalStatus <- MCStatus
  Text <- MCText
  Empty = {""}
  Records <- MCRecords
  Corpora <- MCCorpora
  ProbeSets <- MCProbes
  Snapshots <- MCSnapshots
  KeyField <- MCKeyField
  KnownAcl = {"known"}
  AsOf = 4
  StaleAfter = 2
  PinnedByMistake = {"odd"}
  MaxRecords = 3
  MaxProposals = 1
SYMMETRY Symmetry
INVARIANT JudgesAgree
PROPERTIES
  ProposalsFollowTheSource
  BlockersStay
CHECK_DEADLOCK FALSE
