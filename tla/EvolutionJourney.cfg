CONSTANTS
  p1 = p1  f1 = f1  src = src  tgt = tgt
  Accounts = {src, tgt}
  Procs = {p1}
  Fibers = {f1}
  Watchers <- MCWatchers
  Home <- MCHome
  OpeningBalances <- MCOpening
  Amounts <- MCAmounts
  HandlerResults <- MCResults
  MaxRevision = 3
  Driver = f1
  Source = src
  Target = tgt
  SourceOpening = 8
  TargetOpening = 4
  Amount = 2
  Overdraft = 9
  Continuation <- MCScript
  o1 = o1  s1 = s1  s2 = s2  d1 = d1  d2 = d2  d3 = d3
  Service = s1
  OtherServices = {s2}
  BaselineDigest = d1
  CandidateDigest = d2
  OtherDigests = {}
  Rivals = {o1}
  PostAmount = 1
  TotalKey = TotalKey
  NoRow = NoRow
  None = None
SPECIFICATION EFairSpec
INVARIANTS EvolutionChecksHold QuietIsCurrent VersionFollowsData CutoverIsFinal
PROPERTIES JourneyEnds
