SPECIFICATION BangSpec
CONSTANTS
  m1 = m1  m2 = m2  d1 = d1  d2 = d2
  CoreTexts = {"a", "b", "c", "broken"}
  MeaningOf <- MCMeaningOf
  PkgTexts = {"p", "q", "r"}
  DigestOf <- MCDigestOf
  NixTexts = {"x", "y"}
  Home <- MCHome
  Invalid = Invalid
  Supported = d1
  Probes <- MCProbes
  Objectives <- MCObjectives
  Commands = {"explain", "classify1", "classify2", "plan", "assemble", "audit", "invalidate"}
  MaxCommands = 2
  MaxEdits = 2
  Absent = Absent
  Torn = Torn
  Unread = Unread
  TraceSelections <- MCTraceSelections
  BaselineSources <- MCBaseline
  Alternatives <- MCAlternatives
  Additions <- MCAdditions
  MaxSourceEdits = 2
  Undecodable = Undecodable
  Realization = "WithdrawAccountOnce"
  OtherJourneys <- MCOtherJourneys
  Rivals = {r1, r2}
  RivalAmounts = {1, 20}
  MaxSent = 2
  MaxRestarts = 2
  Repositories <- MCRepositories
  Rewrites <- MCRewrites
  Manifests <- MCManifests
  MaxProjectEdits = 2
  NotRead = NotRead
  Garbled = Garbled
  TypeNames <- MCNames
  ValueNames <- MCNames
  SameSymbol <- MCSameSymbol
  EntityNames <- MCEntityNames
  ActorNames <- MCActorNames
  oldBytes = oldBytes  newBytes = newBytes
  TreePaths = {1, 2, 3, 4, 5}
  Publishers = {"plan", "schemas", "twice"}
  Request <- MCRequest
  Bytes = {oldBytes, newBytes}
  TornFile = TornFile
  NoFile = NoFile
INVARIANTS EvidenceHangsTogether  PlanIgnoresOrder FailedStagedRunsPublishNothing RetiresOnlyTheStale
  VerdictsTellTheSchedules CheckedDocumentsAreComplete ReuseIsExact InvalidatorsSuffice
  GrantsBuyOneRun ProbesShowExactOne ProjectReportsStand ProjectionsDischargeObligations
  AtomicUnlessKilled KilledLeavesPrefix CustodyIsPrior
PROPERTIES OwnersCoordinate
