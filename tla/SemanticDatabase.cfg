SPECIFICATION JFairSpec
CONSTANTS
  p1 = p1  p2 = p2  f1 = f1  f2 = f2  g1 = g1  s1 = s1
  Accounts = {a1}
  Procs = {p1, p2}
  Fibers = {f1, f2, g1}
  Subscribers = {s1}
  Home <- MCHome
  OpeningBalances <- MCOpening
  Amounts <- MCAmounts
  HandlerBalances <- MCHandler
  Driver = f1
  Listener = s1
  Account = a1
  Opening = 2
  Amount = 1
  NoRow = NoRow
  None = None
INVARIANTS TypeOK GrantUsedOnce AckedIsFinal RunsOncePerRevision CommitSeesItsRead JourneyChecksHold
PROPERTIES ExactOne EveryRequestEnds
