CONSTANTS
  a1 = a1  a2 = a2  a3 = a3  p1 = p1  p2 = p2  f1 = f1  f2 = f2
  Accounts <- MCThree
  Procs <- TwoProcs
  Fibers <- MCFibers
  Watchers <- MCNoWatch
  Home <- HomeNoWatch
  OpeningBalances <- MCOpening
  Amounts <- MCAmounts
  HandlerResults <- MCResults
  MaxRevision = 1
  TotalKey = TotalKey
  NoRow = NoRow
  None = None
SPECIFICATION Spec
INVARIANTS FundsConserved AnswersShowTheTransfer OutcomeTellsTruth
PROPERTY MovesMoney
