SPECIFICATION Spec
CONSTANTS
  i1 = i1  i2 = i2  cash = cash  salary = salary  t1 = t1  t2 = t2
  Accounts = {cash, salary}
  LedgerIds = {"family", "other"}
  Invocations = {i1, i2}
  Commands <- MCCommands
  Faults = TRUE
  MaxUnits = 3
  None = None
INVARIANTS JournalRebuilds AcceptedOnce AggregatesFit
PROPERTIES KeepsTheBook
SYMMETRY MCSymmetry
