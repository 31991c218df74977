SPECIFICATION Spec
CONSTANTS
  old = old  new = new
  Paths = {1, 2, 3, 4, 5}
  Publishers = {"plan"}
  Request <- MCSingle
  Bytes = {old, new}
  Torn = Torn
  NoFile = NoFile
INVARIANTS PublishesOrRestores
