SPECIFICATION Spec
CONSTANTS
  m1 = m1  m2 = m2  d1 = d1  d2 = d2
  CoreTexts = {"a"}
  MeaningOf <- MCMeaningOf
  PkgTexts = {"p", "q", "r"}
  DigestOf <- MCDigestOf
  NixTexts = {"x"}
  Home <- MCHome
  Invalid = Invalid
  Supported = d1
  Probes <- MCProbes
  Objectives <- MCObjectives
  Commands = {"assemble", "invalidate"}
  MaxCommands = 2
  MaxEdits = 2
  Absent = Absent
  Torn = Torn
  Unread = Unread
INVARIANTS RetirementReachesDependents
