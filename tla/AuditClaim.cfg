SPECIFICATION Spec
CONSTANTS
  m1 = m1  m2 = m2  d1 = d1  d2 = d2
  CoreTexts = {"a", "b", "c", "broken"}
  MeaningOf <- MCMeaningOf
  PkgTexts = {"p", "q", "r"}
  DigestOf <- MCDigestOf
  NixTexts = {"x", "y"}
  Home <- MCHome
  Invalid = Invalid
  Supported = d1
  Probes <- MCProbes
  Objectives <- MCObjectives
  Commands = {"assemble", "audit"}
  MaxCommands = 2
  MaxEdits = 2
  Absent = Absent
  Torn = Torn
  Unread = Unread
INVARIANTS CosmeticAuditRetiresNothing
