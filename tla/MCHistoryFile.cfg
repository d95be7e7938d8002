CONSTANTS
  Proc = {p1, p2}
  LegacyRow = {old}
  MaxRestarts = 2
  MaxBackup = 2
SYMMETRY Symmetry
SPECIFICATION Spec
INVARIANTS
  TypeOK
  HistorySurvives
  ReadyHasSchema
