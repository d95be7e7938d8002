CONSTANTS
  Proc = {p1}
  LegacyRow = {old}
  MaxRestarts = 1
  MaxBackup = 2
SPECIFICATION Spec
INVARIANT OpenShowsHistory
