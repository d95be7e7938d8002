CONSTANTS
  Proc = {p1}
  LegacyRow = {old}
  MaxRestarts = 0
  MaxBackup = 2
SPECIFICATION Spec
INVARIANT DuplicatesCollapsed
