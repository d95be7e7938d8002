CONSTANTS
  Proc = {p1, p2}
  LegacyRow = {old}
  MaxRestarts = 0
  MaxBackup = 2
SPECIFICATION Spec
INVARIANT LegacyFileKept
