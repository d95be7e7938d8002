CONSTANTS
  MaxCommits = 4
  MaxEvents = 3
SPECIFICATION Spec
INVARIANTS
  TypeOK
  SyncedRunIsComplete
  RunIsOneLine
  OnlyOwnCommits
  LinearWorkIsAccepted
  ArchiveIsRestorable
  RestoreHasRun
CHECK_DEADLOCK FALSE
