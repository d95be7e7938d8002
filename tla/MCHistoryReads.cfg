CONSTANTS
  r1 = r1
  r2 = r2
  h1 = h1
  h2 = h2
  h3 = h3
  c1 = c1
  c2 = c2
  q1 = q1
  q2 = q2
  RunId = {r1, r2}
  Hash = {h1, h2, h3}
  Payload <- MCPayload
  Recalibrator = {c1, c2}
  Speedup <- MCSpeedup
  AllRuns = AllRuns
  MaxWrites = 3
  MaxStarts = 2
  Reader = {q1, q2}
  MaxCommands = 2
SPECIFICATION Spec
SYMMETRY Symmetry
INVARIANTS
  ReadersTypeOK
  MarkedRunWasUpdated
  MissMeansReplaced
  ReadIsPrefix
  NoRunMissing
  OneEntryPerRun
PROPERTIES
  RecalibrationStaysInRun
CHECK_DEADLOCK FALSE
