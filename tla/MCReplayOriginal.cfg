CONSTANTS
  r1 = r1 r2 = r2 h1 = h1 h2 = h2 a1 = a1 k1 = k1 k2 = k2 cuda = cuda none = none
  RunId = {r1, r2}
  Hash = {h1, h2}
  Backend = {cuda, none}
  NoBackend = none
  ArchiveId = {a1}
  Key = {k1, k2}
  Payload <- MCPayload
  Client = {c1, c2}
  Handler = {g1, g2}
  Writer = {w1}
  Proc <- MCProc
  NoProc = NoProc
  Request <- MCRequest
  Job <- MCJob
  MaxMishaps = 1
SYMMETRY Symmetry
SPECIFICATION Spec
INVARIANT OriginalResponseReplayed
