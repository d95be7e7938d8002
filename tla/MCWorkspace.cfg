\* Prepare for two kernels at once and patch, with failures and deaths.
SPECIFICATION Spec
CONSTANTS
  Root = {clone, worktree}
  Kernel <- MCKernel
  Job <- MCJob
  Workload <- MCWorkload
  StoredRun <- MCStoredRun
  Stretch = {a, b}
  Content = {x, y, z}
  PatchName = {p, q}
  MaxCommands = 3
SYMMETRY MCSymmetry
INVARIANTS
  TypeOK
  ManifestIsTrue
  
  ApplyIsChecked
CHECK_DEADLOCK FALSE
