\* The history of the kernel for a workload entry with a category.
SPECIFICATION Spec
CONSTANTS
  Root = {clone, worktree}
  Kernel <- MCKernel
  Job <- MCJob
  Workload <- MCWorkload
  StoredRun <- MCStoredRun
  Stretch = {a, b}
  Content = {x, y, z}
  PatchName = {p, q}
  MaxCommands = 3
SYMMETRY MCSymmetry
INVARIANT HistoryIsInjected
CHECK_DEADLOCK FALSE
