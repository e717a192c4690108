CONSTANTS
  Names = {p1, p2}
  Files = {f1, f2}
  Callers = {c1, c2}
  Settings = {"_project"}
  MaxCalls = 2
  MaxChanges = 1
SPECIFICATION Spec
CHECK_DEADLOCK FALSE
SYMMETRY Symmetry
INVARIANTS TypeOK PackagesAreSnapshots SettledIsReadable NobodyIsStuck
PROPERTIES SuccessIsComplete CancelledLeavesEmptyDir RefreshOnlyForgets
