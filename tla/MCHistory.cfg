CONSTANTS
  a = a
  b = b
  Packages = {a, b}
  Top = a
  Histories <- MCPossible
  NewRevisions <- MCNewRevisions
  MaxCommits = 1
SPECIFICATION Spec
CHECK_DEADLOCK FALSE
INVARIANTS TypeOK NoPackageTwice ChainIsWalked HistoryIsRight NoCommitIsItsAncestor DrawnOnce
PROPERTIES HistoryEnds
