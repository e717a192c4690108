CONSTANTS
  a = a
  b = b
  Packages = {a, b}
  Top = a
  Histories <- MCBranched
  NewRevisions <- MCNewRevisions
  MaxCommits = 0
SPECIFICATION Spec
CHECK_DEADLOCK FALSE
INVARIANTS AttachedHeadIsCurrent
