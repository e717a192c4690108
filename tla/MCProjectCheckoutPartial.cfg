CONSTANTS
  Names = {p1, p2}
  Files = {f1}
  Callers = {c1}
  Settings = {"_project"}
  MaxCalls = 1
  MaxChanges = 0
SPECIFICATION Spec
CHECK_DEADLOCK FALSE
PROPERTIES PartialCheckOutIsRecorded
