SPECIFICATION Spec
CONSTANTS
  f1 = f1
  f2 = f2
  x = x
  y = y
  None = None
  Files = {f1, f2}
  Contents = {x, y}
  CheckedOut <- MCCheckedOut
  MaxEdits = 2
  MaxStray = 1
INVARIANTS
  TypeOK
  StaysReadable
  
  
PROPERTIES
  
  UserFilesAreSafe
  HeadFollowsLists
