CONSTANTS
  Urls = {u1, u2}
  Adders = {c1, c2}
  MaxEdits = 2
  MaxMixes = 1
  TokenCallers = {t1, t2}
  MaxTokens = 4
SPECIFICATION MCSpec
SYMMETRY MCSymmetry
CHECK_DEADLOCK FALSE
INVARIANTS OneAccountPerUrl
PROPERTIES NoAccountIsLost ReturnsOwnToken
