SPECIFICATION SafeSpec
CONSTANTS
  c1 = c1
  c2 = c2
  c3 = c3
  Calls = {c1, c2, c3}
  Method <- MCMethod
  RetryOption <- MCRetryOption
  Decode <- MCDecode
  Latency <- MCLatency
  MaxConnections = 2
INVARIANTS
  TypeOK
  SlotAccounting
  RequestBudget
  OutcomeFits
  SlowServerIsAwaited
  SessionsBounded
