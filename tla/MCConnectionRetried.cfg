SPECIFICATION SafeSpec
CONSTANTS
  c1 = c1
  c2 = c2
  c3 = c3
  Calls = {c1, c2}
  Method <- MCMethod
  RetryOption <- MCPatientRetryOption
  Decode <- MCDecodeAll
  Latency <- MCLatency
  MaxConnections = 2
INVARIANTS
  RetryableStatusIsRetried
