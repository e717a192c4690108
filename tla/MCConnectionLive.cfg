SPECIFICATION Spec
CONSTANTS
  c1 = c1
  c2 = c2
  c3 = c3
  Calls = {c1, c2}
  Method <- MCMethod
  RetryOption <- MCPatientRetryOption
  Decode <- MCDecode
  Latency <- MCLatency
  MaxConnections = 1
PROPERTIES
  ImplementsPool
  EveryCallSettles
