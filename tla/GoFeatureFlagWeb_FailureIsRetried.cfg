SPECIFICATION Spec
CONSTANTS
  Contexts = {c1, c2}
  Fetches = {f1, f2}
  Sockets = {s1, s2}
  Tasks = {t1, t2}
  MaxRetries = 1
  MaxKeys = 1
  MaxVersion = 1
  MaxFaults = 1
  MaxFetchFaults = 1
INVARIANT
  FailureIsRetried
CHECK_DEADLOCK FALSE
