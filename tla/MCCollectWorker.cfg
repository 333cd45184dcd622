SPECIFICATION Spec
CONSTANTS
  Collectors = {c1}
  Workers = {w}
  Nobody = Nobody
  TTL = 1
  StaleMax = 2
  NegativeTTL = 1
  BackoffBase = 1
  BackoffMax = 2
  MaxConsecutive = 2
  WorkerTimeout = 1
  RetryAfters = {0}
  Horizon = 3
INVARIANTS FreshIsRecent
PROPERTIES StampsForward
