SPECIFICATION FairSpec
CONSTANTS
  Collectors = {c1, c2}
  Workers = {}
  Nobody = Nobody
  TTL = 0
  StaleMax = 1
  NegativeTTL = 1
  BackoffBase = 1
  BackoffMax = 2
  MaxConsecutive = 2
  WorkerTimeout = 1
  RetryAfters = {0}
  Horizon = 1
INVARIANTS FetchJustified  IInv
PROPERTIES CallsReturn
