SPECIFICATION Spec
CONSTANTS
  None = None
  a1 = a1 a2 = a2 a3 = a3 b1 = b1 b2 = b2
  Procs = {a1, a2}
  Profiles = {"a", "b"}
  Bundled = {"a"}
  Ttl = 1
  StaleMax = 3
  MaxTime = 4
  MaxRevision = 3
  Hosts = {"h1", "h2"}
  Accounts = {"acc1", "acc2"}
  ClockOf <- MCClockOf
  RemoteMaxAge = 1
  MaxSkew = 1
  MaxMoment = 3
  Machines = {"h1", "h2"}
  Gates = {a1, a2, a3}
  HostOf <- MCHostOf
  Jobs = {b1, b2}
  JobMaxAge = 1
  Cutoff = 3
  Reserve = 1
  Used = 1
  MaxClock = 2
  Readers = {a1, a2}
  Servers = {"s1", "s2"}
  First = "s1"
  ListTtl = 1
  ListStaleMax = 2
  EmptyRevisions = {1}
  MaxHour = 2
  MaxLists = 2
  Listable <- MCListable
  AltPools = {"alt"}
  Limit <- MCLimit
  Paces <- MCPaces
  Evidence <- MCEvidence
  Exceptions <- MCExceptions
  Models <- MCModels
  MaxListed = 4
  Editors = {a1, a2, a3}
  Configs <- MCConfigs
  Requests <- MCRequests
  Today = 4
SYMMETRY MCSymmetry
INVARIANT FreshIsRecent
CHECK_DEADLOCK FALSE
