SPECIFICATION DiskSpec
CONSTANTS
  EVERY_LINES = 2
  INTERVAL = 1
  MaxEmits = 3
  MaxOthers = 1
  MaxTorn = 1
  MaxFailed = 2
  MaxCrashes = 1
  MaxRotations = 1
  MaxTroubles = 3
  LIFETIME = 8
  TIMEOUT = 1
  RETRY_FIRST = 1
  RETRY_MAX = 2
  Skews <- MCSkews
  MaxSeconds = 20
  OwnedRuns = {r1, r2}
  Principals = {u1, u2}
  Calls = {c1, c2}
  Nobody = Nobody
  MaxFaults = 2
  MaxKills = 2
  Stale = Stale
  MaxIndex = 3
  MaxVote = 1
  MaxDeaths = 2
  parent_run = parent_run
  child_run = child_run
  Runs = {parent_run, child_run}
  NoParent = NoParent
  MaxMoney = 2
  Amounts = {1}
  Costs = {1}
  Budgets = {2}
  MaxChainDepth = 2
  MaxReservations = 2
  MaxGenerations = 3
  Requests = {q}
  CloudBudget <- ParentBudgeted
  NoBudget = NoBudget
  MaxRestarts = 2
  Orgs = {o1, o2}
  MaxInFlight = 2
  Mutations <- MCMutations
  REUSE_SECS = 1
  REUSE_CAP = 1
  MaxEntries = 2
  MaxManifests = 2
  MaxLoads = 1
  Times = {0, 1}
INVARIANTS CheckpointsTrue SignedUnlessAway OneOwner StoreKeeps
PROPERTIES JournalKept ManifestsHold EverythingRecovers
CHECK_DEADLOCK FALSE
