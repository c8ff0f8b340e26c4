SPECIFICATION LedgersSpec
CONSTANTS
  Runs = {a, b, c}
  NoParent = NoParent
  MaxMoney = 3
  Amounts = {2}
  Costs = {2}
  Budgets = {3}
  MaxChainDepth = 2
  MaxReservations = 2
  MaxGenerations = 3
  Cores = {"c1", "c2", "c3"}
  HashOf <- MCHashOf
  Near <- MCNear
  Responses = {"a", "b"}
  TTL = 1
  MAX_PER_PARTITION = 2
  SLACK = 1
  MaxMillis = 2
  MaxPuts = 4
  MaxSetBack = 1
SYMMETRY Symmetry
INVARIANTS ReservedCovered ReservedExact ChainFrozen CacheSound
PROPERTIES SettledOnce SpendKept
CHECK_DEADLOCK FALSE
