SPECIFICATION ClusterSpec
CONSTANTS
  Gateways = {g, h}
  Runs = {a, b}
  NoParent = NoParent
  Amounts = {2}
  Costs = {2}
  Budgets = {3}
  MaxChainDepth = 2
  MaxReservations = 1
  MaxOpens = 3
  MaxUnanswered = 1
  ParentsFirst = FALSE
INVARIANTS NeverOversubscribed
CHECK_DEADLOCK FALSE
