SPECIFICATION BooksSpec
CONSTANTS
  Gateways = {g, h}
  Runs = {a, b}
  NoParent = NoParent
  Amounts = {2}
  Costs = {1}
  Budgets = {3}
  MaxChainDepth = 2
  MaxReservations = 1
  MaxOpens = 3
  MaxUnanswered = 1
  ParentsFirst = TRUE
  Calls = {k, l}
  Ops = {x, y}
  NoOp = NoOp
  Faults = {"nothing", "unsynced"}
  MaxRetained = 1
  MaxStarts = 3
  MaxWrites = 2
SYMMETRY Symmetry
INVARIANTS ClusterExact NeverOversubscribed ClosureStands
CHECK_DEADLOCK FALSE
