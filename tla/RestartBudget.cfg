SPECIFICATION RestartSpec
CONSTANTS
  parent_run = parent_run
  child_run = child_run
  Runs = {parent_run, child_run}
  NoParent = NoParent
  MaxMoney = 2
  Amounts = {1}
  Costs = {1}
  Budgets = {2}
  MaxChainDepth = 2
  MaxReservations = 2
  MaxGenerations = 3
  Requests = {q}
  CloudBudget <- ParentBudgeted
  NoBudget = NoBudget
  MaxRestarts = 2
PROPERTIES BudgetGivenBack
CHECK_DEADLOCK FALSE
