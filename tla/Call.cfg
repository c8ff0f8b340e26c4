SPECIFICATION CallsSpec
CONSTANTS
  parent_run = parent_run
  child_run = child_run
  key1 = key1
  a1 = a1
  Calls = {c1, c2}
  Runs = {parent_run, child_run}
  NoRun = NoRun
  NoKey = NoKey
  Parent <- MCParent
  Configs <- MCConfigs
  Requests <- MCRequests
  Answers <- MCAnswers
  LabelsOf <- MCLabelsOf
  Denied <- MCDenied
  Web = "web"
  Estimate = 2
  Capped = 3
  RunBudget = 4
  UnitCap = 5
  MaxSteps = 1
  Units = {u}
  Callers = {e1, e2}
  MaxMonth = 2
  MaxMoney = 4
  Amounts = {1, 2}
  Costs = {0, 2}
  Caps = {2, 3}
  NoCap = NoCap
  Base = 2
  Symbols = {"cr", "lf", "call", "head", "rest", "ran", "note"}
  MaxLength = 5
  MaxChunk = 2
  Bodies <- MCBodies
  Requests_ <- MCRequests_
  Price <- MCPrice
  LongPrice <- MCLongPrice
  LongAbove = 3
  Mtok = 4
  MaxMicrousd = 50
  CAP = 4
  DEFAULT_MAX_TOKENS = 3
  CHARS_PER_TOKEN = 4
  Agents = {a1, a2}
  Tools = {"x", "y"}
  Policies <- MCPolicies
  None = None
  HISTORY_MAX = 3
  ConvoBound = 4
  StepBound = 4
INVARIANTS CallAccounted UnitReservedExact GateSound BilledRight WatchIsFair
PROPERTIES FirewallHolds UnitSpendKept
CHECK_DEADLOCK FALSE
