SPECIFICATION ToolsSpec
CONSTANTS
  TaintRuns = {"r", "p", "g"}
  NoRun = NoRun
  Blocks = {"b1", "b2", "b3", "anon"}
  NoId = "anon"
  BlockTool <- MCBlockTool
  Sources <- MCSources
  Capabilities <- MCCapabilities
  OperatorRules <- MCOperatorRules
  FirewallMode = "Enforce"
  Answers <- MCAnswers
  Requests <- MCRequests
  Acts <- MCActs
  Clearances <- MCClearances
  MAX_TRACKED_BLOCKS = 2
  MAX_DEPTH = 2
  MaxCalls = 2
  MaxClears = 1
  Setups <- MCSetups
  Upstreams = {"u", "w"}
  Classified = {"w"}
  Listings <- MCListings
  Scoped <- MCScoped
  None = None
  MaxRugPulls = 1
  MaxBrokerStarts = 2
  Questions <- MCQuestions
  Filters <- MCFilters
  Policies <- MCPolicies
  Ttl = 1
  Timeout = 1
  FailMode = "closed"
  NoAnswer = NoAnswer
  MaxAsks = 2
  MaxNow = 2
  Slots = {c1, c2}
  Arrivals <- MCArrivals
  Doors <- MCDoors
  ClientKeys <- MCClientKeys
  Bindings <- MCBindings
  PrefixList <- MCPrefixes
  DoorRuns = {"r1", "r2", "r3"}
  CloudRuns = {"r2"}
  Nothing = Nothing
  MINUTE = 2
  PER_MINUTE_CAP = 1
  SOURCES_CAP = 2
INVARIANTS TaintHolds BrokerHolds PlaneIsQuoted CallerPays RefusalsHold
CHECK_DEADLOCK FALSE
