SPECIFICATION DoorsSpec
CONSTANTS
  None = None
  Credentials <- MCCredentials
  Proofs <- MCProofs
  Requests <- MCRequests
  Configs <- MCConfigs
  Entries <- MCEntries
  PROOF_WINDOW_SECS = 1
  AGENT_TOKEN_LEEWAY_SECS = 1
  MAX_CHAIN_ENTRIES = 3
  REPLAY_CAP = 2
  MaxAge = 1
  MaxTime = 4
  MaxCopyAge = 1
  MaxBack = 1
  Runs = {p, c}
  NoParent = NoParent
  MaxMoney = 3
  Amounts = {1, 2}
  Costs = {2}
  Budgets = {1, 3}
  MaxChainDepth = 2
  MaxReservations = 2
  MaxGenerations = 3
  MaxOver = 2
SYMMETRY Symmetry
INVARIANTS WithinBudget DoorHolds
PROPERTIES ImplementsEscrow
CHECK_DEADLOCK FALSE
