SPECIFICATION CloudSpec
CONSTANTS
  MaxRows = 3
  BATCH = 2
  QUEUE_CAP = 2
  MaxOutages = 1
  Codes = {c1}
  DeviceIds = {d1, d2}
  SIGNATURE_WINDOW_SECS = 1
  NONCE_CAP = 2
  PairingTtl = 1
  MaxSkew = 2
  MaxSeconds = 5
  MaxSigned = 3
  MaxRestarts = 1
  RunNames = {"r1", "r2"}
  Providers = {"p1", "p2"}
  SiteNames = {"s1", "s2"}
  MAX_INCIDENTS_PER_ORG = 1
  MAX_PROVIDERS_PER_ORG = 1
  MAX_PROVIDER_INCIDENTS_PER_ORG = 1
  MAX_TRACKER_KEYS = 1
  INCIDENT_TRACKER_CAP = 2
  SEVERITY_ESCALATE_AT = 2
  BudgetBlocks = 1
  LoopRepeats = 1
  LoopWindow = 1
  StallAfter = 1
  ProviderFailures = 2
  ProviderWindow = 2
  MaxTime = 3
  Workloads <- MCWorkloads
  Subjects = {"run", "incident"}
  Persisted = {"incident"}
  BUS_CAP = 2
  DEDUP = 2
  MaxNow = 7
  MaxChanges = 5
  Gateways = {g1, g2}
  THRESHOLD = 2
  MaxTraced = 3
  MaxStarts = 3
  MaxFaults = 1
INVARIANTS SinkKeeps PairingHolds RowsExactlyOnce
PROPERTIES IncidentsStand EverythingArrives
CHECK_DEADLOCK FALSE
