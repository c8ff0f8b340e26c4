SPECIFICATION PlaneSpec
CONSTANTS
  Pushes <- MCPushes
  KeyBuckets <- MCKeyBuckets
  Budgets = {2}
  ALERT_PCT = 80
  MAX_RUNS_PER_ORG = 2
  MAX_UNIT_MONTH_KEYS = 2
  MAX_SPEND_AGENTS_PER_DAY = 1
  MAX_GATEWAYS_PER_ORG = 1
  MAX_FALLBACK_MODEL_KEYS = 1
  MAX_BREAK_KEYS = 1
  SPEND_DAYS_RETAINED = 0
  MaxLog = 3
  MaxControls = 1
  MaxDay = 2
  MaxCrashes = 1
INVARIANTS PlaneAdds
PROPERTIES ControlsStick
CHECK_DEADLOCK FALSE
