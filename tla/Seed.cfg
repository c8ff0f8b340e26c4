SPECIFICATION SeedSpec
CONSTANTS
  Runs = {a, b, k}
  k = k
  a = a
  b = b
  NoParent = NoParent
  Calls = {x, y}
  x = x
  y = y
  Parts <- RunParts
  Journaled = {b}
  CloudSpend = {a, b}
  CloudBudget = {a, b}
  CloudKilled = {k}
  MaxOutages = 1
INVARIANTS SeedHolds
PROPERTIES GateOpens
CHECK_DEADLOCK FALSE
