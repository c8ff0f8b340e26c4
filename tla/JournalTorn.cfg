SPECIFICATION JournalSpec
CONSTANTS
  Calls = {k, l}
  Ops = {x, y}
  NoOp = NoOp
  Faults = {"part"}
  MaxRetained = 1
  MaxStarts = 3
  MaxWrites = 4
INVARIANTS JournaledSurvives
CHECK_DEADLOCK FALSE
