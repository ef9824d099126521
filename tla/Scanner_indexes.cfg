SPECIFICATION ScanSpec
CHECK_DEADLOCK FALSE
CONSTANTS
  Name = {"t", "i", "u"}
  MaxStatements = 5
  NoEntry = NoEntry
INVARIANT IndexesDisappear
