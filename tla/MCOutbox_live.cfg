SPECIFICATION FairSpec
CONSTANTS
  r1 = r1
  r2 = r2
  Id = {1, 2, 3}
  Poison = {1, 2}
  Relay = {r1, r2}
  BatchSize <- UnequalBatches
  Interval = 1
  MaxExponent = 2
  MaxBackoff = 3
  Prompt = TRUE
  MaxFaults = 2
PROPERTY EventuallySent
PROPERTY CancelStops
PROPERTY DrainEnds
