SPECIFICATION Spec
CONSTANTS
  r1 = r1
  r2 = r2
  Id = {1, 2, 3}
  Poison = {1}
  Relay = {r1, r2}
  BatchSize <- EqualBatches
  Interval = 1
  MaxExponent = 2
  MaxBackoff = 3
  Prompt = FALSE
  MaxFaults = 2
SYMMETRY RelaySymmetry
INVARIANT DuplicatesExcused
INVARIANT IInv
PROPERTY Implements
