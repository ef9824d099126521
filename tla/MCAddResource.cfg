SPECIFICATION Spec
CHECK_DEADLOCK FALSE
CONSTANTS
  t1 = t1
  t2 = t2
  a = a
  namesake = namesake
  b = b
  edit = edit
  Terminal = {t1, t2}
  Resource = {a, namesake, b}
  Names <- MCNames
  Edit = {edit}
  MaxRuns = 3
  MaxFaults = 2
  MaxHand = 1
  None = None
  Hand = Hand
INVARIANT AllOrNothing
INVARIANT NamesUnique
PROPERTY OwnWorkKept
INVARIANT LockTrue
SYMMETRY TerminalSymmetry
