SPECIFICATION Spec
CHECK_DEADLOCK FALSE
CONSTANTS
  Proc = {p1, p2, p3}
  Before = {"gomod", "initgo"}
  After = {"gomod", "forgejson"}
  RecoverAlone = FALSE
  Edit = {}
  MaxFaults = 0
SYMMETRY ProcSymmetry
INVARIANT OnePublisher
