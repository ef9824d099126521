SPECIFICATION Spec
CHECK_DEADLOCK FALSE
CONSTANTS
  Proc = {p1, p2, p3}
  Before = {"gomod", "initgo"}
  After = {"gomod", "forgejson"}
  RecoverAlone = TRUE
  Edit = {e1}
  MaxFaults = 2
SYMMETRY ProcSymmetry
INVARIANT HalfDoneHasJournal
INVARIANT NoLostEdit
INVARIANT OnePublisher
PROPERTY RecoveryRestores
