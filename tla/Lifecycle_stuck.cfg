SPECIFICATION FairSpec
CONSTANTS
  Request = {q1, q2}
  Worker = {relay, reaper}
  Stuck = {relay}
  DrainDelay = 2
  ShutdownTimeout = 2
  GracePeriod = 2
  ProbeInterval = 1
PROPERTY ShutdownEnds
