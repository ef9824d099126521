SPECIFICATION MCFairSpec
CONSTANTS
  q1 = q1
  q2 = q2
  relay = relay
  reaper = reaper
  Request = {q1, q2}
  Worker = {relay, reaper}
  Stuck = {relay}
  DrainDelay = 2
  ShutdownTimeout = 2
  GracePeriod = 2
  ProbeInterval = 1
  a = a
  b = b
  k1 = k1
  Reaper = {a, b}
  Row = {1, 2}
  Key = {k1}
  BatchSize = 1
  Retention = 0
  TTL = 1
  Interval = 1
  MaxFaults = 1
INVARIANT NoneRefused
INVARIANT WorkersFirst
INVARIANT IInv
PROPERTY RunReturns
PROPERTY OnlyTheDead
PROPERTY PurgeEnds
PROPERTY Cleaned
