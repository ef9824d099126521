SPECIFICATION MCSpec
CHECK_DEADLOCK FALSE
CONSTANTS
  s1 = s1  s2 = s2
  Name = {"t", "i", "u"}
  MaxStatements = 5
  NoEntry = NoEntry
  Shell = {s1, s2}
  Tool = {"sqlc", "oapi"}
  Sqlc = "sqlc"
  Oapi = "oapi"
  Version = {1, 2}
  MaxEdits = 1
  MaxFaults = 1
  Absent = Absent
  Clashing = Clashing
  NoRequest = NoRequest
  Slice = {"outbox", "idempotency"}
  Derived = {"workers"}
  Of <- MCOf
  MaxLines = 6
  MaxMigrations = 5
  Rest = {"a", "b"}
  Other = {"3", "A"}
  MaxSubject = 3
  MaxKey = 2
  NoCall = NoCall
  Request = {1, 2, 3, 4}
  Sender <- MCSender
  Proxy <- MCProxy
  Trusted <- MCTrusted
  Forged <- MCForged
  Routes <- MCRoutes
  Rate = 1
  Burst = 2
  SweepEvery = 1
  IdleAfter = 2
  Stall = 1
  MaxNow = 5
  Nil = Nil
INVARIANT ScanAgrees
INVARIANT CheckedAsPinned
INVARIANT AnswerRight
INVARIANT StripKeepsTheKept
INVARIANT NoMigrationLost
INVARIANT OneRowPerCall
PROPERTY OwnBucket
INVARIANT SenderPays
PROPERTY IdleAreGone
