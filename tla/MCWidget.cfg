SPECIFICATION MCFairSpec
CHECK_DEADLOCK FALSE
CONSTANTS
  first = first
  retry = retry
  other = other
  key = key
  body1 = body1
  body2 = body2
  Request = {first, retry, other}
  Key = {key}
  KeyOf <- MCKeyOf
  HashOf <- MCHashOf
  TTL = 1
  MaxNow = 2
  Nobody = Nobody
  w1 = w1
  w2 = w2
  guest = guest
  Client = {w1, w2, guest}
  Writer = {w1, w2}
  Widget = {1, 2, 3}
  Value = {10, 20}
  Limit = {1}
  Offset = {0, 1}
  MaxRequests = 3
  None = None
INVARIANT OneWidgetPerClaim
INVARIANT CreateInv
PROPERTY LosersReplay
PROPERTY OneStepEach
PROPERTY CreatesAnswered
INVARIANT EventsTellRows
INVARIANT ListAgrees
PROPERTY AnswersTrue
PROPERTY Implements
PROPERTY Answered
