SPECIFICATION MCFairSpec
CONSTANTS
  Urls = {u1}
  a1 = a1
  s1 = s1
  s2 = s2
  Throttle = 1
  AttemptInterval = 2
  AttemptsMax = 2
  RetryInterval = 1
  VerifyTimeout = 2
  LongSlumber = 6
  Ids = {s1}
  Owner <- MCOwnerOne
  Capacity = 2
  MaxChanges = 2
  MaxUpdates = 2
  MaxResets = 1
INVARIANTS
  TypeOK
  FailedIsRetried
  FlightAnswered
PROPERTY
  GivesUpLate FailuresResolved
