SPECIFICATION Spec
CONSTANTS
  Alice = Alice
  Bob = Bob
  email = email
  mailbox = mailbox
  d1 = d1
  d2 = d2
  Accounts = {Alice}
  Docs = {d1}
  Types = {email}
  Urls = {u1}
  Conns = {}
  Calls = {c1}
  MaxTotal = 2
  Lifetime = 1
  MaxTime = 1
  Publications <- MCEmail
  QueueSize = 1
  Tokens <- MCOwnToken
  MaxPublished = 1
  MaxRestarts = 1
  Throttle = 0
  AttemptInterval = 0
  AttemptsMax = 1
  RetryInterval = 0
  VerifyTimeout = 0
  LongSlumber = 1
  Owner <- MCOwner
INVARIANTS
  TypeOK
  RoutedIsRegistered
