SPECIFICATION Spec
CONSTANTS
  Alice = Alice
  Bob = Bob
  email = email
  mailbox = mailbox
  d1 = d1
  d2 = d2
  Accounts = {Alice, Bob}
  Docs = {}
  Types = {email, mailbox}
  Urls = {u1}
  Conns = {n1}
  Calls = {}
  MaxTotal = 2
  Lifetime = 1
  MaxTime = 0
  Publications <- MCEmailMailbox
  QueueSize = 2
  Tokens <- MCTokens
  MaxPublished = 2
  MaxRestarts = 0
  Throttle = 0
  AttemptInterval = 0
  AttemptsMax = 1
  RetryInterval = 0
  VerifyTimeout = 0
  LongSlumber = 1
  Owner <- MCOwner
INVARIANTS
  
  OnlySubscribedTypes
