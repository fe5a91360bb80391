CONSTANTS
    n1 = n1  n2 = n2  m1 = m1  m2 = m2  w1 = w1  w2 = w2  r1 = r1
    None = None
    Nodes = {n1, n2}
    Ids = {m1}
    Workers = {w1, w2}
    Rcpts = {r1}
    NumDomains = 1
    DomainOf <- MCDomainOf1
    NotifyFlags <- MCNotifyFlags1
    RetryDelays <- MCRetryDelays
    NotifyDelays <- MCNotifyLate
    Expire = 2
    LockExpiry = 1
    Releases = {0, 1}
    Refills = {}
    RcptAnswers = {"completed"}
    DomainAnswers = {"temp"}
    QuotaLimit <- NoQuota
    NullSender = {}
    Faults = {}
    MaxTime = 7
    MaxConcurrent <- Unlimited
    CrashNodes = {}
    LastArrival = 1
    SlowUntil = 2
    ChanCapacity = 2
SPECIFICATION FairSpec
CHECK_DEADLOCK FALSE
PROPERTY EventuallyGone
