CONSTANTS
    n1 = n1  n2 = n2  m1 = m1  m2 = m2  w1 = w1  w2 = w2  r1 = r1
    None = None
    Nodes = {n1}
    Ids = {m1, m2}
    Workers = {w1, w2}
    Rcpts = {r1}
    NumDomains = 1
    DomainOf <- MCDomainOf1
    NotifyFlags <- MCNotifyFlags1
    RetryDelays <- MCRetryDelays
    NotifyDelays <- MCNotifyLate
    Expire = 2
    LockExpiry = 1
    Releases = {0}
    Refills = {}
    RcptAnswers = {"completed"}
    DomainAnswers = {"temp"}
    QuotaLimit <- TwoOfSender
    NullSender = {}
    Faults = {}
    MaxTime = 2
    MaxConcurrent <- OneEach
    CrashNodes = {n1}
    LastArrival = 1
    SlowUntil = 9
    ChanCapacity = 2
SPECIFICATION MSpec
CHECK_DEADLOCK FALSE
INVARIANTS HeldTracked LimitsKept 
 
