CONSTANTS
    n1 = n1  n2 = n2  m1 = m1  m2 = m2  w1 = w1  w2 = w2  r1 = r1  r2 = r2
    None = None
    Nodes = {n1}
    Ids = {m1}
    Workers = {w1}
    Rcpts = {r1, r2}
    NumDomains = 2
    DomainOf <- MCDomainOf2
    NotifyFlags <- MCNotifyFlags2
    RetryDelays <- MCRetryDelays
    NotifyDelays <- MCNotifyDelays
    Expire = 2
    LockExpiry = 1
    Releases = {0}
    Refills = {}
    RcptAnswers = {"completed", "temp", "perm"}
    DomainAnswers = {"scheduled", "temp", "perm"}
    QuotaLimit <- DomainQuota
    NullSender = {}
    Faults = {}
    MaxTime = 3
SYMMETRY Symmetry
SPECIFICATION Spec
CHECK_DEADLOCK FALSE
INVARIANT QuotaReleased
