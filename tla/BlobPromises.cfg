SPECIFICATION FairSpec
CONSTANTS
    a1 = a1
    Accounts = {a1}
    MaxAccount = uMax
    AccountOf <- MCAccountOf
    Hashes = {h1}
    Docs = {d1, d2}
    QueueIds = {1}
    AllOnes = {}
    Writers = {w1}
    Purgers = {p1}
    Ttl = 1
    UploadQuota = 1
    MaxTime = 1
    MaxFailures = 1
INVARIANTS TypeOK  
PROPERTY UnusedCollected
