SPECIFICATION FairSpec
CONSTANTS
  Nodes = {n1, n2}
  Docs = {d1}
  MaxMessages = 1
  LockExpiry = 0
  MaxTime = 2
  MaxFailures = 1
  MaxGossip = 1
  ChannelSize = 2
  Slots = {1, 2}
INVARIANTS TypeOK OneIndexer
PROPERTIES KeepsPromise QueueDrained
CHECK_DEADLOCK FALSE
