SPECIFICATION MCSpec
CONSTANTS
    n1 = n1
    n2 = n2
    n3 = n3
    Nodes <- ThreeNodes
    Seeds <- ThreeSeeds
    Changes = {l1}
    ListChanges = {l1}
    Managed = {n2}
    MaxPackets = 2
    MaxRequests = 1
    MaxFaults = 1
    MaxSteps = 4
INVARIANTS
    TypeOK
    ListsNoPeerTwice
    NeverAhead
    
CHECK_DEADLOCK FALSE
