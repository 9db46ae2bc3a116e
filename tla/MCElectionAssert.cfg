SPECIFICATION Spec
CONSTANTS
    a = a
    b = b
    c = c
    Nodes <- ThreeNodes
    Candidates <- TwoNodes
    NoNode = NoNode
    LeaseInterval = 1
    MaxLeaseTime = 1
    MaxDelay = 1
    MaxWindow = 0
    DownTime = 1
    MaxBallot = 1
    MaxTime = 1
    MaxRestarts <- RestartOfA
    MaxAccepts = 2
    MaxPrepares = 2
    MaxChanges = 0
INVARIANTS
    AssertsHold
VIEW View
CONSTRAINT Bound
CHECK_DEADLOCK FALSE
