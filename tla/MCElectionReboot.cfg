SPECIFICATION Spec
CONSTANTS
    a = a
    b = b
    c = c
    Nodes <- ThreeNodes
    Candidates <- TwoNodes
    NoNode = NoNode
    LeaseInterval = 2
    MaxLeaseTime = 2
    MaxDelay = 0
    MaxWindow = 0
    DownTime = 1
    MaxBallot = 1
    MaxTime = 2
    MaxRestarts <- RestartOfAC
    MaxAccepts = 1
    MaxPrepares = 2
    MaxChanges = 0
INVARIANTS
    
    AssertsHold
VIEW ViewWithHistory
CONSTRAINT OneRestart
CHECK_DEADLOCK FALSE
