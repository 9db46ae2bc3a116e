SPECIFICATION Spec
CONSTANTS
    a = a
    b = b
    c = c
    Nodes <- ThreeNodes
    Candidates <- TwoNodes
    NoNode = NoNode
    LeaseInterval = 1
    MaxLeaseTime = 2
    MaxDelay = 0
    MaxWindow = 0
    DownTime = 0
    MaxBallot = 1
    MaxTime = 0
    MaxRestarts <- NoRestart
    MaxAccepts = 3
    MaxPrepares = 4
    MaxChanges = 1
INVARIANTS
    EpochUnique
    OneLeader
    
SYMMETRY Symmetry
VIEW ViewWithHistory
CONSTRAINT Bound
CHECK_DEADLOCK FALSE
