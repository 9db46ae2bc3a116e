SPECIFICATION Spec
CONSTANTS
    a = a
    b = b
    c = c
    Nodes <- ThreeNodes
    Candidates <- TwoNodes
    NoNode = NoNode
    LeaseInterval = 2
    MaxLeaseTime = 2
    MaxDelay = 0
    MaxWindow = 1
    DownTime = 0
    MaxBallot = 1
    MaxTime = 3
    MaxRestarts <- NoRestart
    MaxAccepts = 1
    MaxPrepares = 2
    MaxChanges = 0
INVARIANTS
    TypeOK
    
SYMMETRY Symmetry
VIEW ViewWithHistory
CONSTRAINT Elected
CHECK_DEADLOCK FALSE
