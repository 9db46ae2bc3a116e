SPECIFICATION RoundsSpec
CONSTANTS
    Det <- ThreeDet
    Key <- ThreeKey
    Server <- OneServer
    KeyOf <- ThreeKeyOf
    HomeOf <- ThreeHome
    Priority <- ThreePriority
    AutoActivate = {1, 2, 3}
    Failing = {}
    Countdown = {0}
    Waits = {}
    FirstPhase = 2
    MaxPhase = 5
    MaxLclv = 100
    Rounds = 5
    Starts <- ThreeStarts

    
PROPERTIES
    DeadlocksBroken
CHECK_DEADLOCK FALSE
