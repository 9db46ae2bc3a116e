SPECIFICATION Spec
CONSTANTS
    Det <- ThreeDet
    Key <- PairKey
    Server <- OneServer
    KeyOf <- PairKeyOf
    HomeOf <- PairHome
    Priority <- PairPriority
    AutoActivate = {1}
    Failing = {2}
    Countdown = {1}
    Waits <- PairWaits
    FirstPhase = 2
    MaxPhase = 3
    MaxLclv = 1
INVARIANTS
    TypeOK
    CollectorLeastOnCycle
    VictimOnCycle
CONSTRAINT AtMostTwoBusy
CHECK_DEADLOCK FALSE
