SPECIFICATION RingSpec
CONSTANTS
    Det <- ThreeDet
    Key <- RingKey
    Server <- TwoServers
    KeyOf <- RingKeyOf
    HomeOf <- RingHome
    Priority <- EqualPriority
    AutoActivate = {}
    Failing = {}
    Countdown = {0}
    Waits <- Ring
    FirstPhase = 2
    MaxPhase = 3
    MaxLclv = 2
INVARIANTS
    CollectorLeastOnCycle
    OneVictim
CONSTRAINT AtMostThreeBusy
CHECK_DEADLOCK FALSE
