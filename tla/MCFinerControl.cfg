SPECIFICATION FairSpec
CONSTANTS
    NaN = NaN
    MaxPercent = 12
    InPosition = 2
    BacklashStep = 3
    MinimalMove = 4
    MaxMovingTime = 5
    Speed = 3
    Demands <- SomeDemands
    MaxDemands = 4
INVARIANT TypeOK
INVARIANT CompInRange
INVARIANT SettledAtDemand
INVARIANT WatchedFaultIsStuck
PROPERTY BacklashLegs
PROPERTY WaitRunsOut
PROPERTY Settles
PROPERTY ImplementsValve
