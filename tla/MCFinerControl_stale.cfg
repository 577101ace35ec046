SPECIFICATION Spec
CONSTANTS
    NaN = NaN
    MaxPercent = 12
    InPosition = 2
    BacklashStep = 3
    MinimalMove = 4
    MaxMovingTime = 6
    Speed = 3
    Demands <- SomeDemands
    MaxDemands = 3
INVARIANT FaultNeedsStuckValve
