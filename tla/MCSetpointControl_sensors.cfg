SPECIFICATION Spec
CONSTANTS
    NaN = NaN
    AirTemperatures <- SomeAir
    Requests <- SomeRequests
    Files <- SomeFiles
    SafetyRange = 3
    MinOffset = 1
    HeatersOffset = 1
    MaxViolations = 1
    ErrorLimit = 1
    InitialErrors <- OnlyZero
    ClearGlycol = 2
    ClearHeaters = 2
    MaxCalls = 3
PROPERTY SilentSensorsFault
