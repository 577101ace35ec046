SPECIFICATION Spec
CONSTANTS
    Commands <- ValveCommands
    PumpConfigs <- WithPump
    FifoMayFail = FALSE
    BusMayFail = FALSE
    ValveMayFault = FALSE
    MaxUpdates = 1
INVARIANT FaultClosesValve
\* the daemon really stops: it exits, or it crashes
CHECK_DEADLOCK FALSE
