SPECIFICATION Spec
CONSTANTS
    Commands <- LifecycleCommands
    PumpConfigs <- AnyPump
    FifoMayFail = TRUE
    BusMayFail = TRUE
    ValveMayFault = TRUE
    MaxUpdates = 1
INVARIANT TypeOK
INVARIANT PumpThreadPowered
INVARIANT StandbyPumpOff
INVARIANT PanicOnlyInFault
INVARIANT NoCircularWait
PROPERTY StartedClean
PROPERTY EnabledEntry
PROPERTY FaultLeft
PROPERTY AckTellsOutcome
PROPERTY ImplementsLifecycle
\* the daemon really stops: it exits, or it crashes
CHECK_DEADLOCK FALSE
