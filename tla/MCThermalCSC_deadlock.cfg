SPECIFICATION FairSpec
CONSTANTS
    Commands <- StateCommands
    PumpConfigs <- WithPump
    FifoMayFail = FALSE
    BusMayFail = FALSE
    ValveMayFault = TRUE
    MaxUpdates = 1
PROPERTY FaultPowersDownFCU
\* the daemon really stops: it exits, or it crashes
CHECK_DEADLOCK FALSE
