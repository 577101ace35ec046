SPECIFICATION FairSpec
CONSTANTS
    Commands <- SessionCommands
    PumpConfigs <- WithPump
    FifoMayFail = FALSE
    BusMayFail = TRUE
    ValveMayFault = FALSE
    MaxUpdates = 1
PROPERTY FaultPowersDownFCU
PROPERTY TasksFinish
\* the daemon really stops: it exits, or it crashes
CHECK_DEADLOCK FALSE
