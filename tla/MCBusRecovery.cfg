SPECIFICATION FairSpec
CONSTANTS
    ILCs = {i1, i2}
    BusMayFail = TRUE
INVARIANT TypeOK
INVARIANT EnabledModes
INVARIANT ModesAgree
INVARIANT OwnCommands
PROPERTY RecoveryEnds
PROPERTY SilenceNoticed
