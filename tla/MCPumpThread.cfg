SPECIFICATION FairSpec
CONSTANTS
    AutoRecoverAttempts = 1
    Timeout = 2
    ErrorLimit = 1
    AutoReset <- OneAutoReset
    NonResettable <- OneNonResettable
    MaxRequests = 3
    MaxDisturbances = 3
INVARIANT TypeOK
INVARIANT StartupKept
INVARIANT StartupsBounded
INVARIANT SilenceInTime
INVARIANT ErrorInTime
PROPERTY StartupSettles
PROPERTY SilenceFaults
PROPERTY ErrorFaults
\* the thread really ends, and no more requests come
CHECK_DEADLOCK FALSE
