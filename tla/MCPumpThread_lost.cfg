SPECIFICATION Spec
CONSTANTS
    AutoRecoverAttempts = 1
    Timeout = 2
    ErrorLimit = 1
    AutoReset <- OneAutoReset
    NonResettable <- OneNonResettable
    MaxRequests = 2
    MaxDisturbances = 3
INVARIANT StartupNeverLost
\* the thread really ends, and no more requests come
CHECK_DEADLOCK FALSE
