CONSTANTS
    GlobalsRegistered = TRUE
    syslog = syslog
    empty = empty
    sys = sys
    file = file
    denied = denied
    LogValues <- MC_LogValues
    Syslog = syslog
    EmptyLog = empty
    Unwritable <- MC_Unwritable
    LevelInputs <- MC_LevelInputs
    NoLocation = NoLocation
    NoMessage = NoMessage
    MaxLogs = 2
    MaxResources = 2
SPECIFICATION FairSpec
\* The process ends after module shutdown.
CHECK_DEADLOCK FALSE
INVARIANT TypeOK
PROPERTY LockInitBeforeUse
PROPERTY LocationStableDuringCopy
PROPERTY OnUpdateLogCompletes
PROPERTY ShutdownCompletes
