CONSTANTS
    GlobalsRegistered = FALSE
    syslog = syslog
    empty = empty
    sys = sys
    file = file
    denied = denied
    LogValues <- MC_LogValues
    Syslog = syslog
    EmptyLog = empty
    Unwritable <- MC_Unwritable
    LevelInputs <- MC_LevelInputs
    NoLocation = NoLocation
    NoMessage = NoMessage
    MaxLogs = 2
    MaxResources = 2
SPECIFICATION Spec
\* The process ends after module shutdown.
CHECK_DEADLOCK FALSE
PROPERTY LockInitBeforeUse
