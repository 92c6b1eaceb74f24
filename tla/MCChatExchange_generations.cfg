\* One session id that is started, cleared and restored twice.
CONSTANTS
    s1 = s1
    Sessions = {s1}
    PanelSessions = {s1}
    MaxModels = 3
    MaxRequests = 1
    MaxCalls = 1
    MaxReports = 1
SPECIFICATION Spec
CHECK_DEADLOCK FALSE
INVARIANTS
    TypeOK
    LiveSessionsKnown
    PartsConserved
PROPERTIES
    CancelledIsFrozen
    ImplementsLife
