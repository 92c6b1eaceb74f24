\* One session in two generations, two responses; with liveness.
CONSTANTS
    s1 = s1
    Sessions = {s1}
    PanelSessions = {s1}
    MaxModels = 2
    MaxRequests = 1
    MaxCalls = 2
    MaxReports = 0
SPECIFICATION FairSpec
CHECK_DEADLOCK FALSE
INVARIANTS
    CancelOnce
    OnlyCancelledTokensResolve
    HandlesKnown
    OneRelay
PROPERTIES
    CancellationReachesExtension
    CallsAnswered
