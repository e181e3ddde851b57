SPECIFICATION FairSpec
CONSTANTS
    MaxHistory = 1
    DecisionLogSize = 2
    MaxSessions = 3
    Calls = {c1, c2}
INVARIANTS RequestingInFlight ReportedExactlyOnce OnlyCurrentActive
PROPERTIES OfferedIsActive DecisionIsFinal HandlerReleased
CHECK_DEADLOCK FALSE
