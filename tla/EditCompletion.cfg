SPECIFICATION FairSpec
CONSTANTS
    MaxHistory = 1
    DecisionLogSize = 2
    MaxSessions = 3
    Calls = {c1, c2}
    Edits = {e1}
    Document = document
    NoDocument = noDocument
    MaxEntries = 1
INVARIANTS ReportedAtMostOnce
PROPERTIES DecisionIsFinal OfferedIsActive HandlerReleased
CHECK_DEADLOCK FALSE
