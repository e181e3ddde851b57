SPECIFICATION Spec
CONSTANTS
    Prompts = {p1, p2}
    NoPrompt = none
    MaxRequests = 3
    MaxTools = 2
    MaxIncomplete = 1
    MaxIncidents = 1
INVARIANTS HistoryPaired WaitersAreReachable OnlyApprovedRun
CHECK_DEADLOCK FALSE
SYMMETRY PromptSymmetry
