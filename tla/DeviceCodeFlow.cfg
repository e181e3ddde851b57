SPECIFICATION FairSpec
CONSTANTS
    Expiration = 9
    Interval = 1
    BackoffDelay = 1
    ResponseTimeout = 9
    MaxLatency = 1
    Horizon = 20
INVARIANTS ConfirmedInTimeIsHonoured
PROPERTIES PollsAreSpaced ImplementsFlow FlowEnds
CHECK_DEADLOCK FALSE
