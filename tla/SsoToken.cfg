SPECIFICATION Spec
CONSTANTS
    c1 = c1
    c2 = c2
    h1 = h1
    h2 = h2
    Calls <- MCCalls
    Handles <- MCHandles
    NoHandle = NoHandle
    RefreshWindow = 2
    RetryCooldown = 1
    BufferedRefreshWindow = 1
    BufferedRetryCooldown = 1
    MaxRefreshJitter = 0
    MaxRetryJitter = 0
    Lifetimes = {3}
    StartTime = 1
    MaxTime = 4
    MaxRemovals = 1
SYMMETRY Symmetry
INVARIANTS
    SpacedRefreshes
    RevivalNeedsOverlap
    HandleIsLive
