SPECIFICATION Spec
CONSTANTS
    Profiles = {p1, p2}
    Sessions = {s1}
    Urls = {u1, u2}
    Calls = {c1, c2}
    MaxSaves = 2
    MaxOthers = 1
    Requests <- MCRequests
    Missing = Missing
SYMMETRY Symmetry
INVARIANTS WritesWhatWasMerged PreservesTheRestAlone Recoverable
PROPERTY SharedSessionIsKept
CHECK_DEADLOCK FALSE
