\* Two transfers from the same account at the same time.
SPECIFICATION Spec
CONSTANTS
    Sessions = {s1, s2}
    Loaded <- TwoChecking
    Openings = {}
    Amounts = {1}
    SourceIds <- KnownIds
    TargetIds <- KnownIds
    Ops = {"transfer"}
    Overlap = TRUE
    Killable = FALSE
    MaxOpened = 2
    MaxLog = 2
    NULL = NULL
    Idle = Idle
PROPERTIES ChangedByAmount
CHECK_DEADLOCK FALSE
