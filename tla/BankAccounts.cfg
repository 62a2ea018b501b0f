\* Accounts come and go between transfers, one call at a time.
SPECIFICATION Spec
CONSTANTS
    Sessions = {s1, s2}
    Loaded <- OneEach
    Openings <- Openings01
    Amounts = {1}
    SourceIds <- KnownIds
    TargetIds <- KnownIds
    Ops = {"open", "close", "transfer"}
    Overlap = FALSE
    Killable = TRUE
    MaxOpened = 3
    MaxLog = 1
    NULL = NULL
    Idle = Idle
SYMMETRY SessionSymmetry
INVARIANTS AccountIdsUnique NoMoneyCreated
PROPERTIES FloorRespected ChangedByAmount
CHECK_DEADLOCK FALSE
