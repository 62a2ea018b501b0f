\* One call at a time, no failures; the log and the ledger.
SPECIFICATION Spec
CONSTANTS
    Sessions = {s1}
    Loaded <- TwoChecking
    Openings = {}
    Amounts = {1, 2}
    SourceIds <- AllIds
    TargetIds <- KnownIds
    Ops = {"transfer"}
    Overlap = FALSE
    Killable = FALSE
    MaxOpened = 2
    MaxLog = 3
    NULL = NULL
    Idle = Idle
INVARIANTS Reconciled
PROPERTIES ImplementsLedger
CHECK_DEADLOCK FALSE
