\* One call at a time; clients also delete students who take part in a section.
SPECIFICATION EnrolSpec
CONSTANTS
    Sessions = {s1}
    Prefixes = {"AB"}
    Matches <- NestedPrefixes
    Sections = {"intro17"}
    Section <- MCSections
    Prereqs <- LoadedPrereqs
    Dates <- TwoDates
    Attrs = {2000}
    Ops = {"insert", "delete", "enrol"}
    Overlap = FALSE
    Careful = FALSE
    MaxCalls = 3
    MaxRows = 4
    Idle = Idle
INVARIANTS SeatLimit
CHECK_DEADLOCK FALSE
