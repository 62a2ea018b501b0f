\* One call at a time, valid arguments.
SPECIFICATION EnrolSpec
CONSTANTS
    Sessions = {s1}
    Prefixes = {"AB"}
    Matches <- NestedPrefixes
    Sections = {"struct17", "intro17", "db17", t1, t2}
    Section <- MCSections
    Prereqs <- LoadedPrereqs
    Dates <- TwoDates
    Attrs = {2000, 5}
    Ops = {"insert", "update", "delete", "enrol"}
    Overlap = FALSE
    Careful = TRUE
    MaxCalls = 3
    MaxRows = 6
    Idle = Idle
INVARIANTS WholePersons SeatLimit TeachingLimit
PROPERTIES RefinesPersonTables
CHECK_DEADLOCK FALSE
