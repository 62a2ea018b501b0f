\* Overlapping enrolments and teaching assignments by careful clients.
SPECIFICATION EnrolSpec
CONSTANTS
    Sessions = {s1, s2}
    Prefixes = {"AB"}
    Matches <- NestedPrefixes
    Sections = {"struct17", "intro17", "db17", t1, t2}
    Section <- MCSections
    Prereqs <- LoadedPrereqs
    Dates <- Spring
    Attrs = {2000, 5}
    Ops = {"insert", "direct", "enrol"}
    Overlap = TRUE
    Careful = TRUE
    MaxCalls = 3
    MaxRows = 4
    Idle = Idle
SYMMETRY EnrolSymmetry
INVARIANTS SeatOverrun TeachingOverrun PrereqsEnrolled
CHECK_DEADLOCK FALSE
