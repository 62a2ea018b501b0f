\* Two sessions whose inserts and updates overlap, deletes between inserts.
SPECIFICATION Spec
CONSTANTS
    Sessions = {s1, s2}
    Names = {john, jane}
    Emails = {e1, e2, e3}
    MaxSeq = 3
    Overlap = TRUE
    DeletesOverlap = FALSE
    NoRow = NoRow
INVARIANTS CounterExact
PROPERTIES IdsNeverReused
CHECK_DEADLOCK FALSE
