CONSTANTS
    FirstDay = 0
    LastDay = 37000
    Ids = {e1}
    Times = {30, 31, 32}
    Workers = {w1, w2}
    None = None
INIT Init
NEXT Next
SYMMETRY Symmetry
\* Every event may have been deleted, and the last day reached.
CHECK_DEADLOCK FALSE
INVARIANTS
    EditsKept
    EndFollowsStart
    DefaultWeekHoldsToday
PROPERTIES
    WeeksTile
