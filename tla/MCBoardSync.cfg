\* Two jobs, two moves and one other client around one place; two faults.
SPECIFICATION FairSpec
CONSTANTS
    Job = {j1, j2}
    Place = {p1}
    None = None
    Drain = {d1}
    MaxMoves = 2
    MaxChanges = 1
    MaxFaults = 2
    Flagged = TRUE
INVARIANT SavedMoveIsKept
PROPERTY BoardConverges
\* Nothing is left to do when no poll is due.
CHECK_DEADLOCK FALSE
