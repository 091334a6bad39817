\* What the comment on the sync queue expects: one outage, then one online move.
SPECIFICATION Spec
CONSTANTS
    Job = {j1, j2}
    Place = {p1, p2}
    None = None
    Drain = {d1}
    MaxMoves = 2
    MaxChanges = 0
    MaxFaults = 1
    Flagged = FALSE
SYMMETRY Symmetry
INVARIANT SavedMoveYields
\* Nothing is left to do when no poll is due.
CHECK_DEADLOCK FALSE
