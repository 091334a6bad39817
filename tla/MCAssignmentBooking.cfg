\* What the comment in PATCH /appointments/:id expects, of one such edit.
SPECIFICATION Spec
CONSTANTS
    Job = {j1, j2}
    Appointment = {a1, a2}
    Technician = {t1, t2}
    Client = {c1, c2}
    None = None
    DayLength = 3
    DayStart = 1
    BoardLength = 2
    Days = 1
    MaxVisit = 1
    MaxEdits = 1
SYMMETRY Symmetry
INVARIANT EditsNeverDoubleBook
\* A board may hold as many jobs as the bound allows and wait for nobody.
CHECK_DEADLOCK FALSE
