\* Two requests for two technicians beside one edit of the office.
SPECIFICATION Spec
CONSTANTS
    Job = {j1, j2}
    Appointment = {a1, a2}
    Technician = {t1, t2}
    Client = {c1, c2}
    None = None
    DayLength = 3
    DayStart = 1
    BoardLength = 2
    Days = 1
    MaxVisit = 2
    MaxEdits = 1
SYMMETRY Symmetry
INVARIANT DispatchNeverDoubleBooks
\* A board may hold as many jobs as the bound allows and wait for nobody.
CHECK_DEADLOCK FALSE
