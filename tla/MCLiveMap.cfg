\* One view per behaviour.  Feed: two sockets in turn, one fix, a change of status and its
\* reversal, two faults, with and without attention flags.  Lines: three boards, two changes.
\* Stage: two themes of one and two styles, two days, two jobs, three changes.  Crew:
\* three technicians, two jobs, three acts; one of the visits begins before the board day.
SPECIFICATION LiveMapSpec
CONSTANTS
    MaxSockets = 2
    MaxFixes = 1
    MaxStatuses = 2
    MaxFeedFaults = 2
    Tech1 = v1
    Tech2 = v2
    Place1 = p1
    Place2 = p2
    Crew <- Convoy
    Spot = {p1, p2}
    Boards <- Rounds
    Trails <- Paths
    Nowhere = Nowhere
    Attempts = 2
    MaxLineChanges = 2
    Theme1 = dark
    Theme2 = light
    Theme = {dark, light}
    Styles <- Ladders
    Passes = 2
    Day = {mon, tue}
    MapJob = {j1, j2}
    Van = {v1}
    Unselected = Unselected
    MaxStageChanges = 3
    MaxLate = 1
    Sam1 = sam1
    Sam2 = sam2
    Kim = kim
    Member = {sam1, sam2, kim}
    NameOf <- Names
    First = sam1
    Second = kim
    Jobs = 2
    Site <- Sites
    SiteOf <- Places
    Drive <- Drives
    VisitSlot <- Visits
    Clock = {130}
    Unknown = Unknown
    DayLength = 96
    DayStart = 32
    Blocks = 20
    BlockLength = 2
    BoardCap = 2
    TrailCap = 2
    MaxCrewActs = 3
INVARIANTS
    FeedIsHonest
    MapIsHonest
    CrewBoardIsHonest
PROPERTY FeedEnds
\* The console may give up for good once its session is revoked.
CHECK_DEADLOCK FALSE
