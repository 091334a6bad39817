\* One service per behaviour.  Team: two people, the first an owner, two handlers, three
\* requests, one invite.  Connections: one provider of each kind, two round trips, two acts
\* of the office or one and a fault.  Paperwork: two clerks, four requests, one change of
\* the open jobs or one crash.  Captures: two requests at once, six in all, two faults.
\* Sync: two jobs, two writers, pages of one.  Threads: two messages by two actors, a reply,
\* two Slack teams, two changes of the offices or a fault, or
\* two faults of one message, which has two attempts.  Roads: two callers, four
\* questions or three and a fault, a cache of two entries.  Order: at most four stops at
\* four places.  Plan: three jobs, two vans.
SPECIFICATION ServicesSpec
CONSTANTS
    Person = {p1, p2}
    Handler = {h1, h2}
    None = None
    MaxRequests = 3
    Invite = {i1}
    LinkHandler = {h1, h2}
    NoLink = NoLink
    MaxAuthorizations = 2
    MaxLinkActs = 2
    MaxLinkFaults = 1
    OAuthProvider = {xero}
    KeyProvider = {stripe}
    Key = {key1}
    Clerk = {c1, c2}
    NoPaper = NoPaper
    Stops = {today, tomorrow}
    MaxPapers = 4
    MaxReplans = 1
    MaxCrashes = 1
    Today = today
    Request = {q1, q2}
    NoRow = NoRow
    Configured = TRUE
    MaxCaptures = 6
    MaxCaptureFaults = 2
    Job = {j1, j2}
    Writer = {w1, w2}
    Cap = 1
    NoChange = NoChange
    MaxChanges = 3
    MaxTime = 3
    Actor = {a1, a2}
    SlackTeam = {st1, st2}
    HomeTeam = st1
    Message = {m1, m2}
    Message1 = m1
    Message2 = m2
    Reply = {r1}
    Nothing = Nothing
    MaxOfficeActs = 2
    ThreadAttempts = 2
    MaxThreadFaults = 2
    Home = home
    Other = other
    Caller = {k1, k2}
    CacheCap = 2
    Address = {here, there}
    MaxAsks = 4
    Far <- FarTable
    MaxStops = 4
    MaxPasses = 8
    Van1 = van1
    Van2 = van2
INVARIANTS
    TeamIsSound
    ConnectionIsHonest
    RecordsAgree
    RetriesAreHarmless
    SkippedOnlyForCause
    ThreadIsSound
    RoadDataIsHonest
    RoutesAreSound
PROPERTY RevokedForGood
\* Nothing is left to do when the requests of the bounds are answered.
CHECK_DEADLOCK FALSE
