\* Two requests, each of any kind, and two handlers; two faults.
SPECIFICATION FairSpec
CONSTANTS
    Handler = {h1, h2}
    Session = {s1, s2}
    None = None
    MaxRequests = 2
    MaxFaults = 2
INVARIANTS
    AcknowledgedIsKept
    ReportsAreHonest
PROPERTY EventuallyAcknowledged
\* Nothing is left to do when every request is answered.
CHECK_DEADLOCK FALSE
