\* Two events in one batch, two instances, one fault.
SPECIFICATION FairSpec
CONSTANTS
    Event = {1, 2}
    Worker = {w1, w2}
    None = None
    MaxAttempts = 2
    BatchSize = 2
    MaxFaults = 1
INVARIANT LeasesAreHonest
PROPERTIES
    KeepsPromise
    SettledForGood
    EventuallySettled
\* Nothing is left to do when every event is settled.
CHECK_DEADLOCK FALSE
