\* One row fought over by two loops and a background call; one fault, one manual retry.
SPECIFICATION FairSpec
CONSTANTS
    Delivery = {1}
    Linked = {1}
    Worker = {w1, w2}
    Caller = {c1}
    None = None
    MaxAttempts = 2
    BatchSize = 2
    MaxFaults = 1
    MaxRetries = 1
INVARIANTS
    HistoryAgreesWithRow
    AttemptNumberIsFresh
    FaultsBoundAttempts
    NotificationIsHonest
PROPERTIES
    EndsOwnAttempt
    KeepsPromise
    EventuallySettled
\* Nothing is left to do when every row is settled.
CHECK_DEADLOCK FALSE
