\* One record, its event and up to two delivery rows of two attempts; one fault in each component.
SPECIFICATION FairSpec
CONSTANTS
    Event = {1}
    Delivery = {1, 2}
    Instance = {i1}
    Caller = {c1}
    None = None
    MaxAttempts = 2
    BatchSize = 2
    MaxFaults = 1
INVARIANT RecordIsShownOnce
PROPERTIES
    KeepsPromise
    EventuallyResolved
\* Nothing is left to do when every row is settled.
CHECK_DEADLOCK FALSE
