\* What the comment on the lock expects: three requests, two at once.
SPECIFICATION Spec
CONSTANTS
    Person = {p1, p2}
    Handler = {h1, h2}
    None = None
    MaxRequests = 3
    Invite = {}
SYMMETRY Symmetry
INVARIANT OwnerRemains
\* Nothing is left to do when no request is under way.
CHECK_DEADLOCK FALSE
