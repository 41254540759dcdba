SPECIFICATION Spec
CONSTANTS
    Members = {a, b}
    Handlers = {h1, h2}
    Processes = {p, q}
    MaxMessages = 3
    MaxRequests = 3
    PageSize = 1
    CatchesUp = FALSE
    None = None
INVARIANT FollowersSeeAll
CHECK_DEADLOCK FALSE
