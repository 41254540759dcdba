SPECIFICATION MCSpec
CHECK_DEADLOCK FALSE
CONSTANTS
    r1 = r1  r2 = r2  REQUESTED = REQUESTED  CANCELLED = CANCELLED
    h1 = h1  h2 = h2  e1 = e1  n1 = n1
    None = None
    NoRow = NoRow
    Processes = {p1, p2}
    Slots = {s1}
    Keys = {k1, k2}
    Texts = {t1, t2}
    DefaultProducts = {k1}
    DefaultTerms = {k1, k2}
    MaxRows = 2
    MaxStarts = 1
    Owners = {m1}
    Devices = {d1, d2}
    Infos = {i1, i2}
    EnvInfo = EnvInfo
    MaxSaves = 3
    Rooms = {r1, r2}
    Senders = {h1, h2}
    Statuses = {REQUESTED, CANCELLED}
    FirstStatus = REQUESTED
    Final = {CANCELLED}
    Limit = 1
    UnreadOnly = FALSE
    MaxChanges = 2
    MaxConnects = 1
INVARIANTS
    AnswersHold
PROPERTIES
    SwitchesStay
    ListConverges
    ExpiredGoUnblocked
