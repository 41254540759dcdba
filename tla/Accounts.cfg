SPECIFICATION MCSpec
SYMMETRY Symmetry
CHECK_DEADLOCK FALSE
CONSTANTS
    g = g  h1 = h1  h2 = h2  t1 = t1  t2 = t2
    e0 = e0  e1 = e1  e2 = e2  e3 = e3  n1 = n1  n2 = n2  n3 = n3
    None = None
    NoRow = NoRow
    Members = {m1}
    Tokens = {t1, t2}
    Handlers = {h1, h2}
    Workers = {g, h1, h2}
    Emails = {e0, e1, e2, e3}
    Registered = {e1}
    Nicknames = {n1, n2, n3}
    MaxCodes = 3
    MaxPasswords = 2
    MaxMembers = 2
    MaxUploads = 2
    Sockets = {s1}
    Lifetime = 2
    MaxTime = 4
INVARIANTS
    RequestsRefused
    NoLateSocket
    PasswordIsKnown
    MembersConsistent
    AddressGivenBack
PROPERTIES
    SpentCodesRefused
    FullMembersStay
