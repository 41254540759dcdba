SPECIFICATION FairSpec
CONSTANTS
    Emails = {e1}
    Nicknames = {n1}
    Handlers = {h1}
    MaxMembers = 1
    MaxUploads = 1
    None = None
    NoRow = NoRow
PROPERTIES
    ExpiredGo
CHECK_DEADLOCK FALSE
