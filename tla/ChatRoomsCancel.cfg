SPECIFICATION MCSpec
CHECK_DEADLOCK FALSE
CONSTANTS
    m1 = m1  m2 = m2  r1 = r1  r2 = r2  order = order  post = post
    w1 = w1  w2 = w2  c1 = c1  c2 = c2  g1 = g1  g2 = g2
    NoWallet = NoWallet
    NoSnapshot = NoSnapshot
    None = None
    NoRow = NoRow
    Jobs = {c1, c2}
    Reviewers = {g1, g2}
    Keywords = {1, 2}
    Top = 1
    Stars = {"ONE", "TWO"}
    MaxReviews = 2
    Members = {m1, m2}
    Workers = {w1, w2}
    Rooms = {r1, r2}
    SourceIds <- MCSourceIds
    Requester <- MCRequester
    Artist <- MCArtist
    Conversation <- MCConversation
    Prices = {1, 2}
    Revisions = {0, 1}
    OtherMoves <- MCCharge
PROPERTIES
    PaidRoomsAreNotCancelled
