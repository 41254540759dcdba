SPECIFICATION MCSpec
SYMMETRY Symmetry
CHECK_DEADLOCK FALSE
CONSTANTS
    h1 = h1  h2 = h2  o1 = o1  o2 = o2  a = a  b = b  fan = fan
    None = None
    NoRow = NoRow
    Handlers = {h1, h2}
    Limit = 2
    MaxPosts = 2
    MaxUploads = 3
    Owners = {o1, o2}
    x = x  y = y  z = z  server = server
    Names = {x, y, z}
    Collation <- MCCollation
    MaxTags = 3
    MaxLinks = 5
    Asking = {m1}
    Admins = {admin}
    Answers = {yes}
    OneAdmin = TRUE
    MaxInquiries = 1
    MaxUpdates = 3
    Readers = {a, b, fan}
    PageSize = 1
    MaxEntries = 3
    MaxScraps = 3
    MaxRequests = 3
    Lists = {"contents", "memberContents", "reviews", "publicReviews",
             "scrappedContents", "scrappedReviews"}
INVARIANTS
    PostsKeepImages
    TagsAsRequested
    InquiriesHold
    NothingSkipped
    ScrappedAsAnswered
    FollowersSeeAll
    ReadWasSeen
    CountsAddUp
