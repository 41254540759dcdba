------------------------------ MODULE Content -------------------------------
(***************************************************************************)
(* What members publish and ask, side by side: posts with their images,    *)
(* the tags of posts or members (Tag), inquiries (Question), and the lists *)
(* that are read page by page, with scraps (Feeds); and what the handlers  *)
(* promise.  Some of it holds whatever overlaps, some as long as a request *)
(* is sent after the answer to the one before.  Nothing in the service     *)
(* enforces this order; a behaviour has it or not, as "inTurn" says.       *)
(***************************************************************************)
EXTENDS Posts

CONSTANTS
    Owners, Names, Collation, MaxTags, MaxLinks,               \* of tags
    Asking, Admins, Answers, OneAdmin, MaxInquiries, MaxUpdates,   \* of inquiries
    Readers, PageSize, MaxEntries, MaxScraps, MaxRequests, Lists   \* of lists

VARIABLES
    tags, links, tagTxn, asked,
    inquiries, inquiryImages, inquiryTxn, sentImages, updates,
    entry, status, scraps, scrapTxn, requests, latest, scan,
    inTurn       \* whether requests wait for each other

tagVars == <<tags, links, tagTxn, asked>>
inquiryVars == <<inquiries, inquiryImages, inquiryTxn, sentImages, updates>>
feedVars == <<entry, status, scraps, scrapTxn, requests, latest, scan>>

Tag == INSTANCE Tags WITH txn <- tagTxn

Question ==
    INSTANCE Inquiries
    WITH Members <- Asking, Serial <- OneAdmin, MaxSaves <- MaxUpdates,
         images <- inquiryImages, txn <- inquiryTxn, sent <- sentImages, saves <- updates

Feeds ==
    INSTANCE Feed
    WITH Members <- Readers, Limit <- PageSize, txn <- scrapTxn

\* At most one handler is under way.
OneUnderWay(state) ==
    \A g, h \in Handlers : state[g].stage # "idle" /\ state[h].stage # "idle" => g = h

PostSpec ==
    /\ Init /\ inTurn \in BOOLEAN
    /\ [][Next /\ UNCHANGED inTurn /\ (inTurn => OneUnderWay(txn'))]_<<vars, inTurn>>

TagSpec ==
    /\ Tag!Init /\ inTurn \in BOOLEAN
    /\ [][Tag!Next /\ UNCHANGED inTurn /\ (inTurn => OneUnderWay(tagTxn'))]_<<tagVars, inTurn>>

-----------------------------------------------------------------------------
\* Whatever overlaps and wherever a handler ends, the picture of an image row is
\* in the bucket, and unless one was cut short nothing else is, once nothing is
\* under way (create, update, their rollback); as long as no two files of a
\* request have had one key.  One handler at a time: a post shows its first
\* image, and has at most as many as allowed.
PostsKeepImages ==
    /\ TypeOK
    /\ ~sameKey => ImagesStored /\ BucketMatches
    /\ inTurn => ThumbnailIsFirst /\ AtMostLimit

\* Whatever overlaps and is cut short: an owner shows no tags but those of the
\* last request that was answered, of requests under way with it, and of later
\* ones, and tags that the database takes for one of these; and if no other
\* request overlapped the last one, the tags of all its names (syncTags,
\* syncMemberTags).  One request at a time: an owner has one link to a tag of a
\* name, and so shows it once (getOrCreateTags).
TagsAsRequested ==
    Tag!TypeOK /\ Tag!TagsAsRequested /\ (inTurn => Tag!NoTagTwice)

\* An inquiry keeps the pictures its member was told are saved, whatever an
\* administrator saves while they are uploaded or later (create, updateByAdmin).
\* One administrator at a time: nobody is shown an answered inquiry without an
\* answer and its date, however often the two were changed (updateByAdmin).
InquiriesHold == Question!TypeOK /\ Question!InquiriesHold

\* Who reads a list to its end has been given every entry that was in it at
\* the beginning, though rows are inserted all the while, above and below,
\* and a post may be scrapped twice; unless an entry left the list meanwhile.
NothingSkipped == Feeds!TypeOK /\ Feeds!NothingSkipped

\* When no request is under way, a post is scrapped by a member if the last
\* answer said so: of requests that overlapped, any of their answers.
ScrappedAsAnswered == Feeds!ScrappedAsAnswered
=============================================================================
