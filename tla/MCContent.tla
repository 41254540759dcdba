------------------------------ MODULE MCContent ------------------------------
(***************************************************************************)
(* What members publish, ask and write to each other: posts with their     *)
(* images, their tags, inquiries, the lists that are read page by page,    *)
(* and the messages of a chat room.                                        *)
(*                                                                         *)
(* "scene" says which of them a behaviour is about; the others rest.       *)
(***************************************************************************)
EXTENDS Content, TLC

CONSTANTS
    h1, h2,      \* handlers
    o1, o2,      \* owners of tags
    a, b, fan,    \* members
    x, y, z,     \* names of tags, of which x and y are equal to the database
    server       \* the server process of a chat room

VARIABLES
    scene,
    chatRoom, rows, message, given, chatTxn, chatRequests, socket, joined, cursor,
    seen, answered, counted, blind, hurried

chatVars == <<chatRoom, rows, message, given, chatTxn, chatRequests, socket, joined, cursor,
              seen, answered, counted, blind, hurried>>

\* The chat room of a and b, on one server.
Chat ==
    INSTANCE ChatMessages
    WITH Members <- {a, b}, Processes <- {server}, MaxMessages <- 3, MaxRequests <- 3,
         CatchesUp <- FALSE, room <- chatRoom, txn <- chatTxn, requests <- chatRequests

\* Names the database takes for one; names it tells apart.
LikeTags == INSTANCE Tags WITH txn <- tagTxn, Names <- {x, y}, MaxTags <- 2, MaxLinks <- 4
OtherTags ==
    INSTANCE Tags WITH txn <- tagTxn, Owners <- {o1}, Names <- {x, z}, MaxTags <- 2, MaxLinks <- 2
MCCollation == (x :> 1 @@ y :> 1 @@ z :> 2)

\* Lists of scrapped entries while entries come, go, are scrapped and
\* unscrapped by two requests; the other lists while entries come and go.
ScrapLists ==
    INSTANCE Feed
    WITH Members <- {fan}, Limit <- PageSize, txn <- scrapTxn, MaxEntries <- 2,
         Lists <- {"scrappedContents", "scrappedReviews"}
OtherLists ==
    INSTANCE Feed
    WITH Members <- {a, b}, Limit <- PageSize, txn <- scrapTxn, MaxRequests <- 0,
         Lists <- {"contents", "memberContents", "reviews", "publicReviews"}

MCInit ==
    /\ Init /\ Tag!Init /\ Question!Init /\ Feeds!Init /\ Chat!Init
    /\ scene \in {"posts", "overlapping posts", "tags", "overlapping tags", "inquiries",
                  "scraps", "lists", "chat", "longer chat"}
    /\ inTurn = (scene \in {"posts", "tags"})

\* Two posts and one request at a time, which may send files of one key; one
\* post and two requests.
PostScene ==
    \/ scene = "posts" /\ Next /\ OneUnderWay(txn')
    \/ /\ scene = "overlapping posts" /\ Next
       /\ ~sameKey' /\ posted' <= 1 /\ uploads' <= 2 /\ numbered' <= 2

\* Two owners and one request at a time; one owner and two requests.
TagScene ==
    \/ scene = "tags" /\ LikeTags!Next /\ OneUnderWay(tagTxn')
    \/ scene = "overlapping tags" /\ OtherTags!Next

FeedScene ==
    \/ scene = "scraps" /\ ScrapLists!Next
    \/ scene = "lists" /\ OtherLists!Next

\* Two messages and three other requests, or three messages and one.
ChatScene ==
    \/ scene = "chat" /\ Chat!Next /\ given' <= 2
    \/ scene = "longer chat" /\ Chat!Next /\ chatRequests' <= 1

MCNext ==
    /\ UNCHANGED <<scene, inTurn>>
    /\ \/ PostScene /\ UNCHANGED <<tagVars, inquiryVars, feedVars, chatVars>>
       \/ TagScene /\ UNCHANGED <<vars, inquiryVars, feedVars, chatVars>>
       \/ /\ scene = "inquiries" /\ Question!Next
          /\ UNCHANGED <<vars, tagVars, feedVars, chatVars>>
       \/ FeedScene /\ UNCHANGED <<vars, tagVars, inquiryVars, chatVars>>
       \/ ChatScene /\ UNCHANGED <<vars, tagVars, inquiryVars, feedVars>>

MCSpec ==
    MCInit /\ [][MCNext]_<<vars, tagVars, inquiryVars, feedVars, chatVars, inTurn, scene>>

-----------------------------------------------------------------------------
\* A client that has joined the room and read its history to the end shows
\* every message of the room that was answered: the events close the gap
\* between the pages and the messages that come in meanwhile (sendMessage,
\* getMessages, emitMessageCreated).
FollowersSeeAll == Chat!TypeOK /\ Chat!FollowersSeeAll

\* A message is marked as read only after its receiver was given it, though
\* the mark covers every message up to the one it names (markAsRead).  The two
\* ways out: a request that names no message reads everything there is, and a
\* member who sends on before the answer lets the earlier message be read unseen.
ReadWasSeen == Chat!ReadWasSeen

\* The updatedCounts add up to the messages that are read: no message is
\* counted twice by marks that overlap, and none is left out (markAsRead).
CountsAddUp == Chat!CountsAddUp

Symmetry == Permutations({h1, h2}) \union Permutations({a, b})
=============================================================================
