---------------------------- MODULE OrderlyRooms ----------------------------
(***************************************************************************)
(* What the handlers of ChatRooms promise when those of one conversation   *)
(* do not overlap: a request for a room is sent after the answer to the    *)
(* one before.  Nothing in the service enforces this order, it is what the *)
(* comments over the handlers take for granted; so a behaviour has it or   *)
(* not, as "inTurn" says.  A handler may still end half way, and those of  *)
(* different conversations overlap freely.                                 *)
(*                                                                         *)
(* The same for the summary of an artist's reviews (module ReviewSummary), *)
(* for which chat rooms are no more than works, completed and reviewed.    *)
(***************************************************************************)
EXTENDS ChatRooms

CONSTANTS
    Jobs, Reviewers,       \* chat rooms of an artist, requests that review them
    Keywords, Top, Stars,
    MaxReviews,            \* a bound
    NoRow

VARIABLES
    status, review, maps, isActive, summaryTxn, summary,
    inTurn  \* whether members wait for the answers about their room

summaryVars == <<status, review, maps, isActive, summaryTxn, summary>>

Works == INSTANCE ReviewSummary WITH txn <- summaryTxn, Rooms <- Jobs, Handlers <- Reviewers

ASSUME SummaryAssumption ==
    /\ IsFiniteSet(Jobs)
    /\ Keywords \subseteq Nat /\ IsFiniteSet(Keywords)
    /\ Top \in Nat /\ MaxReviews \in Nat
    /\ NoRow \notin [room: Jobs, star: Stars]

\* No handler works on a room of r's conversation.
Undisturbed(r) ==
    \A v \in Workers : txn[v].stage # "idle" => Conversation[txn[v].room] # Conversation[r]

OrderlyInit == Init /\ inTurn \in BOOLEAN

OrderlyNext ==
    /\ UNCHANGED inTurn
    /\ \/ \E w \in Workers : \/ \E r \in Rooms : (inTurn => Undisturbed(r)) /\ Begin(w, r)
                             \/ Advance(w)
                             \/ Abort(w)
       \/ \E e \in OtherMoves : MoveElsewhere(e)

OrderlySpec == OrderlyInit /\ [][OrderlyNext]_<<vars, inTurn>>

\* No two requests review one room at once.
OneReviewer(state) ==
    \A g, h \in Reviewers :
        state[g].stage # "idle" /\ state[h].stage # "idle" /\ state[g].room = state[h].room => g = h

SummarySpec ==
    /\ Works!Init /\ inTurn \in BOOLEAN
    /\ [][Works!Next /\ UNCHANGED inTurn
          /\ (inTurn => OneReviewer(summaryTxn'))]_<<summaryVars, inTurn>>

-----------------------------------------------------------------------------
\* The transitions announced over the handlers.
Announced ==
    {<<"NONE", "REQUESTED">>, <<"REQUESTED", "ACCEPTED">>, <<"REQUESTED", "CANCELLED">>,
     <<"ACCEPTED", "CANCELLED">>, <<"ACCEPTED", "PAID">>, <<"PAID", "IN_PROGRESS">>,
     <<"IN_PROGRESS", "DRAFT_SENT">>, <<"DRAFT_SENT", "IN_PROGRESS">>,
     <<"DRAFT_SENT", "COMPLETED">>, <<"COMPLETED", "REVIEWED">>,
     <<"CANCELLED", "DELETED">>, <<"REVIEWED", "DELETED">>}

RoomStep ==
    \A r \in Rooms : rooms'[r].status # rooms[r].status =>
                        <<rooms[r].status, rooms'[r].status>> \in Announced

\* The room tells what was paid for it: paid_amount is the amount of its
\* ledger rows, and an unpaid room has none.
PaidAmountMatchesLedger ==
    \A r \in Rooms : Exists(r) =>
        LET amounts == {-e.coins : e \in {f \in ledger : /\ f.type = "USE"
                                                         /\ f.source = "CHAT_PAYMENT"
                                                         /\ f.id = r}}
        IN amounts = IF rooms[r].paidAmount = None THEN {} ELSE {rooms[r].paidAmount}

\* The requester never gets more revisions than the artist offered.
RevisionsWithinOffer ==
    \A r \in Rooms : Exists(r) => rooms[r].feedbackUsed <= rooms[r].feedbackCount

\* One room per post and requester, one review per room.
NoDuplicates ==
    /\ \A r, s \in Rooms :
          Exists(r) /\ Exists(s) /\ Conversation[r] = Conversation[s] => r = s
    /\ \A r \in Rooms : reviews[r] <= 1

\* One handler after the other, each of which may end half way: paid_amount is
\* what the ledger says was paid for the room (payChatRoom, requestPriceChange);
\* the requester never gets more revisions than the artist offered
\* (requestRevision); one room per post and requester, one review per room
\* (createChatRoom, createReview).
SerialRooms ==
    inTurn => PaidAmountMatchesLedger /\ RevisionsWithinOffer /\ NoDuplicates

\* One handler after the other: the transitions announced over the handlers.
SerialStatus == [][inTurn => RoomStep]_vars

\* The numbers of a summary belong together, though they are read by several
\* queries while works are reviewed and rooms deleted (getPublicReviewSummary):
\* one review after the other of a room, never more reviews than completed works
\* and deleted rooms; whatever overlaps, no keyword given more often than there
\* are reviews, the keywords shown are the most frequent ones when they are read,
\* and the average is within half a hundredth of the mean of the stars.
SummaryConsistent ==
    /\ Works!TypeOK
    /\ inTurn => Works!WorksCoverReviews
    /\ Works!KeywordsWithinReviews
    /\ Works!TopIsTop
    /\ Works!AverageIsRounded
=============================================================================
