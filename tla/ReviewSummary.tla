--------------------------- MODULE ReviewSummary ---------------------------
(***************************************************************************)
(* The public summary of an artist's reviews (member.service.ts,           *)
(* member-query.service.ts, review.service.ts).                            *)
(*                                                                         *)
(* getPublicReviewSummary reads the reviews, then the number of completed  *)
(* works, then the keywords of the reviews it read, while createReview     *)
(* stores a review, its keywords and the new status of the chat room one   *)
(* after the other, and a member deletes a chat room.  A review keeps the  *)
(* id of its chat room, but does not refer to it.                          *)
(***************************************************************************)
EXTENDS Integers, FiniteSets

CONSTANTS
    Rooms,         \* the artist's chat rooms
    Handlers,
    Keywords,      \* in the order of localeCompare: 1, 2, ...
    Top,           \* keywords of a summary
    MaxReviews,    \* a bound
    Stars,         \* the stars given
    None, NoRow

VARIABLES
    status,    \* of the chat rooms: "working", "COMPLETED", "REVIEWED", "gone"
    review,    \* the review table: room and star
    maps,      \* review_keyword_map: <<review, keyword>>
    isActive,  \* the keywords in use (review_keyword.isActive)
    txn,
    summary    \* what getPublicReviewSummary has read

vars == <<status, review, maps, isActive, txn, summary>>

Ids == 1..MaxReviews
Idle == [stage |-> "idle", room |-> None, star |-> None, keywords |-> {}, id |-> None]
Unread == [stage |-> "idle", reviews |-> {}, average |-> 0, completed |-> 0, top |-> <<>>]

TypeOK ==
    /\ status \in [Rooms -> {"working", "COMPLETED", "REVIEWED", "gone"}]
    /\ review \in [Ids -> [room: Rooms, star: Stars] \union {NoRow}]
    /\ maps \subseteq {i \in Ids : review[i] # NoRow} \X Keywords
    /\ isActive \subseteq Keywords
    /\ txn \in [Handlers -> [stage: {"idle", "saving", "mapping", "marking"},
                             room: Rooms \union {None}, star: Stars \union {None},
                             keywords: SUBSET Keywords, id: Ids \union {None}]]
    /\ summary.stage \in {"idle", "counting", "ranking", "answered"}
    /\ summary.average \in 0..500
    /\ summary.completed \in 0..Cardinality(Rooms)

Init ==
    /\ status = [r \in Rooms |-> "working"]
    /\ review = [i \in Ids |-> NoRow]
    /\ maps = {}
    /\ isActive = Keywords
    /\ txn = [h \in Handlers |-> Idle]
    /\ summary = Unread

-----------------------------------------------------------------------------
Goto(h, stage) == txn' = [txn EXCEPT ![h].stage = stage]
Reviews == {i \in Ids : review[i] # NoRow}

\* The artist's work is done and confirmed, see module ChatRooms.
Complete(r) ==
    /\ status[r] = "working"
    /\ status' = [status EXCEPT ![r] = "COMPLETED"]
    /\ UNCHANGED <<review, maps, txn, summary, isActive>>

\* createReview: the room is COMPLETED and has no review yet.
ReviewBegin(h, r, star, ks) ==
    /\ txn[h].stage = "idle" /\ status[r] = "COMPLETED"
    /\ \A i \in Reviews : review[i].room # r
    /\ txn' = [txn EXCEPT ![h] = [Idle EXCEPT !.stage = "saving", !.room = r,
                                             !.star = star, !.keywords = ks]]
    /\ UNCHANGED <<status, review, maps, summary, isActive>>

ReviewSave(h) ==
    /\ txn[h].stage = "saving" /\ Reviews # Ids
    /\ LET i == Cardinality(Reviews) + 1 IN
        /\ review' = [review EXCEPT ![i] = [room |-> txn[h].room, star |-> txn[h].star]]
        /\ txn' = [txn EXCEPT ![h].stage = "mapping", ![h].id = i]
    /\ UNCHANGED <<status, maps, summary, isActive>>

\* The keywords in use; a review without any is marked at once.
ReviewKeywords(h) ==
    /\ txn[h].stage = "mapping"
    /\ maps' = maps \union ({txn[h].id} \X (txn[h].keywords \intersect isActive))
    /\ Goto(h, "marking")
    /\ UNCHANGED <<status, review, summary, isActive>>

ReviewMark(h) ==
    /\ txn[h].stage = "marking"
    /\ status' = [status EXCEPT ![txn[h].room] = IF @ = "gone" THEN @ ELSE "REVIEWED"]
    /\ txn' = [txn EXCEPT ![h] = Idle]
    /\ UNCHANGED <<review, maps, summary, isActive>>

\* createReview ends with an error between two statements.
Interrupt(h) ==
    /\ txn[h].stage # "idle"
    /\ txn' = [txn EXCEPT ![h] = Idle]
    /\ UNCHANGED <<status, review, maps, summary, isActive>>

\* deleteChatRoom of a reviewed room: the review stays.
DeleteRoom(r) ==
    /\ status[r] = "REVIEWED"
    /\ status' = [status EXCEPT ![r] = "gone"]
    /\ UNCHANGED <<review, maps, txn, summary, isActive>>

\* A keyword goes out of use, by a change of its row from outside.
Retire(k) ==
    /\ isActive' = isActive \ {k}
    /\ UNCHANGED <<status, review, maps, txn, summary>>

-----------------------------------------------------------------------------
\* convertStarToNumber.
Number(star) ==
    CASE star = "ONE" -> 1 [] star = "TWO" -> 2 [] star = "THREE" -> 3
      [] star = "FOUR" -> 4 [] star = "FIVE" -> 5 [] OTHER -> 0

\* The sum of the stars, counted by number.
Starred(n, S) == {i \in S : Number(review[i].star) = n}
Sum(S) ==
    Cardinality(Starred(1, S)) + 2 * Cardinality(Starred(2, S)) + 3 * Cardinality(Starred(3, S))
        + 4 * Cardinality(Starred(4, S)) + 5 * Cardinality(Starred(5, S))

\* The average in hundredths, as toFixed(2) rounds it.
AverageOf(S) ==
    IF S = {} THEN 0
    ELSE (200 * Sum(S) + Cardinality(S)) \div (2 * Cardinality(S))

\* findReceiverReviewStars.
ReadReviews ==
    /\ summary.stage = "idle"
    /\ summary' = [summary EXCEPT !.stage = "counting", !.reviews = Reviews,
                                  !.average = AverageOf(Reviews)]
    /\ UNCHANGED <<status, review, maps, txn, isActive>>

\* countCompletedWorks.
\* Mutant: COMPLETED rooms only.
WorksCompleted == {r \in Rooms : status[r] = "COMPLETED"}
Works == {r \in Rooms : status[r] \in {"COMPLETED", "REVIEWED"}}

ReadWorks ==
    /\ summary.stage = "counting"
    /\ summary' = [summary EXCEPT !.stage = "ranking", !.completed = Cardinality(Works)]
    /\ UNCHANGED <<status, review, maps, txn, isActive>>

\* findKeywordMapsByReviewIds: how often a keyword in use was given in these
\* reviews.
Times(k, S) == Cardinality({i \in S : <<i, k>> \in maps /\ k \in isActive})
Given(S) == {k \in Keywords : Times(k, S) > 0}

\* By number, and keywords of one number by name; the first ones.
Before(k, l, S) == Times(k, S) > Times(l, S) \/ (Times(k, S) = Times(l, S) /\ k < l)
Place(k, S) == 1 + Cardinality({l \in Given(S) : Before(l, k, S)})
Ranking(S) == [n \in 1..Cardinality(Given(S)) |-> CHOOSE k \in Given(S) : Place(k, S) = n]
TopOf(S) ==
    LET shown == IF Top < Cardinality(Given(S)) THEN Top ELSE Cardinality(Given(S))
    IN  [n \in 1..shown |-> [keyword |-> Ranking(S)[n], count |-> Times(Ranking(S)[n], S)]]

ReadKeywords ==
    /\ summary.stage = "ranking"
    /\ summary' = [summary EXCEPT !.stage = "answered", !.top = TopOf(summary.reviews)]
    /\ UNCHANGED <<status, review, maps, txn, isActive>>

Next ==
    \/ \E r \in Rooms : Complete(r) \/ DeleteRoom(r)
    \/ \E h \in Handlers, r \in Rooms, star \in Stars, ks \in SUBSET Keywords :
         ReviewBegin(h, r, star, ks)
    \/ \E h \in Handlers :
         ReviewSave(h) \/ ReviewKeywords(h) \/ ReviewMark(h) \/ Interrupt(h)
    \/ \E k \in isActive : Retire(k)
    \/ ReadReviews \/ ReadWorks \/ ReadKeywords

Spec == Init /\ [][Next]_vars

-----------------------------------------------------------------------------
\* A summary has no more reviews than completed works, not counting those whose
\* chat room was deleted, though the two numbers are read one after the other
\* while works are finished, reviewed and deleted.
Gone == {r \in Rooms : status[r] = "gone"}
WorksCoverReviews ==
    summary.stage \in {"ranking", "answered"} =>
        Cardinality(summary.reviews) <= summary.completed + Cardinality(Gone)

\* No keyword of a summary was given more often than there are reviews in it,
\* though the keywords are read last and reviews are added meanwhile.
KeywordsWithinReviews ==
    \A n \in DOMAIN summary.top : summary.top[n].count <= Cardinality(summary.reviews)

\* The keywords of a summary are the most frequent ones, most frequent first:
\* at the moment they are read all are in use, and none left out that is was
\* given more often.
TopIsTop ==
    LET S == summary.reviews  top == TopOf(S) IN
    summary.stage = "ranking" =>
        /\ \A m, n \in DOMAIN top : m < n => top[m].count >= top[n].count
        /\ \A n \in DOMAIN top : top[n].keyword \in isActive
        /\ \A k \in isActive : k \in {top[n].keyword : n \in DOMAIN top}
               \/ \A n \in DOMAIN top : Cardinality({i \in S : <<i, k>> \in maps}) <= top[n].count
        /\ \A m, n \in DOMAIN top : m < n => top[m].keyword # top[n].keyword
        /\ Given(S) # {} /\ Top > 0 => top # <<>>

\* The average lies no further than half a hundredth from the mean of the
\* stars, for every set of reviews the summary may read.
AverageIsRounded ==
    \A S \in SUBSET Reviews :
        LET diff == 200 * Sum(S) - 2 * AverageOf(S) * Cardinality(S)
        IN  -Cardinality(S) <= diff /\ diff <= Cardinality(S)
=============================================================================
