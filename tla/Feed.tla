-------------------------------- MODULE Feed --------------------------------
(***************************************************************************)
(* Lists read page by page, and scraps (post.service.ts, review.service.ts,*)
(* post-feed.query.repository.ts, member-query.service.ts,                 *)
(* scrap.service.ts).                                                      *)
(*                                                                         *)
(* The feed of posts, the posts of a member, the feed of reviews and the   *)
(* reviews a member has received are paged by offset, newest first, with   *)
(* the total from a query of its own; rows are inserted, removed, scrapped *)
(* and unscrapped meanwhile.  created_at is the time of the INSERT: a post *)
(* whose transaction commits late appears below newer ones.  scrapPost     *)
(* looks for a scrap before it inserts one, and nothing makes the pair of  *)
(* member and post unique.                                                 *)
(*                                                                         *)
(* Searching, and what is shown of an entry, are left out.                 *)
(***************************************************************************)
EXTENDS Naturals, FiniteSets

CONSTANTS
    Members, Handlers,
    Limit,                   \* entries of a page
    MaxEntries, MaxScraps, MaxRequests,   \* bounds on rows and on scrap requests
    Lists,                   \* the lists that are scanned
    None, NoRow

VARIABLES
    entry,      \* posts and reviews by id, in the order of created_at
    status,     \* "free", "open" in a transaction, "there" or "gone"
    scraps,     \* scrap, by id
    txn,
    requests,   \* scrap and unscrap requests so far
    latest,     \* outcomes of requests that no later request has followed
    scan        \* a client that reads one list page by page

vars == <<entry, status, scraps, txn, requests, latest, scan>>

Ids == 1..MaxEntries
Entry == [kind: {"post", "review"}, member: Members, post: Ids]
ScrapIds == 1..MaxScraps
Scrap == [member: Members, post: Ids]
Outcome == [request: 0..MaxRequests, member: Members, post: Ids, scrapped: BOOLEAN]
Idle == [stage |-> "idle", member |-> None, post |-> None, request |-> 0, before |-> {}]

TypeOK ==
    /\ entry \in [Ids -> Entry \union {NoRow}]
    /\ status \in [Ids -> {"free", "open", "there", "gone"}]
    /\ \A i \in Ids : status[i] = "there" => status[entry[i].post] = "there"
    /\ scraps \in [ScrapIds -> Scrap \union {NoRow}]
    /\ \A s \in ScrapIds : scraps[s] # NoRow => status[scraps[s].post] = "there"
    /\ requests \in 0..MaxRequests
    /\ \A h \in Handlers :
         /\ txn[h].stage \in {"idle", "finding", "inserting", "deleting"}
         /\ txn[h].before \subseteq latest \union Outcome
    /\ latest \subseteq Outcome
    /\ scan.stage \in {"idle", "paging", "counting", "done"}
    /\ scan.given \subseteq Ids /\ scan.due \subseteq Ids

Rested == [stage |-> "idle", list |-> None, member |-> None, page |-> 1,
           due |-> {}, given |-> {}, disturbed |-> FALSE]

Init ==
    /\ entry = [i \in Ids |-> NoRow]
    /\ status = [i \in Ids |-> "free"]
    /\ scraps = [s \in ScrapIds |-> NoRow]
    /\ txn = [h \in Handlers |-> Idle]
    /\ requests = 0 /\ latest = {}
    /\ scan = Rested

-----------------------------------------------------------------------------
First(S) == CHOOSE i \in S : \A j \in S : i <= j
FreeIds == {i \in Ids : status[i] = "free"}
FreeScraps == {s \in ScrapIds : scraps[s] = NoRow}

IsPost(i) == entry[i].kind = "post"
Visible == {i \in Ids : status[i] = "there"}
ScrapsOf(m, p) == {s \in ScrapIds : scraps[s] = [member |-> m, post |-> p]}

\* The entries of a list, as member m sees it.  A review is scrapped with its post.
InList(list, m, i) ==
    CASE list = "contents" -> IsPost(i)
      [] list = "scrappedContents" -> IsPost(i) /\ ScrapsOf(m, i) # {}
      [] list = "memberContents" -> IsPost(i) /\ entry[i].member = m
      [] list = "reviews" -> ~IsPost(i)
      [] list = "scrappedReviews" -> ~IsPost(i) /\ ScrapsOf(m, entry[i].post) # {}
      [] list = "publicReviews" -> ~IsPost(i) /\ entry[i].member = m
      [] OTHER -> FALSE
Matching(list, m) == {i \in Visible : InList(list, m, i)}

\* ORDER BY created_at DESC, OFFSET (page - 1) * limit LIMIT limit, of the
\* distinct entries: the scraps they are joined with do not count.  `rank`
\* entries are newer; the page is counted from one.
\* Mutant: pages counted from zero.
AtFromZero(n, rank) == rank \in (n * Limit)..((n + 1) * Limit - 1)
At(n, rank) == rank \in ((n - 1) * Limit)..(n * Limit - 1)
Page(list, m, n) ==
    {i \in Matching(list, m) : At(n, Cardinality({j \in Matching(list, m) : j > i}))}

-----------------------------------------------------------------------------
\* A post is inserted; its transaction commits when its pictures are stored.
CreatePost(m) ==
    /\ FreeIds # {}
    /\ LET i == First(FreeIds) IN
        /\ entry' = [entry EXCEPT ![i] = [kind |-> "post", member |-> m, post |-> i]]
        /\ status' = [status EXCEPT ![i] = "open"]
    /\ UNCHANGED <<scraps, txn, requests, latest, scan>>

Commit(i) ==
    /\ status[i] = "open"
    /\ status' = [status EXCEPT ![i] = "there"]
    /\ UNCHANGED <<entry, scraps, txn, requests, latest, scan>>

\* createReview: one of the post p, received by its author.
CreateReview(p) ==
    /\ FreeIds # {} /\ p \in Visible /\ IsPost(p)
    /\ LET i == First(FreeIds) IN
        /\ entry' = [entry EXCEPT ![i] = [kind |-> "review", member |-> entry[p].member, post |-> p]]
        /\ status' = [status EXCEPT ![i] = "there"]
    /\ UNCHANGED <<scraps, txn, requests, latest, scan>>

\* remove: a post nothing refers to.  It leaves the list that is being read.
Remove(i) ==
    /\ i \in Visible /\ IsPost(i)
    /\ \A s \in ScrapIds : scraps[s] # NoRow => scraps[s].post # i
    /\ \A j \in Visible \ {i} : entry[j].post # i
    /\ status' = [status EXCEPT ![i] = "gone"]
    /\ scan' = [scan EXCEPT !.disturbed = @ \/ InList(scan.list, scan.member, i)]
    /\ UNCHANGED <<entry, scraps, txn, requests, latest>>

-----------------------------------------------------------------------------
Goto(h, stage) == txn' = [txn EXCEPT ![h].stage = stage]

\* assertPostExists.
Begin(h, m, p, stage) ==
    /\ txn[h].stage = "idle" /\ requests < MaxRequests
    /\ p \in Visible /\ IsPost(p)
    /\ requests' = requests + 1
    /\ txn' = [txn EXCEPT ![h] = [stage |-> stage, member |-> m, post |-> p,
                                  request |-> requests', before |-> latest]]
    /\ UNCHANGED <<entry, status, scraps, latest, scan>>

\* The answer: scrapped or not, and the answers it has followed are history.
Answer(h, scrapped) ==
    LET t == txn[h] IN
    /\ latest' = {o \in latest : ~(o \in t.before /\ o.member = t.member /\ o.post = t.post)}
                   \union {[request |-> t.request, member |-> t.member, post |-> t.post,
                            scrapped |-> scrapped]}
    /\ txn' = [txn EXCEPT ![h] = Idle]

\* A post that is removed meanwhile makes the INSERT fail.
Fail(h) == txn' = [txn EXCEPT ![h] = Idle] /\ UNCHANGED latest

ScrapPost(h, m, p) == Begin(h, m, p, "finding")

ScrapFind(h) ==
    /\ txn[h].stage = "finding"
    /\ IF ScrapsOf(txn[h].member, txn[h].post) = {}
       THEN Goto(h, "inserting") /\ UNCHANGED latest
       ELSE Answer(h, TRUE)
    /\ UNCHANGED <<entry, status, scraps, requests, scan>>

ScrapInsert(h) ==
    /\ txn[h].stage = "inserting" /\ FreeScraps # {}
    /\ IF txn[h].post \in Visible
       THEN /\ scraps' = [scraps EXCEPT ![First(FreeScraps)] =
                            [member |-> txn[h].member, post |-> txn[h].post]]
            /\ Answer(h, TRUE)
       ELSE Fail(h) /\ UNCHANGED scraps
    /\ UNCHANGED <<entry, status, requests, scan>>

UnscrapPost(h, m, p) == Begin(h, m, p, "deleting")

\* DELETE of every scrap of the member and the post.
\* Mutant: of one of them.
DeletedOne(m, p) == {s \in ScrapsOf(m, p) : s = First(ScrapsOf(m, p))}
Deleted(m, p) == ScrapsOf(m, p)

UnscrapDelete(h) ==
    LET t == txn[h] IN
    /\ t.stage = "deleting"
    /\ scraps' = [s \in ScrapIds |-> IF s \in Deleted(t.member, t.post) THEN NoRow ELSE scraps[s]]
    /\ scan' = [scan EXCEPT !.disturbed = @ \/ (scan.list \in {"scrappedContents", "scrappedReviews"}
                                                /\ scan.member = t.member)]
    /\ Answer(h, FALSE)
    /\ UNCHANGED <<entry, status, requests>>

-----------------------------------------------------------------------------
\* A client reads one page after the other until the total is reached.
StartScan(list, m) ==
    /\ scan.stage = "idle"
    /\ scan' = [Rested EXCEPT !.stage = "paging", !.list = list, !.member = m,
                              !.due = Matching(list, m)]
    /\ UNCHANGED <<entry, status, scraps, txn, requests, latest>>

ReadPage ==
    /\ scan.stage = "paging"
    /\ scan' = [scan EXCEPT !.stage = "counting",
                            !.given = @ \union Page(scan.list, scan.member, scan.page)]
    /\ UNCHANGED <<entry, status, scraps, txn, requests, latest>>

\* The total, by a query of its own.
ReadTotal ==
    /\ scan.stage = "counting"
    /\ scan' = IF scan.page * Limit >= Cardinality(Matching(scan.list, scan.member))
               THEN [scan EXCEPT !.stage = "done"]
               ELSE [scan EXCEPT !.stage = "paging", !.page = @ + 1]
    /\ UNCHANGED <<entry, status, scraps, txn, requests, latest>>

Next ==
    \/ \E m \in Members : CreatePost(m)
    \/ \E i \in Ids : Commit(i) \/ CreateReview(i) \/ Remove(i)
    \/ \E h \in Handlers, m \in Members, p \in Ids : ScrapPost(h, m, p) \/ UnscrapPost(h, m, p)
    \/ \E h \in Handlers : ScrapFind(h) \/ ScrapInsert(h) \/ UnscrapDelete(h)
    \/ \E list \in Lists, m \in Members : StartScan(list, m)
    \/ ReadPage \/ ReadTotal

Spec == Init /\ [][Next]_vars

-----------------------------------------------------------------------------
\* Who reads a list to its end has been given every entry that was in it at
\* the beginning, though rows are inserted all the while, above and below,
\* and a post may be scrapped twice; unless an entry left the list meanwhile.
NothingSkipped == scan.stage = "done" /\ ~scan.disturbed => scan.due \subseteq scan.given

\* When no request is under way, a post is scrapped by a member if the last
\* answer said so: of requests that overlapped, any of their answers.
Asked(m, p) == {o \in latest : o.member = m /\ o.post = p}
ScrappedAsAnswered ==
    (\A h \in Handlers : txn[h].stage = "idle") =>
        \A m \in Members, p \in Visible :
            IF Asked(m, p) = {} THEN ScrapsOf(m, p) = {}
            ELSE \E o \in Asked(m, p) : o.scrapped = (ScrapsOf(m, p) # {})
=============================================================================
