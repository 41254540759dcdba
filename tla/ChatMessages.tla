---------------------------- MODULE ChatMessages ----------------------------
(***************************************************************************)
(* The messages of one chat room and how they reach its two members        *)
(* (chat.service.ts, chat-realtime.service.ts, chat.gateway.ts).           *)
(*                                                                         *)
(* A message is a row first and an event afterwards: it is inserted and    *)
(* committed, the room is touched, and only then message:created goes to   *)
(* the sockets that have joined the room, in the server process that       *)
(* handled the request.  A client joins over its socket, waits for the     *)
(* answer and then reads the history page by page; a client that was       *)
(* disconnected joins again and reads what it missed.  Ids are given by    *)
(* INSERT, so a message may become visible after one with a higher id.     *)
(*                                                                         *)
(* The two members, their clients (one socket each) and what they show are *)
(* modelled; an event that is sent arrives at once unless its socket is    *)
(* closed.  The steps of the commission are in module ChatRooms; here the  *)
(* room is open until it is CANCELLED or REVIEWED ("closed").              *)
(***************************************************************************)
EXTENDS Naturals, FiniteSets, FiniteSetsExt

CONSTANTS
    Members,         \* requester and artist
    Handlers,
    Processes,       \* server processes, each with its own socket server
    MaxMessages, MaxRequests,   \* bounds on messages and on the other requests
    PageSize,        \* limit of a page of messages
    CatchesUp,       \* a client that comes back asks for messages after its last one
    None

VARIABLES
    room,       \* "open", "closed" or "gone"
    rows,       \* ids in the message table
    message,    \* sender and is_read by id, of rows that were deleted too
    given,      \* ids given so far
    txn,        \* the handler's place and what it holds
    requests,   \* requests so far that are not messages
    socket,     \* the process a member's client is connected to, or None
    joined,     \* whether that socket is in the room's set
    cursor,     \* what the client asks next: the messages before or after
                \* an id, or nothing when it has the whole history
    seen,       \* messages the client has been given
    answered,   \* messages whose sender has got the answer
    counted,    \* sum of the updatedCounts of the answers to message:read
    blind,      \* messages read by a request that named no message
    hurried     \* messages whose sender sent another before the answer

vars == <<room, rows, message, given, txn, requests, socket, joined, cursor,
          seen, answered, counted, blind, hurried>>

Ids == 1..MaxMessages
FromTop == [way |-> "before", id |-> MaxMessages + 1]
Whole == [way |-> "whole", id |-> 0]
Idle == [stage |-> "idle", by |-> None, process |-> None, id |-> None]

TypeOK ==
    /\ room \in {"open", "closed", "gone"}
    /\ given \in 0..MaxMessages
    /\ rows \subseteq 1..given
    /\ rows # {} => room # "gone"
    /\ message \in [Ids -> [sender: Members \union {None}, read: BOOLEAN]]
    /\ txn \in [Handlers ->
           [stage: {"idle", "sending", "inserted", "saved", "marking",
                    "emptying", "removing"},
            by: Members \union {None}, process: Processes \union {None},
            id: Ids \union {None}]]
    /\ requests \in 0..MaxRequests
    /\ socket \in [Members -> Processes \union {None}]
    /\ joined \in [Members -> BOOLEAN]
    /\ cursor \in [Members -> [way: {"before", "after", "whole"}, id: 0..(MaxMessages + 1)]]
    /\ seen \in [Members -> SUBSET (1..given)]
    /\ answered \subseteq 1..given
    /\ counted \in Nat
    /\ blind \subseteq Ids /\ hurried \subseteq Ids

Init ==
    /\ room = "open" /\ rows = {} /\ given = 0
    /\ message = [i \in Ids |-> [sender |-> None, read |-> FALSE]]
    /\ txn = [h \in Handlers |-> Idle]
    /\ requests = 0
    /\ socket = [m \in Members |-> None] /\ joined = [m \in Members |-> FALSE]
    /\ cursor = [m \in Members |-> FromTop]
    /\ seen = [m \in Members |-> {}]
    /\ answered = {} /\ counted = 0
    /\ blind = {} /\ hurried = {}

-----------------------------------------------------------------------------
table == <<rows, message, given>>
clients == <<socket, joined, cursor, seen>>
marks == <<counted, blind>>

Goto(h, stage) == txn' = [txn EXCEPT ![h].stage = stage]
Done(h) == txn' = [txn EXCEPT ![h] = Idle]

\* An INSERT of a message that has not committed holds its row, and its room shared.
Inserting(h) == \E g \in Handlers \ {h} : txn[g].stage = "inserted"

Begin(h, m, p, stage, i) ==
    /\ txn[h].stage = "idle"
    /\ txn' = [txn EXCEPT ![h] = [stage |-> stage, by |-> m, process |-> p, id |-> i]]

-----------------------------------------------------------------------------
\* sendMessage: the chat room is there and the caller is one of its members;
\* its state does not matter.
Send(h, m, p) ==
    /\ given < MaxMessages /\ room # "gone"
    /\ Begin(h, m, p, "sending", None)
    /\ UNCHANGED <<room, table, requests, clients, answered, marks, hurried>>

\* messageRepository.save: the INSERT gives the id.  A room that has been
\* deleted makes it fail.
Insert(h) ==
    /\ txn[h].stage = "sending"
    /\ IF room = "gone"
       THEN Done(h) /\ UNCHANGED <<message, given>>
       ELSE /\ given < MaxMessages
            /\ given' = given + 1
            /\ message' = [message EXCEPT ![given'] = [sender |-> txn[h].by, read |-> FALSE]]
            /\ txn' = [txn EXCEPT ![h].stage = "inserted", ![h].id = given']
    /\ UNCHANGED <<room, rows, requests, clients, answered, marks, hurried>>

Commit(h) ==
    /\ txn[h].stage = "inserted"
    /\ rows' = rows \union {txn[h].id}
    /\ Goto(h, "saved")
    /\ UNCHANGED <<room, message, given, requests, clients, answered, marks, hurried>>

\* The sockets of this process that are in the room's set.
Receivers(h) == {m \in Members : joined[m] /\ socket[m] = txn[h].process}

\* The sender of message i has sent another one after it.
SentOn(i) == \E k \in 1..given : k > i /\ message[k].sender = message[i].sender

\* touchChatRoom and mapMessage, then message:created and the answer.
EmitMessageCreated(h) ==
    /\ txn[h].stage = "saved"
    /\ seen' = [m \in Members |-> IF m \in Receivers(h) \union {txn[h].by}
                                   THEN seen[m] \union {txn[h].id} ELSE seen[m]]
    /\ answered' = answered \union {txn[h].id}
    /\ hurried' = hurried \union {i \in {txn[h].id} : SentOn(i)}
    /\ Done(h)
    /\ UNCHANGED <<room, table, requests, socket, joined, cursor, marks>>

-----------------------------------------------------------------------------
\* markAsRead: the caller names a message, or none.  A client that names one
\* names the last message of the other member that it shows, and it has read
\* the history.
Readable(m) == {i \in seen[m] : message[i].sender # m}

MarkFind(h, m, p) ==
    /\ requests < MaxRequests /\ requests' = requests + 1
    /\ room # "gone"
    /\ \/ /\ joined[m] /\ cursor[m] = Whole /\ Readable(m) # {}
          /\ Begin(h, m, p, "marking", Max(Readable(m)))
       \/ Begin(h, m, p, "marking", None)
    /\ UNCHANGED <<room, table, clients, answered, marks, hurried>>

\* WHERE chat_room_id, sender_id != :memberId, is_read = false, id <= :last.
\* Mutant: messages that are read already, too.
UnreadAndRead(m) == {i \in rows : message[i].sender # m}
Unread(m) == {i \in rows : message[i].sender # m /\ ~message[i].read}
\* Mutant: every message, whatever the last one named is.
MarkedAll(t) == Unread(t.by)
Marked(t) == {i \in Unread(t.by) : t.id # None => i <= t.id}

MarkAsRead(h) ==
    /\ txn[h].stage = "marking"
    /\ message' = [i \in Ids |-> IF i \in Marked(txn[h])
                                  THEN [message[i] EXCEPT !.read = TRUE] ELSE message[i]]
    /\ counted' = counted + Cardinality(Marked(txn[h]))
    /\ blind' = IF txn[h].id = None THEN blind \union Marked(txn[h]) ELSE blind
    /\ Done(h)
    /\ UNCHANGED <<room, rows, given, requests, clients, answered, hurried>>

-----------------------------------------------------------------------------
\* The room gets its last status, see module ChatRooms.
Close ==
    /\ requests < MaxRequests /\ requests' = requests + 1
    /\ room = "open" /\ room' = "closed"
    /\ UNCHANGED <<table, txn, clients, answered, marks, hurried>>

\* deleteChatRoom: only a room in CANCELLED or REVIEWED.
DeleteFind(h, m, p) ==
    /\ requests < MaxRequests /\ requests' = requests + 1
    /\ room = "closed"
    /\ Begin(h, m, p, "emptying", None)
    /\ UNCHANGED <<room, table, clients, answered, marks, hurried>>

\* DELETE FROM message WHERE chat_room_id waits for an uncommitted message.
DeleteMessages(h) ==
    /\ txn[h].stage = "emptying" /\ ~Inserting(h)
    /\ rows' = {}
    /\ Goto(h, "removing")
    /\ UNCHANGED <<room, message, given, requests, clients, answered, marks, hurried>>

\* DELETE of the room fails if it has a message again.  chat:deleted follows.
DeleteRoom(h) ==
    /\ txn[h].stage = "removing" /\ ~Inserting(h)
    /\ room' = IF rows = {} THEN "gone" ELSE room
    /\ Done(h)
    /\ UNCHANGED <<table, requests, clients, answered, marks, hurried>>

\* A handler ends with an error, between two of its steps.
Interrupt(h) ==
    /\ txn[h].stage # "idle"
    /\ Done(h)
    /\ UNCHANGED <<room, table, requests, clients, answered, marks, hurried>>

-----------------------------------------------------------------------------
\* handleConnection, for a member with a valid token (module Sessions).
Connect(m, p) ==
    /\ requests < MaxRequests /\ requests' = requests + 1
    /\ socket[m] = None
    /\ socket' = [socket EXCEPT ![m] = p]
    /\ UNCHANGED <<room, table, txn, joined, cursor, seen, answered, marks, hurried>>

\* joinChatRoom: the room is read, the socket added, and the client told.
Join(m) ==
    /\ socket[m] # None /\ ~joined[m] /\ room # "gone"
    /\ joined' = [joined EXCEPT ![m] = TRUE]
    /\ UNCHANGED <<room, table, txn, requests, socket, cursor, seen, answered, marks, hurried>>

\* What a client that no longer follows the room will ask when it is back:
\* the history from the newest message, or what came after its last one.
Unfollow(m) ==
    /\ joined' = [joined EXCEPT ![m] = FALSE]
    /\ cursor' = [cursor EXCEPT ![m] =
                    CASE ~CatchesUp -> FromTop
                      [] CatchesUp /\ @ = Whole -> [way |-> "after", id |-> Max(seen[m] \union {0})]
                      [] OTHER -> @]

\* leaveChatRoom.
Leave(m) ==
    /\ joined[m]
    /\ Unfollow(m)
    /\ UNCHANGED <<room, table, txn, requests, socket, seen, answered, marks, hurried>>

Disconnect(m) ==
    /\ socket[m] # None
    /\ socket' = [socket EXCEPT ![m] = None]
    /\ Unfollow(m)
    /\ UNCHANGED <<room, table, txn, requests, seen, answered, marks, hurried>>

\* getMessages: the newest PageSize messages, before an id if one is given,
\* or the oldest ones after an id.
\* Mutant: the message next to the one named is left out.
OlderByOne(c) == {i \in rows : i + 1 < c}
Older(c) == {i \in rows : i < c}
Newer(c) == {i \in rows : i > c}
Newest(S) == {i \in S : Cardinality({j \in S : j > i}) < PageSize}
Oldest(S) == {i \in S : Cardinality({j \in S : j < i}) < PageSize}

\* The client asks page after page until one is not full.
GetMessages(m) ==
    LET c == cursor[m]
        page == IF c.way = "after" THEN Oldest(Newer(c.id)) ELSE Newest(Older(c.id))
    IN
    /\ joined[m] /\ c # Whole /\ room # "gone"
    /\ seen' = [seen EXCEPT ![m] = @ \union page]
    /\ cursor' = [cursor EXCEPT ![m] =
                    IF Cardinality(page) < PageSize THEN Whole
                    ELSE [c EXCEPT !.id = IF c.way = "after" THEN Max(page) ELSE Min(page)]]
    /\ UNCHANGED <<room, table, txn, requests, socket, joined, answered, marks, hurried>>

Next ==
    \/ \E h \in Handlers, m \in Members, p \in Processes :
         Send(h, m, p) \/ MarkFind(h, m, p) \/ DeleteFind(h, m, p)
    \/ \E h \in Handlers :
         \/ Insert(h) \/ Commit(h) \/ EmitMessageCreated(h) \/ MarkAsRead(h)
         \/ DeleteMessages(h) \/ DeleteRoom(h) \/ Interrupt(h)
    \/ Close
    \/ \E m \in Members, p \in Processes : Connect(m, p)
    \/ \E m \in Members : Join(m) \/ Leave(m) \/ Disconnect(m) \/ GetMessages(m)

Spec == Init /\ [][Next]_vars

-----------------------------------------------------------------------------
\* A client that has joined the room and read its history to the end shows
\* every message of the room that was answered: the events close the gap
\* between the pages and the messages that come in meanwhile.
FollowersSeeAll ==
    \A m \in Members :
        joined[m] /\ cursor[m] = Whole => (answered \intersect rows) \subseteq seen[m]

\* A message is marked as read only after its receiver was given it, though
\* the mark covers every message up to the one it names.  The two ways out: a
\* request that names no message reads everything there is, and a member who
\* sends on before the answer lets the earlier message be read unseen.
ReadWasSeen ==
    \A i \in answered, m \in Members :
        message[i].read /\ message[i].sender # m =>
            i \in seen[m] \union blind \union hurried

\* The updatedCounts add up to the messages that are read: no message is
\* counted twice by marks that overlap, and none is left out.
CountsAddUp == counted = Cardinality({i \in Ids : message[i].read})

\* A room that is there has every message that was answered: a deletion takes
\* the room with its messages or neither.
HistoryKept ==
    room # "gone" /\ (\A h \in Handlers : txn[h].stage \notin {"emptying", "removing"})
        => answered \subseteq rows

=============================================================================
