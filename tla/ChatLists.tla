------------------------------ MODULE ChatLists ------------------------------
(***************************************************************************)
(* The list of chat rooms that a member's client shows (chat.service.ts    *)
(* getChatRooms) and the events that keep it current: every change of a    *)
(* room is written, the room is touched so that it moves to the top, and   *)
(* chat:created, chat:updated or chat:deleted goes to the sockets of its   *)
(* members.  The list itself is read by one query for the rooms and two    *)
(* for each of them.                                                       *)
(*                                                                         *)
(* The client, which is external, reads the first page again when an event *)
(* came in since it last asked; its socket is served by the process that   *)
(* handles the requests (ChatMessages shows what happens otherwise).  The  *)
(* rooms are those of the member; what the others do in them is one of the *)
(* changes below, in the order of its statements.  Which status may follow *)
(* which is in module ChatRooms, page numbers above the first are left out.*)
(***************************************************************************)
EXTENDS Integers, FiniteSets, Sequences

CONSTANTS
    Rooms,       \* chat rooms of the member, each made once
    Handlers,    \* requests under way
    Statuses,
    FirstStatus, \* of a new room
    Final,       \* those a room is deleted in
    Limit,       \* entries of a page
    UnreadOnly,  \* whether the client asks for rooms with unread messages only
    MaxChanges,  \* bound on requests that change rooms
    MaxConnects, \* bound on connections
    None

VARIABLES
    room,        \* per room: its row and its messages
    clock,       \* updated_at and ids of messages, in the order they are given
    txn,         \* per handler: the step it is at, its room and its change
    changes,     \* requests so far
    connected,   \* whether the client has a socket; how often it connected
    stale,       \* whether the client was told of a change since it last asked
    fetch,       \* the request for the list: what it has read so far
    shown,       \* the list the client shows
    unannounced  \* whether a change was written without its event

vars == <<room, clock, txn, changes, connected, stale, fetch, shown, unannounced>>

NoRoom == [there |-> FALSE, updated |-> 0, last |-> 0, unread |-> 0, status |-> None]
NoRooms == [r \in Rooms |-> NoRoom]
Idle == [stage |-> "idle", room |-> None, op |-> None]
Resting == [rooms |-> None, last |-> <<>>, unread |-> <<>>]

Item == [room: Rooms, status: Statuses \union {None}, last: Nat, unread: Nat]

TypeOK ==
    /\ room \in [Rooms -> [there: BOOLEAN, updated: Nat, last: Nat, unread: Nat,
                           status: Statuses \union {None}]]
    /\ \A r \in Rooms : ~room[r].there => room[r].last = 0 /\ room[r].unread = 0
    /\ clock \in Nat
    /\ txn \in [Handlers -> [stage: {"idle", "writing", "removing", "touching", "emitting"},
                             room: Rooms \union {None},
                             op: {"create", "receive", "send", "status", "read", "delete", None}]]
    /\ changes \in 0..MaxChanges
    /\ connected \in [on: BOOLEAN, times: 0..MaxConnects]
    /\ stale \in BOOLEAN /\ unannounced \in BOOLEAN
    /\ shown \in Seq(Item)

\* A room that has come to its end already.
Earlier(s) == [there |-> TRUE, updated |-> 1, last |-> 1, unread |-> 0, status |-> s]

Init ==
    /\ \E r \in Rooms, s \in Final :
          room \in {[NoRooms EXCEPT ![r] = Earlier(s)], NoRooms}
    /\ clock = 1
    /\ txn = [h \in Handlers |-> Idle]
    /\ changes = 0
    /\ connected = [on |-> FALSE, times |-> 0]
    /\ stale = FALSE
    /\ fetch = Resting
    /\ shown = <<>>
    /\ unannounced = FALSE

-----------------------------------------------------------------------------
(* The requests that change a room.                                        *)

client == <<connected, fetch, shown>>

Goto(h, stage) == txn' = [txn EXCEPT ![h].stage = stage]
Done(h) == txn' = [txn EXCEPT ![h] = Idle]

\* A request finds its room, in a status that allows it.
Begin(h, r, op) ==
    /\ changes < MaxChanges /\ changes' = changes + 1
    /\ txn[h] = Idle
    /\ IF op = "create"
       THEN room[r].updated = 0 /\ \A g \in Handlers : txn[g].room # r
       ELSE room[r].there
    /\ op = "delete" => room[r].status \in Final
    /\ op = "status" => room[r].status \notin Final
    /\ txn' = [txn EXCEPT ![h] = [stage |-> "writing", room |-> r, op |-> op]]
    /\ UNCHANGED <<room, clock, client, stale, unannounced>>

\* What the statement of each change makes of the room at time t.
After(row, op, s, t) ==
    CASE op = "create"  -> [there |-> TRUE, updated |-> t, last |-> t, unread |-> 0,
                            status |-> FirstStatus]
      [] op = "receive" -> [row EXCEPT !.last = t, !.unread = @ + 1]
      [] op = "send"    -> [row EXCEPT !.last = t]
      [] op = "status"  -> [row EXCEPT !.status = s]
      [] op = "read"    -> [row EXCEPT !.unread = 0]
      [] op = "delete"  -> [row EXCEPT !.last = 0, !.unread = 0]

\* What comes next: marks as read do not touch the room.
Following(op) ==
    CASE op = "read" -> "emitting" [] op = "delete" -> "removing" [] OTHER -> "touching"

\* The change is written.  A message whose room is gone cannot be; other
\* changes find nothing to write to.
Write(h, s) ==
    LET t == txn[h] IN
    /\ t.stage = "writing"
    /\ t.op = "status" <=> s # None
    /\ IF t.op = "create" \/ room[t.room].there
       THEN /\ room' = [room EXCEPT ![t.room] = After(@, t.op, s, clock + 1)]
            /\ clock' = clock + 1
            /\ Goto(h, Following(t.op))
       ELSE /\ Done(h)
            /\ UNCHANGED <<room, clock>>
    /\ UNCHANGED <<changes, client, stale, unannounced>>

\* deleteChatRoom: the row goes after its messages, unless there are new ones.
RemoveRoom(h) ==
    LET r == txn[h].room IN
    /\ txn[h].stage = "removing"
    /\ IF room[r].last = 0
       THEN /\ room' = [room EXCEPT ![r] = [NoRoom EXCEPT !.updated = room[r].updated]]
            /\ Goto(h, "emitting")
            /\ UNCHANGED unannounced
       ELSE /\ Done(h)
            /\ unannounced' = TRUE
            /\ UNCHANGED room
    /\ UNCHANGED <<clock, changes, client, stale>>

\* touchChatRoom.
Touched(r) ==
    IF room[r].there THEN [room EXCEPT ![r].updated = clock + 1] ELSE room

Touch(h) ==
    /\ txn[h].stage = "touching"
    /\ room' = Touched(txn[h].room)
    /\ clock' = clock + 1
    /\ Goto(h, "emitting")
    /\ UNCHANGED <<changes, client, stale, unannounced>>

\* Mutant: marks as read are told to the room only.
Announced(op) == op # "read"
EmitToRoom(h) ==
    /\ txn[h].stage = "emitting"
    /\ stale' = (stale \/ (connected.on /\ Announced(txn[h].op)))
    /\ Done(h)
    /\ UNCHANGED <<room, clock, changes, client, unannounced>>

\* emitChatCreated, emitChatUpdated, emitChatDeleted: the member's sockets.
Emit(h) ==
    /\ txn[h].stage = "emitting"
    /\ stale' = (stale \/ connected.on)
    /\ Done(h)
    /\ UNCHANGED <<room, clock, changes, client, unannounced>>

\* A handler ends with an error; what it has written so far stays.
Interrupt(h) ==
    /\ txn[h] # Idle
    /\ unannounced' = (unannounced \/ txn[h].stage # "writing")
    /\ Done(h)
    /\ UNCHANGED <<room, clock, changes, client, stale>>

-----------------------------------------------------------------------------
(* The client.                                                             *)

\* handleConnection puts the socket into the member's set before it says that
\* the connection is ready; then the client asks for the list.
Connect ==
    /\ ~connected.on /\ connected.times < MaxConnects
    /\ connected' = [on |-> TRUE, times |-> connected.times + 1]
    /\ stale' = TRUE
    /\ UNCHANGED <<room, clock, txn, changes, fetch, shown, unannounced>>

Disconnect ==
    /\ connected.on
    /\ connected' = [connected EXCEPT !.on = FALSE]
    /\ fetch' = Resting
    /\ UNCHANGED <<room, clock, txn, changes, stale, shown, unannounced>>

-----------------------------------------------------------------------------
(* getChatRooms.                                                           *)

Matching == {r \in Rooms : room[r].there /\ (UnreadOnly => room[r].unread > 0)}
Later(r, s) == room[r].updated > room[s].updated

\* The first page: the rooms that were updated last, last one first.
Before(r) == {s \in Matching : Later(s, r)}
Page ==
    [i \in 1..(IF Cardinality(Matching) < Limit THEN Cardinality(Matching) ELSE Limit) |->
        CHOOSE r \in Matching : Cardinality(Before(r)) = i - 1]

FetchRooms ==
    /\ connected.on /\ stale /\ fetch = Resting
    /\ fetch' = [Resting EXCEPT !.rooms =
                    [i \in DOMAIN Page |-> [room |-> Page[i], status |-> room[Page[i]].status]]]
    /\ stale' = FALSE
    /\ unannounced' = FALSE
    /\ UNCHANGED <<room, clock, txn, changes, connected, shown>>

Under(entries, i, value) == [j \in DOMAIN entries \union {i} |-> IF j = i THEN value ELSE entries[j]]

\* mapChatRoomListItem, for all rooms of the page at once: the last message ...
FetchLast(i) ==
    /\ fetch # Resting /\ i \in DOMAIN fetch.rooms \ DOMAIN fetch.last
    /\ fetch' = [fetch EXCEPT !.last = Under(@, i, room[fetch.rooms[i].room].last)]
    /\ UNCHANGED <<room, clock, txn, changes, connected, stale, shown, unannounced>>

\* ... and then the number of unread ones.
FetchUnread(i) ==
    /\ fetch # Resting /\ i \in DOMAIN fetch.last \ DOMAIN fetch.unread
    /\ fetch' = [fetch EXCEPT !.unread = Under(@, i, room[fetch.rooms[i].room].unread)]
    /\ UNCHANGED <<room, clock, txn, changes, connected, stale, shown, unannounced>>

ListItem(r, status, last, unread) ==
    [room |-> r, status |-> status, last |-> last, unread |-> unread]

FetchDone ==
    /\ fetch # Resting /\ DOMAIN fetch.unread = DOMAIN fetch.rooms
    /\ shown' = [i \in DOMAIN fetch.rooms |->
                    ListItem(fetch.rooms[i].room, fetch.rooms[i].status,
                             fetch.last[i], fetch.unread[i])]
    /\ fetch' = Resting
    /\ UNCHANGED <<room, clock, txn, changes, connected, stale, unannounced>>

Ops == {"create", "receive", "send", "status", "read", "delete"}

Step(h) == (\E s \in Statuses \union {None} : Write(h, s)) \/ RemoveRoom(h) \/ Touch(h) \/ Emit(h)
Fetching == FetchRooms \/ FetchDone \/ \E i \in 1..Limit : FetchLast(i) \/ FetchUnread(i)

Next ==
    \/ \E h \in Handlers :
          \/ \E r \in Rooms, op \in Ops : Begin(h, r, op)
          \/ Step(h) \/ Interrupt(h)
    \/ Connect \/ Disconnect
    \/ Fetching

\* A handler goes on, and a client that was told of a change asks again.
Spec == Init /\ [][Next]_vars /\ WF_vars(Fetching) /\ \A h \in Handlers : WF_vars(Step(h))

-----------------------------------------------------------------------------
\* The list as it should be.
Current == [i \in DOMAIN Page |-> LET r == Page[i] IN
               ListItem(r, room[r].status, room[r].last, room[r].unread)]

\* A connected client that was told of nothing new shows the rooms in the
\* right order, with their last messages and the right numbers, once the
\* requests have ended: each of them touched before it told, and no change
\* that came while the list was read is missed.
ListCurrent ==
    (connected.on /\ ~stale /\ fetch = Resting /\ ~unannounced
        /\ \A h \in Handlers : txn[h] = Idle) => shown = Current

\* A client that stays connected ends up with the current list, unless a
\* change was written by a request that failed before it could tell.
Converges == <>[](connected.on /\ ~unannounced => shown = Current)
=============================================================================
