------------------------------ MODULE ChatRooms ------------------------------
(***************************************************************************)
(* The commission a chat room carries from request to review               *)
(* (chat.service.ts, review.service.ts createReview).                      *)
(*                                                                         *)
(* Except for the payment, a handler works on the room like this:          *)
(*                                                                         *)
(*   const chatRoom = await this.loadChatRoomWithRelations(id);            *)
(*   if (chatRoom.status !== ...) throw ...;                               *)
(*   chatRoom.status = ...;                                                *)
(*   await this.chatRoomRepository.save(chatRoom);                         *)
(*   await this.createSystemMessage(...);                                  *)
(*                                                                         *)
(* with no transaction around it and no lock.  save() reads the row again, *)
(* compares every column with the entity in memory and updates those that  *)
(* differ, or inserts the entity when the row is gone.  So a handler is    *)
(* four steps, other handlers in between: load, compare, write, announce.  *)
(* payChatRoom locks the room and both wallets and is one.                 *)
(*                                                                         *)
(* Of the entity, the columns the checks depend on are kept: description,  *)
(* estimated_at and the reference images are left out.                     *)
(***************************************************************************)
EXTENDS WalletStore, FiniteSets

CONSTANTS
    Rooms,         \* chat_room rows that may come to exist
    Requester,     \* Requester[r], Artist[r]: the two members of the room
    Artist,
    Conversation,  \* Conversation[r]: post, requester and artist together
    Prices,        \* prices an artist or a requester names
    Revisions,     \* feedbackCount values an artist offers
    OtherMoves     \* ledger rows other services post for these members

ASSUME RoomAssumption ==
    /\ Rooms \subseteq SourceIds
    /\ None \notin Rooms
    /\ Requester \in [Rooms -> Members] /\ Artist \in [Rooms -> Members]
    /\ \A r \in Rooms : Requester[r] # Artist[r]
    /\ DOMAIN Conversation = Rooms
    /\ Prices \subseteq Nat \ {0} /\ None \notin Int
    /\ Revisions \subseteq Nat
    /\ OtherMoves \subseteq {e \in Entry : e.source # "CHAT_PAYMENT"}

VARIABLES
    rooms,     \* the chat_room table: a row, or no row yet, or no row any more
    messages,  \* whether a room has message rows
    reviews,   \* number of review rows of a room
    txn        \* per worker: the handler it runs and the entity it holds

roomVars == <<rooms, messages, reviews, txn>>
vars == <<storeVars, roomVars>>

Working == {"PAID", "IN_PROGRESS", "DRAFT_SENT", "COMPLETED", "REVIEWED"}
RoomStatus == {"REQUESTED", "ACCEPTED", "CANCELLED"} \union Working

Room == [status: RoomStatus, price: Prices, paidAmount: Prices \union {None},
         feedbackCount: Nat, feedbackUsed: Nat]
Columns == {"status", "price", "paidAmount", "feedbackCount", "feedbackUsed"}
NoRoom == [status |-> "NONE"]
Deleted == [status |-> "DELETED"]

Exists(r) == rooms[r] \notin {NoRoom, Deleted}

\* The handlers that load, change and save a room.
Edits == {"update", "accept", "reject", "cancel", "reprice",
          "start", "draft", "revise", "confirm"}

Stages == {"idle", "loaded", "updating", "inserting", "announcing",
           "creating", "reviewing", "reviewed", "deleting", "emptied"}

Idle == [stage |-> "idle", op |-> None, room |-> None, entity |-> NoRoom,
         columns |-> {}]

Transaction == [stage: Stages,
                op: Edits \union {"create", "review", "delete", None},
                room: Rooms \union {None},
                entity: Room \union {NoRoom},
                columns: SUBSET Columns]

TypeOK ==
    /\ StoreTypeOK
    /\ rooms \in [Rooms -> Room \union {NoRoom, Deleted}]
    /\ messages \in [Rooms -> BOOLEAN]
    /\ reviews \in [Rooms -> Nat]
    /\ txn \in [Workers -> Transaction]
    /\ \A w \in Workers : txn[w].stage # "idle" => txn[w].room # None

Init ==
    /\ StoreInit
    /\ rooms = [r \in Rooms |-> NoRoom]
    /\ messages = [r \in Rooms |-> FALSE]
    /\ reviews = [r \in Rooms |-> 0]
    /\ txn = [w \in Workers |-> Idle]

-----------------------------------------------------------------------------
Goto(w, stage) ==
    txn' = [txn EXCEPT ![w] = [Idle EXCEPT !.stage = stage, !.room = txn[w].room]]

Finish(w) == txn' = [txn EXCEPT ![w] = Idle]

AddMessage(r) == messages' = [messages EXCEPT ![r] = TRUE]

Start(w, stage, op, r, entity) ==
    /\ txn[w].stage = "idle"
    /\ txn' = [txn EXCEPT ![w] = [Idle EXCEPT !.stage = stage, !.op = op, !.room = r,
                                              !.entity = entity]]

\* createChatRoom: look for a room of the same post and requester first ...
CreateBegin(w, r, price) ==
    /\ rooms[r] = NoRoom
    /\ \A s \in Rooms : Conversation[s] = Conversation[r] => ~Exists(s)
    /\ \A v \in Workers : txn[v].op = "create" => txn[v].room # r
    /\ Start(w, "creating", "create", r,
             [status |-> "REQUESTED", price |-> price, paidAmount |-> None,
              feedbackCount |-> 1, feedbackUsed |-> 0])
    /\ UNCHANGED <<storeVars, rooms, messages, reviews>>

\* ... then insert it, and announce it with the request card.
CreateInsert(w) ==
    /\ txn[w].stage = "creating"
    /\ rooms' = [rooms EXCEPT ![txn[w].room] = txn[w].entity]
    /\ Goto(w, "announcing")
    /\ UNCHANGED <<storeVars, messages, reviews>>

-----------------------------------------------------------------------------
\* The statuses a handler accepts, and the one it leaves (update and reprice
\* leave the status alone).
From == [update |-> {"REQUESTED"},
         accept |-> {"REQUESTED"},
         reject |-> {"REQUESTED"},
         cancel |-> {"REQUESTED", "ACCEPTED"},
         reprice |-> {"REQUESTED", "ACCEPTED"},
         start |-> {"PAID"},
         draft |-> {"IN_PROGRESS"},
         revise |-> {"DRAFT_SENT"},
         confirm |-> {"DRAFT_SENT"}]

Target == [accept |-> "ACCEPTED", reject |-> "CANCELLED", cancel |-> "CANCELLED",
           start |-> "IN_PROGRESS", draft |-> "DRAFT_SENT",
           revise |-> "IN_PROGRESS", confirm |-> "COMPLETED"]

\* Mutant: work starts on an accepted room.
AllowedUnpaid(op, room) ==
    /\ room.status \in From[op] \union (IF op = "start" THEN {"ACCEPTED"} ELSE {})
    /\ op = "revise" => room.feedbackUsed < room.feedbackCount

\* The check of a handler on the room it has loaded.
Allowed(op, room) ==
    /\ room.status \in From[op]
    /\ op = "revise" => room.feedbackUsed < room.feedbackCount

\* What the handler makes of the entity; p and n come from the request of
\* accept and reprice.
Edited(op, room, p, n) ==
    LET offer == [room EXCEPT !.price = p, !.feedbackCount = n] IN
    CASE op = "update" -> room
      [] op = "reprice" -> offer
      [] op = "accept" -> [offer EXCEPT !.status = Target[op]]
      [] op = "revise" -> [room EXCEPT !.status = Target[op], !.feedbackUsed = @ + 1]
      [] OTHER -> [room EXCEPT !.status = Target[op]]

Load(w, r, op) ==
    /\ Exists(r)
    /\ Allowed(op, rooms[r])
    /\ \E p \in Prices, n \in Revisions :
          Start(w, "loaded", op, r, Edited(op, rooms[r], p, n))
    /\ UNCHANGED <<storeVars, rooms, messages, reviews>>

\* save(): the plain SELECT and the comparison.
Compare(w) ==
    LET r == txn[w].room
        entity == txn[w].entity
    IN
    /\ txn[w].stage = "loaded"
    /\ txn' = [txn EXCEPT
                 ![w].stage = IF Exists(r) THEN "updating" ELSE "inserting",
                 ![w].columns = IF Exists(r)
                                THEN {c \in Columns : rooms[r][c] # entity[c]}
                                ELSE Columns]
    /\ UNCHANGED <<storeVars, rooms, messages, reviews>>

\* save(): UPDATE of the columns that differed.  It affects no row, and raises
\* no error, when the room has been deleted since.
Update(w) ==
    LET r == txn[w].room IN
    /\ txn[w].stage = "updating"
    /\ rooms' = IF Exists(r)
                THEN [rooms EXCEPT ![r] =
                        [c \in Columns |-> IF c \in txn[w].columns
                                           THEN txn[w].entity[c] ELSE rooms[r][c]]]
                ELSE rooms
    /\ Goto(w, "announcing")
    /\ UNCHANGED <<storeVars, messages, reviews>>

\* save(): INSERT of a room whose row was gone; it fails when it is back.
Insert(w) ==
    LET r == txn[w].room IN
    /\ txn[w].stage = "inserting"
    /\ IF Exists(r)
       THEN rooms' = rooms /\ Finish(w)
       ELSE rooms' = [rooms EXCEPT ![r] = txn[w].entity] /\ Goto(w, "announcing")
    /\ UNCHANGED <<storeVars, messages, reviews>>

\* createSystemMessage and touchChatRoom.  The foreign key refuses a message
\* of a deleted room.
Announce(w) ==
    LET r == txn[w].room IN
    /\ txn[w].stage = "announcing"
    /\ IF Exists(r) THEN AddMessage(r) ELSE messages' = messages
    /\ Finish(w)
    /\ UNCHANGED <<storeVars, rooms, reviews>>

-----------------------------------------------------------------------------
ChatEntry(m, type, r, coins) ==
    [member |-> m, type |-> type, source |-> "CHAT_PAYMENT", id |-> r, coins |-> coins]

HasTransaction(r, m, type) == Posted(m, type, "CHAT_PAYMENT", r)

\* Mutant: neither the balance nor the ledger is looked at.
TransferBlind(r, price) ==
    LET from == Requester[r]
        to == Artist[r]
    IN
    /\ WalletFree(from) /\ WalletFree(to)
    /\ balance' = [balance EXCEPT ![from] = Coins(from) - price, ![to] = Coins(to) + price]
    /\ ledger' = ledger \union {ChatEntry(from, "USE", r, -price),
                                ChatEntry(to, "EARN", r, price)}
    /\ ledgerTotal' = [ledgerTotal EXCEPT ![from] = @ - price, ![to] = @ + price]
    /\ UNCHANGED walletLock

\* The two wallet saves and ledger rows of a payment.  The wallets are locked
\* before the transaction's first plain SELECT, which sees the locked balances.
Transfer(r, price) ==
    LET from == Requester[r]
        to == Artist[r]
    IN
    /\ WalletFree(from) /\ WalletFree(to)
    /\ balance[from] # NoWallet
    /\ balance[from] >= price
    /\ ~HasTransaction(r, from, "USE") /\ ~HasTransaction(r, to, "EARN")
    /\ balance' = [balance EXCEPT ![from] = @ - price, ![to] = Coins(to) + price]
    /\ ledger' = ledger \union {ChatEntry(from, "USE", r, -price),
                                ChatEntry(to, "EARN", r, price)}
    /\ ledgerTotal' = [ledgerTotal EXCEPT ![from] = @ - price, ![to] = @ + price]
    /\ UNCHANGED walletLock

\* Mutant: paid_amount is not written.
PayNoAmount(w, r) ==
    /\ txn[w].stage = "idle"
    /\ Exists(r)
    /\ rooms[r].status = "ACCEPTED"
    /\ Transfer(r, rooms[r].price)
    /\ rooms' = [rooms EXCEPT ![r].status = "PAID"]
    /\ AddMessage(r)
    /\ UNCHANGED <<reviews, txn>>

\* payChatRoom, with the row locks of the room and of both wallets.
Pay(w, r) ==
    /\ txn[w].stage = "idle"
    /\ Exists(r)
    /\ rooms[r].status = "ACCEPTED"
    /\ Transfer(r, rooms[r].price)
    /\ rooms' = [rooms EXCEPT ![r].status = "PAID", ![r].paidAmount = rooms[r].price]
    /\ AddMessage(r)
    /\ UNCHANGED <<reviews, txn>>

-----------------------------------------------------------------------------
\* createReview: check the room and that there is no review yet, save the
\* review, then set the status of the room whatever it is by now.
ReviewBegin(w, r) ==
    /\ Exists(r)
    /\ rooms[r].status = "COMPLETED"
    /\ reviews[r] = 0
    /\ Start(w, "reviewing", "review", r, NoRoom)
    /\ UNCHANGED <<storeVars, rooms, messages, reviews>>

ReviewSave(w) ==
    /\ txn[w].stage = "reviewing"
    /\ reviews' = [reviews EXCEPT ![txn[w].room] = @ + 1]
    /\ Goto(w, "reviewed")
    /\ UNCHANGED <<storeVars, rooms, messages>>

ReviewMark(w) ==
    LET r == txn[w].room IN
    /\ txn[w].stage = "reviewed"
    /\ rooms' = IF Exists(r) THEN [rooms EXCEPT ![r].status = "REVIEWED"] ELSE rooms
    /\ Goto(w, "announcing")
    /\ UNCHANGED <<storeVars, messages, reviews>>

\* Mutant: a completed room can be deleted before its review.
DeleteBeginCompleted(w, r) ==
    /\ Exists(r)
    /\ rooms[r].status \in {"CANCELLED", "COMPLETED", "REVIEWED"}
    /\ Start(w, "deleting", "delete", r, NoRoom)
    /\ UNCHANGED <<storeVars, rooms, messages, reviews>>

\* deleteChatRoom: check the status, delete the messages, delete the room.
DeleteBegin(w, r) ==
    /\ Exists(r)
    /\ rooms[r].status \in {"CANCELLED", "REVIEWED"}
    /\ Start(w, "deleting", "delete", r, NoRoom)
    /\ UNCHANGED <<storeVars, rooms, messages, reviews>>

DeleteMessages(w) ==
    /\ txn[w].stage = "deleting"
    /\ messages' = [messages EXCEPT ![txn[w].room] = FALSE]
    /\ Goto(w, "emptied")
    /\ UNCHANGED <<storeVars, rooms, reviews>>

\* The foreign key refuses the deletion when a message arrived meanwhile.
DeleteRoom(w) ==
    LET r == txn[w].room IN
    /\ txn[w].stage = "emptied"
    /\ rooms' = IF messages[r] THEN rooms ELSE [rooms EXCEPT ![r] = Deleted]
    /\ Finish(w)
    /\ UNCHANGED <<storeVars, messages, reviews>>

\* sendMessage
Send(w, r) ==
    /\ txn[w].stage = "idle"
    /\ Exists(r)
    /\ AddMessage(r)
    /\ UNCHANGED <<storeVars, rooms, reviews, txn>>

\* A database error or a crash: what was saved stays saved.
Abort(w) ==
    /\ txn[w].stage # "idle"
    /\ Finish(w)
    /\ UNCHANGED <<storeVars, rooms, messages, reviews>>

MoveElsewhere(e) ==
    /\ WalletFree(e.member)
    /\ Coins(e.member) + e.coins >= 0
    /\ Post(e, NoSnapshot)
    /\ UNCHANGED <<walletLock, roomVars>>

-----------------------------------------------------------------------------
Begin(w, r) ==
    \/ \E p \in Prices : CreateBegin(w, r, p)
    \/ \E op \in Edits : Load(w, r, op)
    \/ ReviewBegin(w, r)
    \/ DeleteBegin(w, r)
    \/ Pay(w, r)
    \/ Send(w, r)

Advance(w) ==
    \/ CreateInsert(w)
    \/ Compare(w) \/ Update(w) \/ Insert(w) \/ Announce(w)
    \/ ReviewSave(w) \/ ReviewMark(w)
    \/ DeleteMessages(w) \/ DeleteRoom(w)

Next ==
    \/ \E w \in Workers : (\E r \in Rooms : Begin(w, r)) \/ Advance(w) \/ Abort(w)
    \/ \E e \in OtherMoves : MoveElsewhere(e)

Spec == Init /\ [][Next]_vars

-----------------------------------------------------------------------------
\* What holds however the handlers interleave.

\* A room has moved on to work only if its coins have moved: no stale save
\* brings a room to a working status it was not paid for.
WorkWasPaid ==
    \A r \in Rooms : rooms[r].status \in Working => HasTransaction(r, Requester[r], "USE")

\* A payment moves the coins once and whole: the USE row of the requester and
\* the EARN row of the artist come together and cancel out, and there is one
\* of each whatever became of the room.
PaymentsBalance ==
    \A r \in Rooms :
        LET paid == {e \in ledger : e.source = "CHAT_PAYMENT" /\ e.id = r} IN
        \/ paid = {}
        \/ \E p \in Prices : paid = {ChatEntry(Requester[r], "USE", r, -p),
                                     ChatEntry(Artist[r], "EARN", r, p)}

\* The audit finds no mismatch: a payment locks its rows before its first plain
\* SELECT, so its snapshot shows what it has locked.
LedgerMatchesBalance == \A m \in Members : Coins(m) = ledgerTotal[m]

\* Payments implement the abstract ledger, two rows to a commit: no overdraft, no
\* row twice, no half of a payment, and nothing hidden behind a snapshot.
Accounts == INSTANCE Ledger WITH rows <- ledger,
                                 read <- [m \in Members |-> {}]

LedgerRefined == Accounts!Spec

\* What the comments over the handlers say and overlapping handlers break.

\* "요청자 취소 (REQUESTED / ACCEPTED → CANCELLED)": a paid room is not cancelled.
PaidRoomsAreNotCancelled ==
    [][\A r \in Rooms : rooms[r].status \in Working => rooms'[r].status # "CANCELLED"]_vars

\* "견적/금액 수정 요청 (REQUESTED / ACCEPTED 상태 유지)": the status is kept.
PriceChangeKeepsStatus ==
    [][\A w \in Workers : txn[w].stage = "updating" /\ txn[w].op = "reprice" /\ Update(w) =>
          rooms'[txn[w].room].status = rooms[txn[w].room].status]_vars
=============================================================================
