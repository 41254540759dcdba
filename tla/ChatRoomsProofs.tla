-------------------------- MODULE ChatRoomsProofs --------------------------
(***************************************************************************)
(* Theorems about ChatRooms, for every set of members, rooms, prices and   *)
(* overlapping handlers; of what they promise when those of one            *)
(* conversation do not overlap; and about the summary of reviews, for      *)
(* every set of rooms, keywords and requests.                              *)
(***************************************************************************)
EXTENDS OrderlyRooms, WalletStoreProofs, FiniteSetTheorems, FunctionTheorems

\* The stages in which a handler holds an entity it will save.
Holding == {"creating", "loaded", "updating", "inserting"}

Paid(r) == HasTransaction(r, Requester[r], "USE")

HoldsRoom(w) == txn[w].stage \in Holding => txn[w].entity \in Room

\* What a handler holds is as justified as what the table holds: a stale
\* entity of a working status was loaded when its payment had been made.
HeldWorkWasPaid(w) ==
    /\ txn[w].stage \in Holding /\ txn[w].entity.status \in Working => Paid(txn[w].room)
    /\ txn[w].stage \in {"reviewing", "reviewed"} => Paid(txn[w].room)

RoomInv ==
    /\ TypeOK
    /\ WorkWasPaid
    /\ \A w \in Workers : HoldsRoom(w) /\ HeldWorkWasPaid(w)

MoneyInv ==
    /\ PaymentsBalance
    /\ LedgerMatchesBalance
    /\ \A m \in Members : Coins(m) >= 0

-----------------------------------------------------------------------------
\* The steps of the rooms alone, of the wallet and of other services.
QuietStep == UNCHANGED storeVars

\* Coins move in payments and elsewhere only.
LEMMA StepKinds ==
    ASSUME [Next]_vars
    PROVE  \/ QuietStep
           \/ \E w \in Workers, r \in Rooms : Pay(w, r)
           \/ \E e \in OtherMoves : MoveElsewhere(e)
  <1>1. ASSUME NEW w \in Workers, NEW r \in Rooms, Begin(w, r), ~Pay(w, r)
        PROVE  QuietStep
    BY <1>1 DEF Begin, CreateBegin, Load, ReviewBegin, DeleteBegin, Send, QuietStep
  <1>2. ASSUME NEW w \in Workers, Advance(w) \/ Abort(w)
        PROVE  QuietStep
    BY <1>2 DEF Advance, Abort, CreateInsert, Compare, Update, Insert, Announce,
                ReviewSave, ReviewMark, DeleteMessages, DeleteRoom, QuietStep
  <1>3. CASE UNCHANGED vars
    BY <1>3 DEF vars, QuietStep
  <1>4. QED
    BY <1>1, <1>2, <1>3 DEF Next

\* An existing room is a room.
LEMMA ExistingRoom ==
    ASSUME TypeOK, NEW r \in Rooms, Exists(r)
    PROVE  rooms[r] \in Room
  BY DEF TypeOK, Exists

\* A busy handler names a room.
LEMMA BusyRoom ==
    ASSUME TypeOK, NEW w \in Workers, txn[w].stage # "idle"
    PROVE  txn[w].room \in Rooms
  BY DEF TypeOK, Transaction

-----------------------------------------------------------------------------
\* The ledger never forgets a payment.
LEMMA PaidForEver ==
    ASSUME ledger \subseteq ledger', NEW r \in Rooms, Paid(r)
    PROVE  Paid(r)'
  BY DEF Paid, HasTransaction, Posted, DedupKey

\* The ledger only grows.
LEMMA LedgerGrows ==
    ASSUME [Next]_vars
    PROVE  ledger \subseteq ledger'
  BY StepKinds, PostAddsOne DEF QuietStep, storeVars, Pay, Transfer, MoveElsewhere

\* The store keeps its types.
LEMMA StoreTypes ==
    ASSUME TypeOK, [Next]_vars
    PROVE  StoreTypeOK'
  <1>1. CASE QuietStep
    BY <1>1 DEF QuietStep, storeVars, TypeOK, StoreTypeOK
  <1>2. ASSUME NEW w \in Workers, NEW r \in Rooms, Pay(w, r)
        PROVE  StoreTypeOK'
    <2>1. /\ Requester[r] \in Members /\ Artist[r] \in Members
          /\ r \in SourceIds
      BY RoomAssumption
    <2>2. rooms[r].price \in Nat
      BY <1>2, ExistingRoom, RoomAssumption DEF Pay, Room
    <2>3. \A p \in Nat : /\ ChatEntry(Requester[r], "USE", r, -p) \in Entry
                         /\ ChatEntry(Artist[r], "EARN", r, p) \in Entry
      BY <2>1 DEF ChatEntry, Entry, TxTypes, SourceTypes
    <2>4. Transfer(r, rooms[r].price)
      BY <1>2 DEF Pay
    <2>5. ledger' \subseteq Entry
      BY <2>2, <2>3, <2>4 DEF Transfer, TypeOK, StoreTypeOK
    <2>6. /\ balance' \in [Members -> Int \union {NoWallet}]
          /\ ledgerTotal' \in [Members -> Int]
      BY <2>1, <2>2, <2>4 DEF Transfer, Coins, TypeOK, StoreTypeOK
    <2>7. QED
      BY <2>4, <2>5, <2>6 DEF Transfer, TypeOK, StoreTypeOK
  <1>3. ASSUME NEW e \in OtherMoves, MoveElsewhere(e)
        PROVE  StoreTypeOK'
    <2>1. e \in Entry
      BY RoomAssumption
    <2>2. QED
      BY <1>3, <2>1, PostTypes DEF MoveElsewhere, TypeOK, StoreTypeOK
  <1>4. QED
    BY <1>1, <1>2, <1>3, StepKinds

-----------------------------------------------------------------------------
\* Types of rooms and handlers.

\* save() gives a row each of whose columns is one of a room's.
LEMMA MergedRoom ==
    ASSUME NEW a \in Room, NEW b \in Room, NEW columns
    PROVE  /\ [c \in Columns |-> IF c \in columns THEN b[c] ELSE a[c]] \in Room
           /\ [c \in Columns |-> IF c \in columns THEN b[c] ELSE a[c]].status
                  \in {a.status, b.status}
  BY DEF Room, Columns

\* A room has none of the markers' statuses.
LEMMA RoomIsNoMarker ==
    ASSUME NEW a \in Room
    PROVE  a # NoRoom /\ a # Deleted /\ a.status \in RoomStatus
  BY DEF Room, RoomStatus, Working, NoRoom, Deleted

\* What a handler makes of a room it may edit is a room, working only if the
\* room was.
LEMMA EditedRoom ==
    ASSUME NEW a \in Room, NEW op \in Edits, Allowed(op, a),
           NEW p \in Prices, NEW n \in Revisions
    PROVE  /\ Edited(op, a, p, n) \in Room
           /\ Edited(op, a, p, n).status \in Working => a.status \in Working
  <1>1. n \in Nat
    BY RoomAssumption
  <1>2. CASE op = "update"
    BY <1>2 DEF Edited
  <1>3. CASE op = "reprice"
    BY <1>1, <1>3 DEF Edited, Room
  <1>4. CASE op = "accept"
    <2>1. Edited(op, a, p, n) =
            [[a EXCEPT !.price = p, !.feedbackCount = n] EXCEPT !.status = "ACCEPTED"]
      BY <1>4 DEF Edited, Target
    <2>2. QED
      BY <1>1, <2>1 DEF Room, RoomStatus, Working
  <1>5. CASE op = "revise"
    <2>1. Edited(op, a, p, n) =
            [a EXCEPT !.status = "IN_PROGRESS", !.feedbackUsed = a.feedbackUsed + 1]
      BY <1>5 DEF Edited, Target
    <2>2. a.status = "DRAFT_SENT"
      BY <1>5 DEF Allowed, From
    <2>3. a.feedbackUsed + 1 \in Nat
      BY DEF Room
    <2>4. a.status \in Working
      BY <2>2 DEF Working
    <2>5. Edited(op, a, p, n) \in Room
      BY <2>1, <2>3 DEF Room, RoomStatus, Working
    <2>6. QED
      BY <2>4, <2>5
  <1>6. CASE op \in {"reject", "cancel"}
    BY <1>6 DEF Edited, Target, Room, RoomStatus, Working
  <1>7. CASE op \in {"start", "draft", "confirm"}
    BY <1>7 DEF Edited, Allowed, From, Target, Room, RoomStatus, Working
  <1>8. QED
    BY <1>2, <1>3, <1>4, <1>5, <1>6, <1>7 DEF Edits

\* What the beginning of a handler leaves in its record.
LEMMA StartTypes ==
    ASSUME TypeOK, NEW w \in Workers, NEW stage \in Stages \ {"idle"},
           NEW op \in Edits \union {"create", "review", "delete"}, NEW r \in Rooms,
           NEW entity \in Room \union {NoRoom}, Start(w, stage, op, r, entity)
    PROVE  /\ txn' \in [Workers -> Transaction]
           /\ \A v \in Workers : txn'[v].stage # "idle" => txn'[v].room # None
           /\ txn'[w].stage = stage /\ txn'[w].entity = entity /\ txn'[w].room = r
           /\ \A v \in Workers \ {w} : txn'[v] = txn[v]
  <1>1. [Idle EXCEPT !.stage = stage, !.op = op, !.room = r, !.entity = entity] \in Transaction
    BY DEF Idle, Transaction
  <1>2. r # None
    BY RoomAssumption
  <1>3. QED
    BY <1>1, <1>2 DEF Start, TypeOK, Idle

\* A stage without an entity, and the end of a handler.
LEMMA GotoTypes ==
    ASSUME TypeOK, NEW w \in Workers, txn[w].stage # "idle",
           NEW stage \in Stages \ {"idle"}, Goto(w, stage) \/ Finish(w)
    PROVE  /\ txn' \in [Workers -> Transaction]
           /\ \A v \in Workers : txn'[v].stage # "idle" => txn'[v].room # None
           /\ \A v \in Workers \ {w} : txn'[v] = txn[v]
           /\ txn'[w].stage \in {stage, "idle"}
           /\ txn'[w].stage # "idle" => txn'[w].room = txn[w].room
  <1>1. txn[w].room \in Rooms
    BY BusyRoom
  <1>2. /\ [Idle EXCEPT !.stage = stage, !.room = txn[w].room] \in Transaction
        /\ Idle \in Transaction
    BY <1>1 DEF Idle, Transaction, Stages
  <1>3. txn[w].room # None
    BY <1>1, RoomAssumption
  <1>4. CASE Goto(w, stage)
    BY <1>2, <1>3, <1>4 DEF Goto, TypeOK, Idle
  <1>5. CASE Finish(w)
    BY <1>2, <1>5 DEF Finish, TypeOK, Idle
  <1>6. QED
    BY <1>4, <1>5

-----------------------------------------------------------------------------
\* Work was paid: the steps of the rooms alone.

\* A step of one handler leaves what the others hold as it was.
LEMMA OthersKeep ==
    ASSUME RoomInv, QuietStep, NEW w \in Workers,
           \A v \in Workers \ {w} : txn'[v] = txn[v]
    PROVE  /\ \A r \in Rooms : Paid(r)' <=> Paid(r)
           /\ \A v \in Workers \ {w} : HoldsRoom(v)' /\ HeldWorkWasPaid(v)'
  <1>1. \A r : Paid(r)' <=> Paid(r)
    BY DEF QuietStep, storeVars, Paid, HasTransaction, Posted
  <1>2. \A v \in Workers \ {w} : HeldWorkWasPaid(v)'
    BY <1>1 DEF RoomInv, HeldWorkWasPaid
  <1>3. QED
    BY <1>1, <1>2 DEF RoomInv, HoldsRoom

\* A handler that begins keeps the invariant.
LEMMA BeginKeeps ==
    ASSUME RoomInv, NEW w \in Workers, NEW r \in Rooms, Begin(w, r), ~Pay(w, r)
    PROVE  RoomInv'
  <1>1. CASE Send(w, r)
    <2>1. TypeOK'
      BY <1>1 DEF Send, AddMessage, RoomInv, TypeOK, StoreTypeOK, storeVars
    <2>2. WorkWasPaid' /\ \A v \in Workers : HoldsRoom(v)' /\ HeldWorkWasPaid(v)'
      BY <1>1 DEF Send, RoomInv, WorkWasPaid, HoldsRoom, HeldWorkWasPaid, Paid,
                  HasTransaction, Posted, storeVars
    <2>3. QED
      BY <2>1, <2>2 DEF RoomInv
  <1>2. ASSUME NEW stage \in Stages \ {"idle"},
               NEW op \in Edits \union {"create", "review", "delete"},
               NEW entity \in Room \union {NoRoom},
               Start(w, stage, op, r, entity),
               UNCHANGED <<storeVars, rooms, messages, reviews>>,
               stage \in Holding => /\ entity \in Room
                                    /\ entity.status \in Working => Paid(r),
               stage \in {"reviewing", "reviewed"} => Paid(r)
        PROVE  RoomInv'
    <2>1. /\ txn' \in [Workers -> Transaction]
          /\ \A v \in Workers : txn'[v].stage # "idle" => txn'[v].room # None
          /\ txn'[w].stage = stage /\ txn'[w].entity = entity /\ txn'[w].room = r
          /\ \A v \in Workers \ {w} : txn'[v] = txn[v]
      BY <1>2, StartTypes DEF RoomInv
    <2>2. TypeOK'
      BY <1>2, <2>1 DEF RoomInv, TypeOK, StoreTypeOK, storeVars
    <2>3. /\ \A s \in Rooms : Paid(s)' <=> Paid(s)
          /\ \A v \in Workers \ {w} : HoldsRoom(v)' /\ HeldWorkWasPaid(v)'
      BY <1>2, <2>1, OthersKeep DEF QuietStep
    <2>4. WorkWasPaid'
      BY <1>2, <2>3 DEF RoomInv, WorkWasPaid, Paid
    <2>5. HoldsRoom(w)' /\ HeldWorkWasPaid(w)'
      BY <1>2, <2>1, <2>3 DEF HoldsRoom, HeldWorkWasPaid
    <2>6. QED
      BY <2>2, <2>3, <2>4, <2>5 DEF RoomInv
  <1>3. CASE \E p \in Prices : CreateBegin(w, r, p)
    <2>1. PICK p \in Prices : CreateBegin(w, r, p)
      BY <1>3
    <2> DEFINE entity == [status |-> "REQUESTED", price |-> p, paidAmount |-> None,
                          feedbackCount |-> 1, feedbackUsed |-> 0]
    <2>2. entity \in Room /\ entity.status \notin Working
      BY DEF Room, RoomStatus, Working
    <2>3. Start(w, "creating", "create", r, entity)
      BY <2>1 DEF CreateBegin
    <2>4. QED
      BY <1>2, <2>1, <2>2, <2>3 DEF CreateBegin, Stages, Holding
  <1>4. CASE \E op \in Edits : Load(w, r, op)
    <2>1. PICK op \in Edits, p \in Prices, n \in Revisions :
              /\ Load(w, r, op)
              /\ Start(w, "loaded", op, r, Edited(op, rooms[r], p, n))
      BY <1>4 DEF Load
    <2>2. rooms[r] \in Room
      BY <2>1, ExistingRoom DEF Load, RoomInv
    <2>3. /\ Edited(op, rooms[r], p, n) \in Room
          /\ Edited(op, rooms[r], p, n).status \in Working => rooms[r].status \in Working
      BY <2>1, <2>2, EditedRoom DEF Load
    <2>4. Edited(op, rooms[r], p, n).status \in Working => Paid(r)
      BY <2>3 DEF RoomInv, WorkWasPaid, Paid
    <2>5. QED
      BY <1>2, <2>1, <2>3, <2>4 DEF Load, Stages
  <1>5. CASE ReviewBegin(w, r)
    <2>1. Paid(r)
      BY <1>5 DEF ReviewBegin, RoomInv, WorkWasPaid, Paid, Working
    <2>2. QED
      BY <1>2, <1>5, <2>1 DEF ReviewBegin, Stages, Holding
  <1>6. CASE DeleteBegin(w, r)
    BY <1>2, <1>6 DEF DeleteBegin, Stages, Holding
  <1>7. QED
    BY <1>1, <1>3, <1>4, <1>5, <1>6 DEF Begin

\* A step that ends a handler or takes it to a stage without an entity, with
\* the rows of the room's tables as they are or justified.
LEMMA GotoKeeps ==
    ASSUME RoomInv, QuietStep, NEW w \in Workers, txn[w].stage # "idle",
           NEW stage \in {"announcing", "reviewed", "emptied"},
           Goto(w, stage) \/ Finish(w),
           stage = "reviewed" => Paid(txn[w].room),
           rooms' \in [Rooms -> Room \union {NoRoom, Deleted}],
           messages' \in [Rooms -> BOOLEAN],
           reviews' \in [Rooms -> Nat],
           \A r \in Rooms : rooms'[r].status \in Working => Paid(r)
    PROVE  RoomInv'
  <1>1. stage \in Stages \ {"idle"}
    BY DEF Stages
  <1>2. /\ txn' \in [Workers -> Transaction]
        /\ \A v \in Workers : txn'[v].stage # "idle" => txn'[v].room # None
        /\ \A v \in Workers \ {w} : txn'[v] = txn[v]
        /\ txn'[w].stage \in {stage, "idle"}
        /\ txn'[w].stage # "idle" => txn'[w].room = txn[w].room
    BY <1>1, GotoTypes DEF RoomInv
  <1>3. TypeOK'
    BY <1>2 DEF RoomInv, TypeOK, StoreTypeOK, QuietStep, storeVars
  <1>4. /\ \A s \in Rooms : Paid(s)' <=> Paid(s)
        /\ \A v \in Workers \ {w} : HoldsRoom(v)' /\ HeldWorkWasPaid(v)'
    BY <1>2, OthersKeep
  <1>5. WorkWasPaid'
    BY <1>4 DEF WorkWasPaid, Paid
  <1>6. txn[w].room \in Rooms
    BY BusyRoom DEF RoomInv
  <1>7. HoldsRoom(w)' /\ HeldWorkWasPaid(w)'
    BY <1>2, <1>4, <1>6 DEF HoldsRoom, HeldWorkWasPaid, Holding
  <1>8. QED
    BY <1>3, <1>4, <1>5, <1>7 DEF RoomInv

\* A step of a handler keeps the invariant.
LEMMA AdvanceKeeps ==
    ASSUME RoomInv, NEW w \in Workers, Advance(w) \/ Abort(w)
    PROVE  RoomInv'
  <1> DEFINE r == txn[w].room
  <1>1. /\ txn[w].stage # "idle" /\ r \in Rooms
        /\ QuietStep
    <2>1. txn[w].stage # "idle" /\ QuietStep
      BY DEF Advance, Abort, CreateInsert, Compare, Update, Insert, Announce, ReviewSave,
             ReviewMark, DeleteMessages, DeleteRoom, QuietStep
    <2>2. QED
      BY <2>1, BusyRoom DEF RoomInv
  <1>2. /\ rooms \in [Rooms -> Room \union {NoRoom, Deleted}]
        /\ messages \in [Rooms -> BOOLEAN]
        /\ reviews \in [Rooms -> Nat]
        /\ \A s \in Rooms : rooms[s].status \in Working => Paid(s)
    BY DEF RoomInv, TypeOK, WorkWasPaid, Paid
  <1>3. txn[w].stage \in Holding => /\ txn[w].entity \in Room
                                    /\ txn[w].entity.status \in Working => Paid(r)
    BY DEF RoomInv, HoldsRoom, HeldWorkWasPaid
  <1>4. CASE CreateInsert(w)
    <2>1. /\ rooms' \in [Rooms -> Room \union {NoRoom, Deleted}]
          /\ \A s \in Rooms : rooms'[s].status \in Working => Paid(s)
      BY <1>1, <1>2, <1>3, <1>4 DEF CreateInsert, Holding
    <2>2. QED
      BY <1>1, <1>2, <1>4, <2>1, GotoKeeps DEF CreateInsert
  <1>5. CASE Insert(w)
    <2>1. /\ rooms' \in [Rooms -> Room \union {NoRoom, Deleted}]
          /\ \A s \in Rooms : rooms'[s].status \in Working => Paid(s)
      BY <1>1, <1>2, <1>3, <1>5 DEF Insert, Holding
    <2>2. Goto(w, "announcing") \/ Finish(w)
      BY <1>5 DEF Insert
    <2>3. QED
      BY <1>1, <1>2, <1>5, <2>1, <2>2, GotoKeeps DEF Insert
  <1>6. CASE Update(w)
    <2>1. CASE ~Exists(r)
      <3>1. UNCHANGED <<rooms, messages, reviews>> /\ Goto(w, "announcing")
        BY <1>6, <2>1 DEF Update
      <3>2. QED
        BY <1>1, <1>2, <3>1, GotoKeeps
    <2>2. CASE Exists(r)
      <3> DEFINE merged == [c \in Columns |-> IF c \in txn[w].columns
                                              THEN txn[w].entity[c] ELSE rooms[r][c]]
      <3>1. /\ rooms' = [rooms EXCEPT ![r] = merged]
            /\ Goto(w, "announcing") /\ UNCHANGED <<messages, reviews>>
        BY <1>6, <2>2 DEF Update
      <3>2. rooms[r] \in Room /\ txn[w].entity \in Room
        BY <1>1, <1>3, <1>6, <2>2, ExistingRoom DEF Update, Holding, RoomInv
      <3>3. merged \in Room /\ merged.status \in {rooms[r].status, txn[w].entity.status}
        BY <3>2, MergedRoom
      <3>4. merged.status \in Working => Paid(r)
        BY <1>1, <1>2, <1>3, <1>6, <3>3 DEF Update, Holding
      <3> HIDE DEF merged
      <3>5. /\ rooms' \in [Rooms -> Room \union {NoRoom, Deleted}]
            /\ \A s \in Rooms : rooms'[s].status \in Working => Paid(s)
        BY <1>1, <1>2, <3>1, <3>3, <3>4
      <3>6. QED
        BY <1>1, <1>2, <3>1, <3>5, GotoKeeps
    <2>3. QED
      BY <2>1, <2>2
  <1>7. CASE Compare(w)
    <2>1. PICK stage \in {"updating", "inserting"}, columns \in SUBSET Columns :
              /\ txn' = [txn EXCEPT ![w].stage = stage, ![w].columns = columns]
              /\ UNCHANGED <<rooms, messages, reviews>>
      <3>1. {c \in Columns : rooms[r][c] # txn[w].entity[c]} \in SUBSET Columns
        OBVIOUS
      <3>2. QED
        BY <1>7, <3>1 DEF Compare
    <2>2. /\ txn' \in [Workers -> Transaction]
          /\ \A v \in Workers : txn'[v].stage # "idle" => txn'[v].room # None
          /\ \A v \in Workers \ {w} : txn'[v] = txn[v]
          /\ txn'[w].stage \in {"updating", "inserting"}
          /\ txn'[w].entity = txn[w].entity /\ txn'[w].room = r
      <3>1. [txn[w] EXCEPT !.stage = stage, !.columns = columns] \in Transaction
        BY <2>1 DEF RoomInv, TypeOK, Transaction, Stages
      <3>2. txn' = [txn EXCEPT ![w] = [txn[w] EXCEPT !.stage = stage, !.columns = columns]]
        BY <2>1 DEF RoomInv, TypeOK
      <3>3. r # None
        BY <1>1, RoomAssumption
      <3>4. txn[w] \in Transaction
        BY DEF RoomInv, TypeOK
      <3>5. QED
        BY <3>1, <3>2, <3>3, <3>4 DEF RoomInv, TypeOK, Transaction
    <2>3. TypeOK'
      BY <1>1, <2>1, <2>2 DEF RoomInv, TypeOK, StoreTypeOK, QuietStep, storeVars
    <2>4. /\ \A s \in Rooms : Paid(s)' <=> Paid(s)
          /\ \A v \in Workers \ {w} : HoldsRoom(v)' /\ HeldWorkWasPaid(v)'
      BY <1>1, <2>2, OthersKeep
    <2>5. WorkWasPaid'
      BY <1>2, <2>1, <2>4 DEF WorkWasPaid, Paid
    <2>6. txn[w].stage \in Holding
      BY <1>7 DEF Compare, Holding
    <2>7. HoldsRoom(w)' /\ HeldWorkWasPaid(w)'
      BY <1>1, <1>3, <2>2, <2>4, <2>6 DEF HoldsRoom, HeldWorkWasPaid
    <2>8. QED
      BY <2>3, <2>4, <2>5, <2>7 DEF RoomInv
  <1>8. CASE Announce(w)
    <2>1. /\ messages' \in [Rooms -> BOOLEAN]
          /\ UNCHANGED <<rooms, reviews>> /\ Finish(w)
      BY <1>2, <1>8 DEF Announce, AddMessage
    <2>2. QED
      BY <1>1, <1>2, <2>1, GotoKeeps
  <1>9. CASE ReviewSave(w)
    <2>1. reviews' \in [Rooms -> Nat] /\ Paid(r)
      BY <1>1, <1>2, <1>9 DEF ReviewSave, RoomInv, HeldWorkWasPaid
    <2>2. QED
      BY <1>1, <1>2, <1>9, <2>1, GotoKeeps DEF ReviewSave
  <1>10. CASE ReviewMark(w)
    <2>1. Paid(r)
      BY <1>10 DEF ReviewMark, RoomInv, HeldWorkWasPaid
    <2>2. Exists(r) => [rooms[r] EXCEPT !.status = "REVIEWED"] \in Room
      BY <1>1, ExistingRoom DEF RoomInv, Room, RoomStatus, Working
    <2>3. /\ rooms' \in [Rooms -> Room \union {NoRoom, Deleted}]
          /\ \A s \in Rooms : rooms'[s].status \in Working => Paid(s)
      BY <1>1, <1>2, <1>10, <2>1, <2>2 DEF ReviewMark
    <2>4. QED
      BY <1>1, <1>2, <1>10, <2>3, GotoKeeps DEF ReviewMark
  <1>11. CASE DeleteMessages(w)
    <2>1. messages' \in [Rooms -> BOOLEAN]
      BY <1>2, <1>11 DEF DeleteMessages
    <2>2. QED
      BY <1>1, <1>2, <1>11, <2>1, GotoKeeps DEF DeleteMessages
  <1>12. CASE DeleteRoom(w)
    <2>1. Deleted.status \notin Working
      BY DEF Deleted, Working
    <2>2. /\ rooms' \in [Rooms -> Room \union {NoRoom, Deleted}]
          /\ \A s \in Rooms : rooms'[s].status \in Working => Paid(s)
      BY <1>1, <1>2, <1>12, <2>1 DEF DeleteRoom
    <2>3. QED
      BY <1>1, <1>2, <1>12, <2>2, GotoKeeps DEF DeleteRoom
  <1>13. CASE Abort(w)
    BY <1>1, <1>2, <1>13, GotoKeeps DEF Abort
  <1>14. QED
    BY <1>4, <1>5, <1>6, <1>7, <1>8, <1>9, <1>10, <1>11, <1>12, <1>13 DEF Advance

\* A payment keeps the invariant.
LEMMA PayKeeps ==
    ASSUME RoomInv, StoreTypeOK', NEW w \in Workers, NEW r \in Rooms, Pay(w, r)
    PROVE  RoomInv'
  <1>1. rooms[r] \in Room
    BY ExistingRoom DEF Pay, RoomInv
  <1>2. ledger \subseteq ledger' /\ Paid(r)'
    <2> DEFINE use == ChatEntry(Requester[r], "USE", r, -rooms[r].price)
    <2>1. ledger \subseteq ledger' /\ use \in ledger'
      BY DEF Pay, Transfer
    <2>2. DedupKey(use) = <<Requester[r], "USE", "CHAT_PAYMENT", r>>
      BY DEF DedupKey, ChatEntry
    <2> HIDE DEF use
    <2>3. QED
      BY <2>1, <2>2 DEF Paid, HasTransaction, Posted, DedupKey
  <1>3. [rooms[r] EXCEPT !.status = "PAID", !.paidAmount = rooms[r].price] \in Room
    BY <1>1 DEF Room, RoomStatus, Working
  <1>4. rooms' = [rooms EXCEPT ![r] = [rooms[r] EXCEPT !.status = "PAID",
                                                       !.paidAmount = rooms[r].price]]
    BY DEF Pay, RoomInv, TypeOK
  <1>5. rooms' \in [Rooms -> Room \union {NoRoom, Deleted}]
    BY <1>3, <1>4 DEF RoomInv, TypeOK
  <1>6. TypeOK'
    BY <1>5 DEF Pay, AddMessage, RoomInv, TypeOK
  <1>7. \A s \in Rooms : Paid(s) => Paid(s)'
    BY <1>2, PaidForEver
  <1>8. WorkWasPaid'
    BY <1>2, <1>4, <1>7 DEF RoomInv, TypeOK, WorkWasPaid, Paid
  <1>9. \A v \in Workers : HoldsRoom(v)' /\ HeldWorkWasPaid(v)'
    <2>1. SUFFICES ASSUME NEW v \in Workers PROVE HoldsRoom(v)' /\ HeldWorkWasPaid(v)'
      OBVIOUS
    <2>2. txn'[v] = txn[v] /\ HoldsRoom(v) /\ HeldWorkWasPaid(v)
      BY DEF Pay, RoomInv
    <2>3. txn[v].stage # "idle" => txn[v].room \in Rooms
      BY BusyRoom DEF RoomInv
    <2>4. QED
      BY <1>7, <2>2, <2>3 DEF HoldsRoom, HeldWorkWasPaid, Holding
  <1>10. QED
    BY <1>6, <1>8, <1>9 DEF RoomInv

\* So do the ledger rows of other services.
LEMMA ElsewhereKeeps ==
    ASSUME RoomInv, StoreTypeOK', NEW e \in OtherMoves, MoveElsewhere(e)
    PROVE  RoomInv'
  <1>1. ledger \subseteq ledger' /\ UNCHANGED roomVars
    BY PostAddsOne DEF MoveElsewhere
  <1>2. \A s \in Rooms : Paid(s) => Paid(s)'
    BY <1>1, PaidForEver
  <1>3. TypeOK'
    BY <1>1 DEF RoomInv, TypeOK, roomVars
  <1>4. WorkWasPaid'
    BY <1>1, <1>2 DEF RoomInv, WorkWasPaid, Paid, roomVars
  <1>5. \A v \in Workers : HoldsRoom(v)' /\ HeldWorkWasPaid(v)'
    <2>1. SUFFICES ASSUME NEW v \in Workers PROVE HoldsRoom(v)' /\ HeldWorkWasPaid(v)'
      OBVIOUS
    <2>2. txn'[v] = txn[v] /\ HoldsRoom(v) /\ HeldWorkWasPaid(v)
      BY <1>1 DEF RoomInv, roomVars
    <2>3. txn[v].stage # "idle" => txn[v].room \in Rooms
      BY BusyRoom DEF RoomInv
    <2>4. QED
      BY <1>2, <2>2, <2>3 DEF HoldsRoom, HeldWorkWasPaid, Holding
  <1>6. QED
    BY <1>3, <1>4, <1>5 DEF RoomInv

\* RoomInv is inductive.
LEMMA RoomInductive == Spec => []RoomInv
  <1>1. Init => RoomInv
    <2>1. SUFFICES ASSUME Init PROVE RoomInv
      OBVIOUS
    <2>2. Idle \in Transaction
      BY DEF Idle, Transaction, Stages
    <2>3. TypeOK
      BY <2>1, <2>2 DEF Init, StoreInit, TypeOK, StoreTypeOK, Idle
    <2>4. WorkWasPaid
      BY <2>1 DEF Init, WorkWasPaid, NoRoom, Working
    <2>5. \A w \in Workers : HoldsRoom(w) /\ HeldWorkWasPaid(w)
      BY <2>1 DEF Init, Idle, HoldsRoom, HeldWorkWasPaid, Holding
    <2>6. QED
      BY <2>3, <2>4, <2>5 DEF RoomInv
  <1>2. RoomInv /\ [Next]_vars => RoomInv'
    <2>1. SUFFICES ASSUME RoomInv, [Next]_vars PROVE RoomInv'
      OBVIOUS
    <2>2. StoreTypeOK'
      BY <2>1, StoreTypes DEF RoomInv
    <2>3. ASSUME NEW w \in Workers, NEW r \in Rooms, Begin(w, r)
          PROVE  RoomInv'
      BY <2>1, <2>2, <2>3, BeginKeeps, PayKeeps
    <2>4. ASSUME NEW w \in Workers, Advance(w) \/ Abort(w)
          PROVE  RoomInv'
      BY <2>1, <2>4, AdvanceKeeps
    <2>5. ASSUME NEW e \in OtherMoves, MoveElsewhere(e)
          PROVE  RoomInv'
      BY <2>1, <2>2, <2>5, ElsewhereKeeps
    <2>6. CASE UNCHANGED vars
      <3>1. TypeOK'
        BY <2>1, <2>6 DEF vars, roomVars, storeVars, RoomInv, TypeOK, StoreTypeOK
      <3>2. WorkWasPaid' /\ \A w \in Workers : HoldsRoom(w)' /\ HeldWorkWasPaid(w)'
        BY <2>1, <2>6 DEF vars, roomVars, storeVars, RoomInv, WorkWasPaid, HoldsRoom,
                          HeldWorkWasPaid, Paid, HasTransaction, Posted
      <3>3. QED
        BY <3>1, <3>2 DEF RoomInv
    <2>7. QED
      BY <2>1, <2>3, <2>4, <2>5, <2>6 DEF Next
  <1>3. QED
    BY <1>1, <1>2, PTL DEF Spec

\* However the handlers of a room overlap and abort, the state keeps its types.
THEOREM TypeCorrect == Spec => []TypeOK
  <1>1. RoomInv => TypeOK
    BY DEF RoomInv
  <1>2. QED
    BY <1>1, RoomInductive, PTL

\* No stale save, review or retry makes a room a working one that was not paid.
THEOREM WorkIsPaid == Spec => []WorkWasPaid
  <1>1. RoomInv => WorkWasPaid
    BY DEF RoomInv
  <1>2. QED
    BY <1>1, RoomInductive, PTL

-----------------------------------------------------------------------------
\* Payments.

\* What a payment does to the store.
LEMMA PaySteps ==
    ASSUME RoomInv, MoneyInv, NEW w \in Workers, NEW r \in Rooms, Pay(w, r)
    PROVE  \E price \in Prices :
             /\ Transfer(r, price)
             /\ price \in Nat
             /\ Coins(Requester[r]) >= price
             /\ \A m \in Members :
                  Coins(m)' = CASE m = Requester[r] -> Coins(m) - price
                                [] m = Artist[r] -> Coins(m) + price
                                [] OTHER -> Coins(m)
             /\ ~HasTransaction(r, Requester[r], "USE")
  <1> DEFINE price == rooms[r].price
             from == Requester[r]
             to == Artist[r]
  <1>1. price \in Prices /\ price \in Nat
    BY ExistingRoom, RoomAssumption DEF Pay, RoomInv, Room
  <1>2. from \in Members /\ to \in Members /\ from # to
    BY RoomAssumption
  <1>3. Transfer(r, price)
    BY DEF Pay
  <1>4. /\ balance[from] # NoWallet /\ Coins(from) >= price
        /\ ~HasTransaction(r, from, "USE")
    BY <1>3 DEF Transfer, Coins
  <1>5. balance \in [Members -> Int \union {NoWallet}]
    BY DEF RoomInv, TypeOK, StoreTypeOK
  <1>6. balance' = [balance EXCEPT ![from] = @ - price, ![to] = Coins(to) + price]
    BY <1>3 DEF Transfer
  <1>7. Coins(from)' = Coins(from) - price
    <2>1. balance'[from] = balance[from] - price
      BY <1>2, <1>5, <1>6
    <2>2. balance[from] - price \in Int
      BY <1>1, <1>2, <1>4, <1>5
    <2>3. QED
      BY <1>4, <2>1, <2>2, NullAssumption DEF Coins
  <1>8. Coins(to)' = Coins(to) + price
    <2>1. balance'[to] = Coins(to) + price
      BY <1>2, <1>5, <1>6
    <2>2. Coins(to) + price \in Int
      BY <1>1, <1>2, <1>5 DEF Coins
    <2>3. QED
      BY <2>1, <2>2, NullAssumption DEF Coins
  <1>9. \A m \in Members \ {from, to} : Coins(m)' = Coins(m)
    BY <1>5, <1>6 DEF Coins
  <1>10. QED
    BY <1>1, <1>2, <1>3, <1>4, <1>7, <1>8, <1>9

\* A save of another service, which locks the wallet first, writes the balance.
LEMMA ElsewhereSteps ==
    ASSUME RoomInv, NEW e \in OtherMoves, MoveElsewhere(e)
    PROVE  /\ e \in Entry /\ e.member \in Members /\ e.coins \in Int
           /\ balance' = [balance EXCEPT ![e.member] = Coins(e.member) + e.coins]
           /\ \A m \in Members :
                Coins(m)' = IF m = e.member THEN Coins(m) + e.coins ELSE Coins(m)
  <1>1. e \in Entry /\ e.member \in Members /\ e.coins \in Int
    BY RoomAssumption DEF Entry
  <1>2. balance \in [Members -> Int \union {NoWallet}]
    BY DEF RoomInv, TypeOK, StoreTypeOK
  <1>3. Coins(e.member) + e.coins \in Int
    BY <1>1, <1>2 DEF Coins
  <1>4. balance' = [balance EXCEPT ![e.member] = Coins(e.member) + e.coins]
    BY <1>1, <1>2 DEF MoveElsewhere, Post, SaveBalance, Seen
  <1>5. QED
    BY <1>1, <1>2, <1>3, <1>4, NullAssumption DEF Coins

\* MoneyInv is inductive.
LEMMA MoneyInductive == Spec => []MoneyInv
  <1>1. Init => MoneyInv
    <2>1. SUFFICES ASSUME Init PROVE MoneyInv
      OBVIOUS
    <2>2. \A m \in Members : Coins(m) = 0 /\ ledgerTotal[m] = 0
      BY <2>1 DEF Init, StoreInit, Coins
    <2>3. PaymentsBalance
      BY <2>1 DEF Init, StoreInit, PaymentsBalance
    <2>4. QED
      BY <2>2, <2>3 DEF MoneyInv, LedgerMatchesBalance
  <1>2. RoomInv /\ MoneyInv /\ [Next]_vars => MoneyInv'
    <2>1. SUFFICES ASSUME RoomInv, MoneyInv, [Next]_vars PROVE MoneyInv'
      OBVIOUS
    <2>2. /\ \A m \in Members : Coins(m) \in Int /\ Coins(m) >= 0 /\ Coins(m) = ledgerTotal[m]
          /\ ledgerTotal \in [Members -> Int]
      BY <2>1 DEF RoomInv, TypeOK, StoreTypeOK, MoneyInv, LedgerMatchesBalance
    <2>3. CASE QuietStep
      <3>1. \A m : Coins(m)' = Coins(m)
        BY <2>3 DEF QuietStep, storeVars, Coins
      <3>2. QED
        BY <2>1, <2>3, <3>1 DEF QuietStep, storeVars, MoneyInv, PaymentsBalance,
                                LedgerMatchesBalance
    <2>4. ASSUME NEW w \in Workers, NEW r \in Rooms, Pay(w, r)
          PROVE  MoneyInv'
      <3>1. PICK price \in Prices :
             /\ Transfer(r, price)
             /\ price \in Nat
             /\ Coins(Requester[r]) >= price
             /\ \A m \in Members :
                  Coins(m)' = CASE m = Requester[r] -> Coins(m) - price
                                [] m = Artist[r] -> Coins(m) + price
                                [] OTHER -> Coins(m)
             /\ ~HasTransaction(r, Requester[r], "USE")
        BY <2>1, <2>4, PaySteps
      <3>2. /\ Requester[r] \in Members /\ Artist[r] \in Members
            /\ Requester[r] # Artist[r]
        BY RoomAssumption
      <3>3. \A m \in Members : Coins(m)' >= 0
        BY <2>2, <3>1, <3>2
      <3>4. ledgerTotal' = [ledgerTotal EXCEPT ![Requester[r]] = @ - price,
                                               ![Artist[r]] = @ + price]
        BY <3>1 DEF Transfer
      <3>5. LedgerMatchesBalance'
        BY <2>2, <3>1, <3>2, <3>4 DEF LedgerMatchesBalance
      <3> DEFINE use == ChatEntry(Requester[r], "USE", r, -price)
                 earn == ChatEntry(Artist[r], "EARN", r, price)
                 Rows(s, table) == {e \in table : e.source = "CHAT_PAYMENT" /\ e.id = s}
      <3>6. ledger' = ledger \union {use, earn}
        BY <3>1 DEF Transfer
      <3>7. /\ use.source = "CHAT_PAYMENT" /\ use.id = r
            /\ earn.source = "CHAT_PAYMENT" /\ earn.id = r
        BY DEF ChatEntry
      <3>8. Rows(r, ledger) = {}
        <4>1. SUFFICES ASSUME NEW p \in Prices,
                              Rows(r, ledger) = {ChatEntry(Requester[r], "USE", r, -p),
                                                 ChatEntry(Artist[r], "EARN", r, p)}
                       PROVE  HasTransaction(r, Requester[r], "USE")
          BY <2>1, <3>1 DEF MoneyInv, PaymentsBalance
        <4>2. ChatEntry(Requester[r], "USE", r, -p) \in ledger
          BY <4>1
        <4>3. QED
          BY <4>2 DEF HasTransaction, Posted, DedupKey, ChatEntry
      <3>9. Rows(r, ledger') = {use, earn}
        BY <3>6, <3>7, <3>8
      <3>10. \A s \in Rooms \ {r} : Rows(s, ledger') = Rows(s, ledger)
        BY <3>6, <3>7
      <3>11. PaymentsBalance'
        BY <2>1, <3>9, <3>10 DEF MoneyInv, PaymentsBalance
      <3>12. QED
        BY <3>3, <3>5, <3>11 DEF MoneyInv
    <2>5. ASSUME NEW e \in OtherMoves, MoveElsewhere(e)
          PROVE  MoneyInv'
      <3>1. /\ e.member \in Members /\ e.coins \in Int /\ e.source # "CHAT_PAYMENT"
            /\ \A m \in Members :
                 Coins(m)' = IF m = e.member THEN Coins(m) + e.coins ELSE Coins(m)
        BY <2>1, <2>5, ElsewhereSteps, RoomAssumption
      <3>2. /\ ledgerTotal' = [ledgerTotal EXCEPT ![e.member] = @ + e.coins]
            /\ ledger' = ledger \union {e}
            /\ Coins(e.member) + e.coins >= 0
        BY <2>5 DEF MoveElsewhere, Post, InsertEntry
      <3>3. PaymentsBalance'
        BY <2>1, <3>1, <3>2 DEF MoneyInv, PaymentsBalance
      <3>4. LedgerMatchesBalance' /\ \A m \in Members : Coins(m)' >= 0
        BY <2>2, <3>1, <3>2 DEF LedgerMatchesBalance
      <3>5. QED
        BY <3>3, <3>4 DEF MoneyInv
    <2>6. QED
      BY <2>1, <2>3, <2>4, <2>5, StepKinds
  <1>3. QED
    BY <1>1, <1>2, RoomInductive, PTL DEF Spec

\* A payment is made once and whole, whatever becomes of its room.
THEOREM PaymentsAreWhole == Spec => []PaymentsBalance
  <1>1. MoneyInv => PaymentsBalance
    BY DEF MoneyInv
  <1>2. QED
    BY <1>1, MoneyInductive, PTL

\* Payments keep every balance equal to the sum of its ledger rows.
THEOREM LedgerAgrees == Spec => []LedgerMatchesBalance
  <1>1. MoneyInv => LedgerMatchesBalance
    BY DEF MoneyInv
  <1>2. QED
    BY <1>1, MoneyInductive, PTL

\* Payments implement the abstract ledger, and none of their rows is hidden behind
\* a snapshot: payChatRoom locks the room and both wallets before it reads.
THEOREM ImplementsLedger == Spec => LedgerRefined
  <1> DEFINE read == [m \in Members |-> {}]
  <1>1. Init => Accounts!Init
    BY DEF Init, StoreInit, Accounts!Init
  <1>2. RoomInv /\ MoneyInv /\ [Next]_vars => [Accounts!Next]_<<balance, ledger, read>>
    <2>1. SUFFICES ASSUME RoomInv, MoneyInv, [Next]_vars
                   PROVE  Accounts!Next
      OBVIOUS
    <2>7. Accounts!Reads
      BY DEF Accounts!Reads
    <2>2. /\ balance \in [Members -> Int \union {NoWallet}]
          /\ \A m \in Members : Accounts!Held(m) = Coins(m) /\ Coins(m) \in Int
      BY <2>1 DEF RoomInv, TypeOK, StoreTypeOK, Accounts!Held, Coins
    <2>3. CASE QuietStep
      BY <2>3, <2>7 DEF QuietStep, storeVars, Accounts!Next
    <2>4. ASSUME NEW w \in Workers, NEW r \in Rooms, Pay(w, r)
          PROVE  Accounts!Next
      <3>1. PICK price \in Prices :
             /\ Transfer(r, price) /\ price \in Nat
             /\ Coins(Requester[r]) >= price
             /\ ~HasTransaction(r, Requester[r], "USE")
        BY <2>1, <2>4, PaySteps
      <3> DEFINE from == Requester[r]
                 to == Artist[r]
                 use == ChatEntry(from, "USE", r, -price)
                 earn == ChatEntry(to, "EARN", r, price)
      <3>2. from \in Members /\ to \in Members /\ from # to
        BY RoomAssumption
      <3>3. /\ balance[from] # NoWallet
            /\ balance' = [balance EXCEPT ![from] = @ - price, ![to] = Coins(to) + price]
            /\ ledger' = ledger \union {use, earn}
            /\ ~HasTransaction(r, to, "EARN")
        BY <3>1 DEF Transfer
      <3>4. /\ use.member = from /\ use.coins = -price
            /\ earn.member = to /\ earn.coins = price
        BY DEF ChatEntry
      <3>5. \A f \in ledger : /\ Accounts!Source(f) # Accounts!Source(use)
                              /\ Accounts!Source(f) # Accounts!Source(earn)
        BY <3>1, <3>3 DEF HasTransaction, Posted, DedupKey, ChatEntry, Accounts!Source
      <3>6. ledger' \ ledger = {use, earn}
        BY <3>3, <3>5
      <3>7. /\ balance'[from] = Coins(from) - price
            /\ balance'[to] = Coins(to) + price
            /\ \A m \in Members : m # from /\ m # to => balance'[m] = balance[m]
            /\ DOMAIN balance' = Members
        BY <2>2, <3>2, <3>3 DEF Coins
      <3>8. /\ Coins(from) + use.coins >= 0 /\ balance'[from] = Coins(from) + use.coins
            /\ Coins(to) + earn.coins >= 0 /\ balance'[to] = Coins(to) + earn.coins
        BY <2>1, <2>2, <3>1, <3>2, <3>4, <3>7 DEF MoneyInv
      <3> HIDE DEF use, earn
      <3>9. Accounts!Commit({use, earn})
        BY <2>2, <3>2, <3>3, <3>4, <3>5, <3>7, <3>8 DEF Accounts!Commit, Accounts!Moves
      <3>10. QED
        BY <2>7, <3>6, <3>9 DEF Accounts!Next
    <2>5. ASSUME NEW e \in OtherMoves, MoveElsewhere(e)
          PROVE  Accounts!Next
      <3>1. /\ e.member \in Members /\ e.coins \in Int
            /\ balance' = [balance EXCEPT ![e.member] = Coins(e.member) + e.coins]
        BY <2>1, <2>5, ElsewhereSteps
      <3>2. /\ ledger' = ledger \union {e} /\ ledger' \ ledger = {e}
            /\ Coins(e.member) + e.coins >= 0
        BY <2>5, PostAddsOne DEF MoveElsewhere
      <3>3. \A f \in ledger : Accounts!Source(f) # Accounts!Source(e)
        BY <2>5 DEF MoveElsewhere, Post, InsertEntry, Posted, DedupKey, Accounts!Source
      <3>4. /\ Accounts!Held(e.member) + e.coins >= 0
            /\ balance'[e.member] = Accounts!Held(e.member) + e.coins
            /\ DOMAIN balance' = Members
            /\ \A m \in Members : m # e.member => balance'[m] = balance[m]
        BY <2>2, <3>1, <3>2
      <3>5. Accounts!Commit({e})
        BY <3>2, <3>3, <3>4 DEF Accounts!Commit, Accounts!Moves
      <3>6. QED
        BY <2>7, <3>2, <3>5 DEF Accounts!Next
    <2>6. QED
      BY <2>1, <2>3, <2>4, <2>5, StepKinds
  <1>3. QED
    BY <1>1, <1>2, RoomInductive, MoneyInductive, PTL DEF Spec, LedgerRefined, Accounts!Spec

-----------------------------------------------------------------------------
\* Handlers of a conversation one after the other.

\* The USE rows a paid amount stands for.
UseRows(r) ==
    {e \in ledger : e.type = "USE" /\ e.source = "CHAT_PAYMENT" /\ e.id = r}

AmountRows(r, amount) ==
    IF amount = None THEN {} ELSE {ChatEntry(Requester[r], "USE", r, -amount)}

\* A room that is worked on is a paid one, and the only one with revisions.
SoundRoom(a) ==
    /\ a.status \in Working <=> a.paidAmount # None
    /\ a.feedbackUsed <= a.feedbackCount
    /\ a.status \notin Working => a.feedbackUsed = 0

Follows(before, after) == after # before => <<before, after>> \in Announced

RoomFacts(r) ==
    /\ Exists(r) => /\ SoundRoom(rooms[r])
                    /\ UseRows(r) = AmountRows(r, rooms[r].paidAmount)
    /\ rooms[r] = NoRoom => UseRows(r) = {}
    /\ reviews[r] <= 1

OneRoomEach ==
    \A r, s \in Rooms :
        Exists(r) /\ Exists(s) /\ Conversation[r] = Conversation[s] => r = s

Alone(w) ==
    \A v \in Workers \ {w} :
        txn[v].stage # "idle" => Conversation[txn[v].room] # Conversation[txn[w].room]

\* What a handler holds is what it would make of the room now.
HoldsSound(w) ==
    LET r == txn[w].room
        stage == txn[w].stage
        entity == txn[w].entity
    IN
    /\ stage # "inserting"
    /\ stage = "creating" =>
          /\ rooms[r] = NoRoom
          /\ \A s \in Rooms : Conversation[s] = Conversation[r] => ~Exists(s)
          /\ SoundRoom(entity)
          /\ entity.paidAmount = None /\ entity.status = "REQUESTED"
    /\ stage \in {"loaded", "updating"} =>
          /\ Exists(r)
          /\ SoundRoom(entity)
          /\ entity.paidAmount = rooms[r].paidAmount
          /\ Follows(rooms[r].status, entity.status)
    /\ stage = "updating" =>
          txn[w].columns = {c \in Columns : rooms[r][c] # entity[c]}
    /\ stage \in {"reviewing", "reviewed"} => Exists(r) /\ rooms[r].status = "COMPLETED"
    /\ stage = "reviewing" => reviews[r] = 0
    /\ stage \in {"deleting", "emptied"} =>
          Exists(r) /\ rooms[r].status \in {"CANCELLED", "REVIEWED"}

OrderlyInv ==
    /\ \A r \in Rooms : RoomFacts(r)
    /\ OneRoomEach
    /\ \A w \in Workers : txn[w].stage # "idle" => Alone(w) /\ HoldsSound(w)

\* An edit the handler's check allows makes a sound room of a sound one, keeps
\* what was paid and changes the status as announced.
LEMMA EditedSound ==
    ASSUME NEW a \in Room, SoundRoom(a), NEW op \in Edits, Allowed(op, a),
           NEW p \in Prices, NEW n \in Revisions
    PROVE  /\ SoundRoom(Edited(op, a, p, n))
           /\ Edited(op, a, p, n).paidAmount = a.paidAmount
           /\ Follows(a.status, Edited(op, a, p, n).status)
  <1> DEFINE e == Edited(op, a, p, n)
  <1>1. n \in Nat /\ a.feedbackUsed \in Nat /\ a.feedbackCount \in Nat
    BY RoomAssumption DEF Room
  <1>2. CASE op = "update"
    BY <1>2 DEF Edited, Follows
  <1>3. CASE op \in {"reprice", "accept"}
    <2>1. /\ a.status \in {"REQUESTED", "ACCEPTED"}
          /\ op = "accept" => a.status = "REQUESTED"
      BY <1>3 DEF Allowed, From
    <2>2. a.feedbackUsed = 0 /\ a.paidAmount = None
      BY <2>1 DEF SoundRoom, Working
    <2>3. /\ e.paidAmount = a.paidAmount /\ e.feedbackUsed = a.feedbackUsed
          /\ e.feedbackCount = n
          /\ e.status = IF op = "accept" THEN "ACCEPTED" ELSE a.status
      BY <1>3 DEF Edited, Room, Target
    <2> HIDE DEF e
    <2>4. SoundRoom(e)
      BY <1>1, <2>1, <2>2, <2>3 DEF SoundRoom, Working
    <2>5. Follows(a.status, e.status)
      BY <2>1, <2>3 DEF Follows, Announced
    <2>6. QED
      BY <2>3, <2>4, <2>5 DEF e
  <1>4. CASE op = "revise"
    <2>1. a.status = "DRAFT_SENT" /\ a.feedbackUsed < a.feedbackCount
      BY <1>4 DEF Allowed, From
    <2>2. /\ e.paidAmount = a.paidAmount /\ e.feedbackUsed = a.feedbackUsed + 1
          /\ e.feedbackCount = a.feedbackCount /\ e.status = "IN_PROGRESS"
      BY <1>4 DEF Edited, Room, Target
    <2> HIDE DEF e
    <2>3. SoundRoom(e)
      BY <1>1, <2>1, <2>2 DEF SoundRoom, Working
    <2>4. Follows(a.status, e.status)
      BY <2>1, <2>2 DEF Follows, Announced
    <2>5. QED
      BY <2>2, <2>3, <2>4 DEF e
  <1>5. CASE op \in {"reject", "cancel", "start", "draft", "confirm"}
    <2>1. /\ e.paidAmount = a.paidAmount /\ e.feedbackUsed = a.feedbackUsed
          /\ e.feedbackCount = a.feedbackCount /\ e.status = Target[op]
      BY <1>5 DEF Edited, Room
    <2>2. a.status \in From[op]
      BY DEF Allowed
    <2> HIDE DEF e
    <2>3. SoundRoom(e)
      BY <1>1, <1>5, <2>1, <2>2 DEF SoundRoom, Working, From, Target
    <2>4. Follows(a.status, e.status)
      BY <1>5, <2>1, <2>2 DEF Follows, Announced, From, Target
    <2>5. QED
      BY <2>1, <2>3, <2>4 DEF e
  <1>6. QED
    BY <1>2, <1>3, <1>4, <1>5 DEF Edits

\* save() of an entity on the row it was compared with leaves the entity.
LEMMA MergedEntity ==
    ASSUME NEW a \in Room, NEW b \in Room
    PROVE  [c \in Columns |-> IF c \in {d \in Columns : a[d] # b[d]}
                              THEN b[c] ELSE a[c]] = b
  <1>1. b = [c \in Columns |-> b[c]]
    BY DEF Room, Columns
  <1>2. QED
    BY <1>1

-----------------------------------------------------------------------------
\* A step of one handler on one room, no other handler being at work on the
\* room's conversation.
LEMMA RoomMoves ==
    ASSUME RoomInv, OrderlyInv, NEW w \in Workers, NEW r \in Rooms,
           \A v \in Workers \ {w} : txn'[v] = txn[v],
           \A v \in Workers \ {w} :
               txn[v].stage # "idle" => Conversation[txn[v].room] # Conversation[r],
           \A s \in Rooms \ {r} : /\ rooms'[s] = rooms[s] /\ reviews'[s] = reviews[s]
                                  /\ UseRows(s)' = UseRows(s),
           RoomFacts(r)',
           Follows(rooms[r].status, rooms'[r].status),
           Exists(r)' => \/ Exists(r)
                         \/ \A s \in Rooms : Conversation[s] = Conversation[r] => ~Exists(s),
           txn'[w].stage # "idle" => txn'[w].room = r /\ HoldsSound(w)'
    PROVE  OrderlyInv' /\ RoomStep
  <1>1. \A s \in Rooms \ {r} : Exists(s)' <=> Exists(s)
    BY DEF Exists
  <1>2. \A s \in Rooms : RoomFacts(s)'
    BY <1>1 DEF OrderlyInv, RoomFacts
  <1>3. OneRoomEach'
    BY <1>1 DEF OrderlyInv, OneRoomEach
  <1>4. RoomStep
    BY DEF RoomStep, Follows
  <1>5. ASSUME NEW v \in Workers \ {w}, txn[v].stage # "idle"
        PROVE  Alone(v)' /\ HoldsSound(v)'
    <2>1. /\ txn[v].room \in Rooms \ {r} /\ txn'[v] = txn[v]
          /\ Conversation[txn[v].room] # Conversation[r]
      BY <1>5, BusyRoom DEF RoomInv
    <2>2. Alone(v) /\ HoldsSound(v)
      BY <1>5 DEF OrderlyInv
    <2>3. Alone(v)'
      BY <2>1, <2>2 DEF Alone
    <2>4. HoldsSound(v)'
      BY <1>1, <2>1, <2>2 DEF HoldsSound
    <2>5. QED
      BY <2>3, <2>4
  <1>6. txn'[w].stage # "idle" => Alone(w)' /\ HoldsSound(w)'
    BY DEF Alone
  <1>7. \A v \in Workers : txn'[v].stage # "idle" => Alone(v)' /\ HoldsSound(v)'
    BY <1>5, <1>6
  <1>8. QED
    BY <1>2, <1>3, <1>4, <1>7 DEF OrderlyInv

\* A handler that begins while no other is at work on the conversation.
LEMMA OrderlyBegin ==
    ASSUME RoomInv, OrderlyInv, NEW w \in Workers, NEW r \in Rooms,
           Undisturbed(r), Begin(w, r)
    PROVE  OrderlyInv' /\ RoomStep
  <1>1. /\ RoomFacts(r)
        /\ Exists(r) => rooms[r] \in Room
        /\ \A v \in Workers : txn[v].stage # "idle" =>
                                  Conversation[txn[v].room] # Conversation[r]
    BY ExistingRoom DEF OrderlyInv, Undisturbed, RoomInv
  <1>2. ASSUME NEW stage \in Stages \ {"idle"},
               NEW op \in Edits \union {"create", "review", "delete"},
               NEW entity \in Room \union {NoRoom},
               Start(w, stage, op, r, entity),
               UNCHANGED <<storeVars, rooms, messages, reviews>>,
               HoldsSound(w)'
        PROVE  OrderlyInv' /\ RoomStep
    <2>1. /\ txn'[w].room = r
          /\ \A v \in Workers \ {w} : txn'[v] = txn[v]
      BY <1>2, StartTypes DEF RoomInv
    <2>2. \A s : UseRows(s)' = UseRows(s)
      BY <1>2 DEF UseRows, storeVars
    <2>3. RoomFacts(r)' /\ (Exists(r)' <=> Exists(r))
      BY <1>1, <1>2, <2>2 DEF RoomFacts, Exists
    <2>4. Follows(rooms[r].status, rooms'[r].status)
      BY <1>2 DEF Follows
    <2>5. QED
      BY <1>1, <1>2, <2>1, <2>2, <2>3, <2>4, RoomMoves
  <1>3. CASE \E p \in Prices : CreateBegin(w, r, p)
    <2>1. PICK p \in Prices : CreateBegin(w, r, p)
      BY <1>3
    <2> DEFINE entity == [status |-> "REQUESTED", price |-> p, paidAmount |-> None,
                          feedbackCount |-> 1, feedbackUsed |-> 0]
    <2>2. entity \in Room /\ SoundRoom(entity)
      BY DEF Room, RoomStatus, Working, SoundRoom
    <2>3. /\ Start(w, "creating", "create", r, entity)
          /\ UNCHANGED <<storeVars, rooms, messages, reviews>>
      BY <2>1 DEF CreateBegin
    <2>4. entity.paidAmount = None /\ entity.status = "REQUESTED"
      OBVIOUS
    <2> HIDE DEF entity
    <2>5. txn'[w].stage = "creating" /\ txn'[w].entity = entity /\ txn'[w].room = r
      BY <2>2, <2>3, StartTypes DEF RoomInv, Stages
    <2>6. HoldsSound(w)'
      BY <2>1, <2>2, <2>4, <2>5 DEF HoldsSound, CreateBegin, Exists
    <2>7. QED
      BY <1>2, <2>2, <2>3, <2>6 DEF Stages
  <1>4. CASE \E op \in Edits : Load(w, r, op)
    <2>1. PICK op \in Edits, p \in Prices, n \in Revisions :
              /\ Load(w, r, op)
              /\ Start(w, "loaded", op, r, Edited(op, rooms[r], p, n))
      BY <1>4 DEF Load
    <2>2. Exists(r) /\ Allowed(op, rooms[r])
      BY <2>1 DEF Load
    <2> DEFINE entity == Edited(op, rooms[r], p, n)
    <2>3. /\ SoundRoom(entity) /\ entity \in Room
          /\ entity.paidAmount = rooms[r].paidAmount
          /\ Follows(rooms[r].status, entity.status)
      BY <1>1, <2>2, EditedSound, EditedRoom DEF RoomFacts
    <2>4. Start(w, "loaded", op, r, entity)
      BY <2>1
    <2> HIDE DEF entity
    <2>5. txn'[w].stage = "loaded" /\ txn'[w].entity = entity /\ txn'[w].room = r
      BY <2>3, <2>4, StartTypes DEF RoomInv, Stages
    <2>6. UNCHANGED <<storeVars, rooms, messages, reviews>>
      BY <2>1 DEF Load
    <2>7. HoldsSound(w)'
      BY <2>2, <2>3, <2>5, <2>6 DEF HoldsSound, Exists
    <2>8. QED
      BY <1>2, <2>3, <2>4, <2>6, <2>7 DEF Stages
  <1>5. CASE ReviewBegin(w, r)
    <2>1. txn'[w].stage = "reviewing" /\ txn'[w].room = r
      BY <1>5, StartTypes DEF ReviewBegin, RoomInv, Stages
    <2>2. HoldsSound(w)'
      BY <1>5, <2>1 DEF ReviewBegin, HoldsSound, Exists
    <2>3. QED
      BY <1>2, <1>5, <2>2 DEF ReviewBegin, Stages
  <1>6. CASE DeleteBegin(w, r)
    <2>1. txn'[w].stage = "deleting" /\ txn'[w].room = r
      BY <1>6, StartTypes DEF DeleteBegin, RoomInv, Stages
    <2>2. HoldsSound(w)'
      BY <1>6, <2>1 DEF DeleteBegin, HoldsSound, Exists
    <2>3. QED
      BY <1>2, <1>6, <2>2 DEF DeleteBegin, Stages
  <1>7. CASE Pay(w, r)
    <2> DEFINE price == rooms[r].price
               use == ChatEntry(Requester[r], "USE", r, -price)
               earn == ChatEntry(Artist[r], "EARN", r, price)
               paid == [rooms[r] EXCEPT !.status = "PAID", !.paidAmount = price]
    <2>1. /\ Exists(r) /\ rooms[r] \in Room /\ rooms[r].status = "ACCEPTED"
          /\ UNCHANGED <<reviews, txn>> /\ txn[w].stage = "idle"
          /\ ledger' = ledger \union {use, earn}
      BY <1>1, <1>7 DEF Pay, Transfer
    <2>2. rooms' = [rooms EXCEPT ![r] = paid]
      BY <1>7 DEF Pay, RoomInv, TypeOK
    <2>3. price \in Prices /\ price # None
      <3>1. price \in Prices
        BY <2>1 DEF Room
      <3>2. price \in Nat
        BY <3>1, RoomAssumption
      <3>3. None \notin Int
        BY RoomAssumption
      <3>4. QED
        BY <3>1, <3>2, <3>3
    <2>4. SoundRoom(rooms[r]) /\ UseRows(r) = {}
      BY <1>1, <2>1 DEF RoomFacts, SoundRoom, AmountRows, Working
    <2>5. /\ paid.status = "PAID" /\ paid.paidAmount = price
          /\ paid.feedbackUsed = rooms[r].feedbackUsed
          /\ paid.feedbackCount = rooms[r].feedbackCount
          /\ paid \in Room
      BY <2>1, <2>3 DEF Room, RoomStatus, Working
    <2>6. /\ use.type = "USE" /\ use.source = "CHAT_PAYMENT" /\ use.id = r
          /\ earn.type = "EARN" /\ earn.id = r
      BY DEF ChatEntry
    <2>7. AmountRows(r, price) = {use}
      BY <2>3 DEF AmountRows
    <2> HIDE DEF use, earn, paid
    <2>8. UseRows(r)' = {use}
      BY <2>1, <2>4, <2>6 DEF UseRows
    <2>9. \A s \in Rooms \ {r} : UseRows(s)' = UseRows(s)
      BY <2>1, <2>6 DEF UseRows
    <2>10. rooms'[r] = paid /\ \A s \in Rooms \ {r} : rooms'[s] = rooms[s]
      BY <2>2 DEF RoomInv, TypeOK
    <2>11. SoundRoom(paid)
      BY <2>3, <2>4, <2>5 DEF SoundRoom, Working
    <2>12. Exists(r)' /\ rooms'[r] # NoRoom
      BY <2>5, <2>10, RoomIsNoMarker DEF Exists
    <2>13. RoomFacts(r)'
      BY <1>1, <2>1, <2>5, <2>7, <2>8, <2>10, <2>11, <2>12 DEF RoomFacts
    <2>14. Follows(rooms[r].status, rooms'[r].status)
      BY <2>1, <2>5, <2>10 DEF Follows, Announced
    <2>15. QED
      BY <1>1, <2>1, <2>9, <2>10, <2>13, <2>14, RoomMoves
  <1>8. CASE Send(w, r)
    <2>1. UNCHANGED <<storeVars, rooms, reviews, txn>> /\ txn[w].stage = "idle"
      BY <1>8 DEF Send
    <2>2. \A s : UseRows(s)' = UseRows(s)
      BY <2>1 DEF UseRows, storeVars
    <2>3. RoomFacts(r)' /\ (Exists(r)' <=> Exists(r))
      BY <1>1, <2>1, <2>2 DEF RoomFacts, Exists
    <2>4. Follows(rooms[r].status, rooms'[r].status)
      BY <2>1 DEF Follows
    <2>5. QED
      BY <1>1, <2>1, <2>2, <2>3, <2>4, RoomMoves
  <1>9. QED
    BY <1>3, <1>4, <1>5, <1>6, <1>7, <1>8 DEF Begin

\* A further step of a handler, the only one at work on its conversation.
LEMMA OrderlyAdvance ==
    ASSUME RoomInv, OrderlyInv, NEW w \in Workers, Advance(w) \/ Abort(w)
    PROVE  OrderlyInv' /\ RoomStep
  <1> DEFINE entity == txn[w].entity
  <1>1. PICK r \in Rooms : txn[w].room = r /\ txn[w].stage # "idle" /\ QuietStep
    <2>1. txn[w].stage # "idle" /\ QuietStep
      BY DEF Advance, Abort, CreateInsert, Compare, Update, Insert, Announce, ReviewSave,
             ReviewMark, DeleteMessages, DeleteRoom, QuietStep
    <2>2. QED
      BY <2>1, BusyRoom DEF RoomInv
  <1>2. /\ RoomFacts(r) /\ HoldsSound(w)
        /\ \A v \in Workers \ {w} : txn[v].stage # "idle" =>
                                        Conversation[txn[v].room] # Conversation[r]
        /\ rooms \in [Rooms -> Room \union {NoRoom, Deleted}]
        /\ reviews \in [Rooms -> Nat]
    BY <1>1 DEF OrderlyInv, Alone, RoomInv, TypeOK
  <1>3. /\ Exists(r) => rooms[r] \in Room
        /\ txn[w].stage \in Holding => entity \in Room
    BY <1>1, ExistingRoom DEF RoomInv, HoldsRoom
  <1>4. \A s : UseRows(s)' = UseRows(s)
    BY <1>1 DEF UseRows, QuietStep, storeVars
  <1>5. ASSUME NEW stage \in Stages \ {"idle"}, Goto(w, stage) \/ Finish(w),
               \A s \in Rooms \ {r} : rooms'[s] = rooms[s] /\ reviews'[s] = reviews[s],
               RoomFacts(r)',
               Follows(rooms[r].status, rooms'[r].status),
               Exists(r)' => \/ Exists(r)
                             \/ \A s \in Rooms : Conversation[s] = Conversation[r] => ~Exists(s),
               stage = "reviewed" => Exists(r)' /\ rooms'[r].status = "COMPLETED",
               stage = "emptied" => /\ Exists(r)'
                                    /\ rooms'[r].status \in {"CANCELLED", "REVIEWED"},
               stage \in {"announcing", "reviewed", "emptied"}
        PROVE  OrderlyInv' /\ RoomStep
    <2>1. /\ \A v \in Workers \ {w} : txn'[v] = txn[v]
          /\ txn'[w].stage \in {stage, "idle"}
          /\ txn'[w].stage # "idle" => txn'[w].room = r
      BY <1>1, <1>5, GotoTypes DEF RoomInv
    <2>2. txn'[w].stage # "idle" => HoldsSound(w)'
      BY <1>5, <2>1 DEF HoldsSound
    <2>3. QED
      BY <1>1, <1>2, <1>4, <1>5, <2>1, <2>2, RoomMoves
  <1>6. ASSUME NEW stage \in Stages \ {"idle"}, Goto(w, stage) \/ Finish(w),
               UNCHANGED <<rooms, reviews>>,
               stage = "emptied" => /\ Exists(r)
                                    /\ rooms[r].status \in {"CANCELLED", "REVIEWED"},
               stage \in {"announcing", "emptied"}
        PROVE  OrderlyInv' /\ RoomStep
    <2>1. RoomFacts(r)' /\ (Exists(r)' <=> Exists(r))
      BY <1>2, <1>4, <1>6 DEF RoomFacts, Exists
    <2>2. Follows(rooms[r].status, rooms'[r].status)
      BY <1>6 DEF Follows
    <2>3. QED
      BY <1>5, <1>6, <2>1, <2>2
  <1>7. CASE CreateInsert(w)
    <2>1. /\ rooms[r] = NoRoom /\ entity \in Room /\ SoundRoom(entity)
          /\ entity.paidAmount = None /\ entity.status = "REQUESTED"
          /\ \A s \in Rooms : Conversation[s] = Conversation[r] => ~Exists(s)
      BY <1>1, <1>2, <1>3, <1>7 DEF CreateInsert, HoldsSound, Holding
    <2>2. /\ rooms'[r] = entity /\ \A s \in Rooms \ {r} : rooms'[s] = rooms[s]
          /\ reviews' = reviews /\ Goto(w, "announcing")
      BY <1>1, <1>2, <1>7 DEF CreateInsert
    <2>3. rooms'[r] # NoRoom
      BY <2>1, <2>2, RoomIsNoMarker
    <2>4. RoomFacts(r)'
      BY <1>2, <1>4, <2>1, <2>2, <2>3 DEF RoomFacts, AmountRows
    <2>5. Follows(rooms[r].status, rooms'[r].status)
      BY <2>1, <2>2 DEF Follows, Announced, NoRoom
    <2>6. QED
      BY <1>5, <2>1, <2>2, <2>4, <2>5 DEF Stages
  <1>8. CASE Compare(w)
    <2> DEFINE columns == {c \in Columns : rooms[r][c] # entity[c]}
               next == [txn[w] EXCEPT !.stage = "updating", !.columns = columns]
    <2>1. txn[w].stage = "loaded" /\ UNCHANGED <<rooms, messages, reviews>> /\ Exists(r)
      BY <1>1, <1>2, <1>8 DEF Compare, HoldsSound
    <2>2. txn' = [txn EXCEPT ![w] = next]
      BY <1>1, <1>8, <2>1 DEF Compare, RoomInv, TypeOK
    <2>3. /\ next.stage = "updating" /\ next.columns = columns
          /\ next.room = r /\ next.entity = entity
      BY <1>1 DEF RoomInv, TypeOK, Transaction
    <2> HIDE DEF next
    <2>4. txn'[w] = next /\ \A v \in Workers \ {w} : txn'[v] = txn[v]
      BY <2>2 DEF RoomInv, TypeOK
    <2>5. HoldsSound(w)'
      BY <1>1, <1>2, <2>1, <2>3, <2>4 DEF HoldsSound, Exists
    <2>6. RoomFacts(r)' /\ (Exists(r)' <=> Exists(r))
      BY <1>2, <1>4, <2>1 DEF RoomFacts, Exists
    <2>7. Follows(rooms[r].status, rooms'[r].status)
      BY <2>1 DEF Follows
    <2>8. QED
      BY <1>1, <1>2, <1>4, <2>1, <2>3, <2>4, <2>5, <2>6, <2>7, RoomMoves
  <1>9. CASE Update(w)
    <2> DEFINE merged == [c \in Columns |-> IF c \in txn[w].columns
                                            THEN entity[c] ELSE rooms[r][c]]
    <2>1. /\ Exists(r) /\ SoundRoom(entity) /\ rooms[r] \in Room /\ entity \in Room
          /\ entity.paidAmount = rooms[r].paidAmount
          /\ Follows(rooms[r].status, entity.status)
          /\ txn[w].columns = {c \in Columns : rooms[r][c] # entity[c]}
      BY <1>1, <1>2, <1>3, <1>9 DEF Update, HoldsSound, Holding
    <2>2. /\ rooms' = [rooms EXCEPT ![r] = merged]
          /\ reviews' = reviews /\ Goto(w, "announcing")
      BY <1>1, <1>9, <2>1 DEF Update
    <2>3. merged = entity
      BY <2>1, MergedEntity
    <2> HIDE DEF merged
    <2>4. rooms'[r] = entity /\ \A s \in Rooms \ {r} : rooms'[s] = rooms[s]
      BY <1>1, <1>2, <2>2, <2>3
    <2>5. rooms'[r] # NoRoom
      BY <2>1, <2>4, RoomIsNoMarker
    <2>6. RoomFacts(r)'
      BY <1>2, <1>4, <2>1, <2>2, <2>4, <2>5 DEF RoomFacts
    <2>7. QED
      BY <1>5, <2>1, <2>2, <2>4, <2>6 DEF Stages
  <1>10. CASE Insert(w)
    BY <1>2, <1>10 DEF Insert, HoldsSound
  <1>11. CASE Announce(w)
    BY <1>6, <1>11 DEF Announce, Stages
  <1>12. CASE ReviewSave(w)
    <2>1. Exists(r) /\ rooms[r].status = "COMPLETED" /\ reviews[r] = 0
      BY <1>1, <1>2, <1>12 DEF ReviewSave, HoldsSound
    <2>2. /\ reviews'[r] = 1 /\ \A s \in Rooms \ {r} : reviews'[s] = reviews[s]
          /\ rooms' = rooms /\ Goto(w, "reviewed")
      BY <1>1, <1>2, <1>12, <2>1 DEF ReviewSave
    <2>3. RoomFacts(r)' /\ Exists(r)'
      BY <1>2, <1>4, <2>1, <2>2 DEF RoomFacts, Exists
    <2>4. Follows(rooms[r].status, rooms'[r].status)
      BY <2>2 DEF Follows
    <2>5. QED
      BY <1>5, <2>1, <2>2, <2>3, <2>4 DEF Stages
  <1>13. CASE ReviewMark(w)
    <2> DEFINE marked == [rooms[r] EXCEPT !.status = "REVIEWED"]
    <2>1. Exists(r) /\ rooms[r].status = "COMPLETED" /\ rooms[r] \in Room
      BY <1>1, <1>2, <1>3, <1>13 DEF ReviewMark, HoldsSound
    <2>2. /\ marked.status = "REVIEWED" /\ marked.paidAmount = rooms[r].paidAmount
          /\ marked.feedbackUsed = rooms[r].feedbackUsed
          /\ marked.feedbackCount = rooms[r].feedbackCount
          /\ marked \in Room
      BY <2>1 DEF Room, RoomStatus, Working
    <2>3. /\ rooms' = [rooms EXCEPT ![r] = marked]
          /\ reviews' = reviews /\ Goto(w, "announcing")
      BY <1>1, <1>2, <1>13, <2>1 DEF ReviewMark
    <2> HIDE DEF marked
    <2>4. rooms'[r] = marked /\ \A s \in Rooms \ {r} : rooms'[s] = rooms[s]
      BY <1>1, <1>2, <2>3
    <2>5. SoundRoom(marked) /\ marked # NoRoom
      BY <1>2, <2>1, <2>2, RoomIsNoMarker DEF RoomFacts, SoundRoom, Working
    <2>6. RoomFacts(r)'
      BY <1>2, <1>4, <2>1, <2>2, <2>3, <2>4, <2>5 DEF RoomFacts
    <2>7. Follows(rooms[r].status, rooms'[r].status)
      BY <2>1, <2>2, <2>4 DEF Follows, Announced
    <2>8. QED
      BY <1>5, <2>1, <2>3, <2>4, <2>6, <2>7 DEF Stages
  <1>14. CASE DeleteMessages(w)
    BY <1>1, <1>2, <1>6, <1>14 DEF DeleteMessages, HoldsSound, Stages
  <1>15. CASE DeleteRoom(w)
    <2>1. /\ Exists(r) /\ rooms[r].status \in {"CANCELLED", "REVIEWED"}
          /\ reviews' = reviews /\ Finish(w)
      BY <1>1, <1>2, <1>15 DEF DeleteRoom, HoldsSound
    <2>2. CASE messages[r]
      BY <1>1, <1>6, <1>15, <2>1, <2>2 DEF DeleteRoom, Stages
    <2>3. CASE ~messages[r]
      <3>1. rooms'[r] = Deleted /\ \A s \in Rooms \ {r} : rooms'[s] = rooms[s]
        BY <1>1, <1>2, <1>15, <2>3 DEF DeleteRoom
      <3>2. Deleted # NoRoom
        BY DEF Deleted, NoRoom
      <3>3. RoomFacts(r)' /\ ~Exists(r)'
        BY <1>2, <2>1, <3>1, <3>2 DEF RoomFacts, Exists
      <3>4. Follows(rooms[r].status, rooms'[r].status)
        BY <2>1, <3>1 DEF Follows, Announced, Deleted
      <3>5. QED
        BY <1>5, <2>1, <3>1, <3>3, <3>4 DEF Stages
    <2>4. QED
      BY <2>2, <2>3
  <1>16. CASE Abort(w)
    BY <1>6, <1>16 DEF Abort, Stages
  <1>17. QED
    BY <1>7, <1>8, <1>9, <1>10, <1>11, <1>12, <1>13, <1>14, <1>15, <1>16 DEF Advance

\* Ledger rows of other services, and steps of none of these tables.
LEMMA OrderlyRest ==
    ASSUME RoomInv, OrderlyInv,
           UNCHANGED vars \/ \E e \in OtherMoves : MoveElsewhere(e)
    PROVE  OrderlyInv' /\ RoomStep
  <1>1. UNCHANGED roomVars /\ \A s : UseRows(s)' = UseRows(s)
    <2>1. CASE UNCHANGED vars
      BY <2>1 DEF vars, storeVars, UseRows
    <2>2. ASSUME NEW e \in OtherMoves, MoveElsewhere(e)
          PROVE  UNCHANGED roomVars /\ \A s : UseRows(s)' = UseRows(s)
      <3>1. e.source # "CHAT_PAYMENT"
        BY RoomAssumption
      <3>2. ledger' = ledger \union {e} /\ UNCHANGED roomVars
        BY <2>2 DEF MoveElsewhere, Post, InsertEntry
      <3>3. QED
        BY <3>1, <3>2 DEF UseRows
    <2>3. QED
      BY <2>1, <2>2
  <1>2. \A r \in Rooms : RoomFacts(r)'
    BY <1>1 DEF roomVars, OrderlyInv, RoomFacts, Exists
  <1>3. OneRoomEach'
    BY <1>1 DEF roomVars, OrderlyInv, OneRoomEach, Exists
  <1>4. \A w \in Workers : txn'[w].stage # "idle" => Alone(w)' /\ HoldsSound(w)'
    BY <1>1 DEF roomVars, OrderlyInv, Alone, HoldsSound, Exists
  <1>5. QED
    BY <1>1, <1>2, <1>3, <1>4 DEF roomVars, OrderlyInv, RoomStep

\* Orderly handlers are handlers.
LEMMA OrderlyIsSpec == OrderlySpec => Spec
  <1>1. [OrderlyNext]_<<vars, inTurn>> => [Next]_vars
    BY DEF OrderlyNext, Next
  <1>2. OrderlyInit => Init
    BY DEF OrderlyInit
  <1>3. QED
    BY <1>1, <1>2, PTL DEF OrderlySpec, Spec

\* A step of orderly handlers keeps the invariant and the announced order.
LEMMA OrderlySteps ==
    ASSUME RoomInv, OrderlyInv, inTurn, [OrderlyNext]_<<vars, inTurn>>
    PROVE  OrderlyInv' /\ RoomStep
  BY OrderlyBegin, OrderlyAdvance, OrderlyRest DEF OrderlyNext

\* OrderlyInv is inductive when handlers of a conversation do not overlap.
LEMMA OrderlyInductive == OrderlySpec => [](inTurn => OrderlyInv)
  <1>1. OrderlyInit => OrderlyInv
    <2>1. SUFFICES ASSUME Init PROVE OrderlyInv
      BY DEF OrderlyInit
    <2>2. \A r \in Rooms : rooms[r] = NoRoom /\ ~Exists(r) /\ UseRows(r) = {} /\ reviews[r] = 0
      BY <2>1 DEF Init, StoreInit, Exists, UseRows
    <2>3. \A w \in Workers : txn[w].stage = "idle"
      BY <2>1 DEF Init, Idle
    <2>4. QED
      BY <2>2, <2>3 DEF OrderlyInv, RoomFacts, OneRoomEach
  <1>2. RoomInv /\ (inTurn => OrderlyInv) /\ [OrderlyNext]_<<vars, inTurn>>
           => (inTurn => OrderlyInv)'
    <2>1. [OrderlyNext]_<<vars, inTurn>> => UNCHANGED inTurn
      BY DEF OrderlyNext
    <2>2. QED
      BY <2>1, OrderlySteps
  <1>3. QED
    BY <1>1, <1>2, OrderlyIsSpec, RoomInductive, PTL DEF OrderlySpec

\* Handlers of a conversation one after the other, each of which may end half
\* way: a room tells what was paid for it (payChatRoom, requestPriceChange),
\* its revisions stay within the offer (requestRevision), and there is one room
\* per post and requester and one review per room (createChatRoom, createReview).
THEOREM OrderlyRoomsAreSound == OrderlySpec => []SerialRooms
  <1>1. RoomInv /\ (inTurn => OrderlyInv) => SerialRooms
    <2>1. SUFFICES ASSUME RoomInv, OrderlyInv, inTurn PROVE SerialRooms
      BY DEF SerialRooms
    <2>2. ASSUME NEW r \in Rooms, Exists(r)
          PROVE  LET amounts == {-e.coins : e \in {f \in ledger : /\ f.type = "USE"
                                                         /\ f.source = "CHAT_PAYMENT"
                                                         /\ f.id = r}}
                 IN amounts = IF rooms[r].paidAmount = None THEN {}
                              ELSE {rooms[r].paidAmount}
      <3> DEFINE amount == rooms[r].paidAmount
                 rows == {f \in ledger : f.type = "USE" /\ f.source = "CHAT_PAYMENT" /\ f.id = r}
      <3>1. rows = AmountRows(r, amount)
        BY <2>1, <2>2 DEF OrderlyInv, RoomFacts, UseRows
      <3>2. CASE amount = None
        BY <3>1, <3>2 DEF AmountRows
      <3>3. CASE amount # None
        <4>1. amount \in Nat
          BY <2>1, <2>2, <3>3, ExistingRoom, RoomAssumption DEF RoomInv, Room
        <4>2. ChatEntry(Requester[r], "USE", r, -amount).coins = -amount
          BY DEF ChatEntry
        <4>3. rows = {ChatEntry(Requester[r], "USE", r, -amount)}
          BY <3>1, <3>3 DEF AmountRows
        <4>4. -(-amount) = amount
          BY <4>1
        <4> HIDE DEF amount, rows
        <4>5. {-e.coins : e \in rows} = {amount}
          BY <4>2, <4>3, <4>4
        <4>6. QED
          BY <3>3, <4>5 DEF amount, rows
      <3>4. QED
        BY <3>2, <3>3
    <2>3. PaidAmountMatchesLedger
      BY <2>2 DEF PaidAmountMatchesLedger
    <2>4. RevisionsWithinOffer
      BY <2>1 DEF RevisionsWithinOffer, OrderlyInv, RoomFacts, SoundRoom
    <2>5. NoDuplicates
      BY <2>1 DEF NoDuplicates, OrderlyInv, OneRoomEach, RoomFacts
    <2>6. QED
      BY <2>3, <2>4, <2>5 DEF SerialRooms
  <1>2. QED
    BY <1>1, OrderlyIsSpec, RoomInductive, OrderlyInductive, PTL

\* Handlers of a conversation one after the other: the status of a room changes
\* as the comments over the handlers announce.
THEOREM OrderlyStatus == OrderlySpec => SerialStatus
  <1>1. RoomInv /\ (inTurn => OrderlyInv) /\ [OrderlyNext]_<<vars, inTurn>>
           => [inTurn => RoomStep]_vars
    BY OrderlySteps
  <1>2. QED
    BY <1>1, OrderlyIsSpec, RoomInductive, OrderlyInductive, PTL
       DEF OrderlySpec, SerialStatus

-----------------------------------------------------------------------------
(* The summary of an artist's reviews.                                     *)

\* Ids are given in order.
IdsInOrder == \E n \in 0..MaxReviews : Works!Reviews = 1..n

\* A request under way names a room and, once it has saved it, a review.
RequestFacts(t, ids) ==
    /\ t.stage # "idle" => t.room \in Jobs /\ t.star \in Stars
    /\ t.stage = "mapping" => t.id \in ids

\* What a summary has read: reviews that are still there.
SummaryRecord ==
    /\ summary = [stage |-> summary.stage, reviews |-> summary.reviews,
                  average |-> summary.average, completed |-> summary.completed,
                  top |-> summary.top]
    /\ summary.reviews \subseteq Works!Reviews
    /\ summary.stage # "answered" => summary.top = <<>>

\* Whatever overlaps: rows, requests and the summary fit together.
SummaryInv ==
    /\ Works!TypeOK
    /\ IdsInOrder
    /\ \A h \in Reviewers : RequestFacts(summaryTxn[h], Works!Reviews)
    /\ SummaryRecord
    /\ Works!KeywordsWithinReviews

\* What a request that is about to save has found still holds.
FoundUnreviewed(t) ==
    t.stage = "saving" =>
        /\ status[t.room] # "working"
        /\ \A i \in Works!Reviews : review[i].room # t.room

\* One review per room, and of no room that was not completed.
SerialTables ==
    /\ \A i, j \in Works!Reviews : review[i].room = review[j].room => i = j
    /\ \A i \in Works!Reviews : status[review[i].room] # "working"
    /\ \A h \in Reviewers : FoundUnreviewed(summaryTxn[h])

\* In turn.
SummarySerial == SerialTables /\ OneReviewer(summaryTxn) /\ Works!WorksCoverReviews

-----------------------------------------------------------------------------
(* The average.                                                            *)

\* An instance has an operator of its own for the size of a set.
LEMMA WorksCardinality == \A T : Works!Cardinality(T) = Cardinality(T)
  BY DEF Works!Cardinality, Cardinality

\* Reviews are finitely many.
LEMMA FiniteReviews ==
    ASSUME NEW S \in SUBSET Works!Reviews
    PROVE  IsFiniteSet(S) /\ Cardinality(S) \in Nat
  <1>1. IsFiniteSet(1..MaxReviews)
    BY FS_Interval, SummaryAssumption
  <1>2. S \subseteq 1..MaxReviews
    BY DEF Works!Reviews, Works!Ids
  <1>3. QED
    BY <1>1, <1>2, FS_Subset, FS_CardinalityType

\* The sum of the stars of S is at most five times their number.
LEMMA SumBound ==
    ASSUME NEW S \in SUBSET Works!Reviews
    PROVE  Works!Sum(S) \in 0..(5 * Cardinality(S))
  <1> DEFINE N(n) == Works!Starred(n, S)
             A == N(1) \union N(2)
             B == A \union N(3)
             C == B \union N(4)
             D == C \union N(5)
  <1>1. N(1) \subseteq S /\ N(2) \subseteq S /\ N(3) \subseteq S /\ N(4) \subseteq S /\ N(5) \subseteq S
    BY DEF Works!Starred
  <1>2. N(1) \intersect N(2) = {} /\ A \intersect N(3) = {} /\ B \intersect N(4) = {} /\ C \intersect N(5) = {}
    BY DEF Works!Starred
  <1>3. \A T \in SUBSET S : IsFiniteSet(T) /\ Cardinality(T) \in Nat
    BY FiniteReviews
  <1> HIDE DEF N
  <1>4. \A T, U \in SUBSET S : T \intersect U = {} =>
            Cardinality(T \union U) = Cardinality(T) + Cardinality(U)
    <2> SUFFICES ASSUME NEW T \in SUBSET S, NEW U \in SUBSET S, T \intersect U = {}
                 PROVE  Cardinality(T \union U) = Cardinality(T) + Cardinality(U)
      OBVIOUS
    <2>1. IsFiniteSet(T) /\ IsFiniteSet(U) /\ Cardinality(T) \in Nat /\ Cardinality(U) \in Nat
      BY <1>3
    <2>2. Cardinality(T \union U) = Cardinality(T) + Cardinality(U) - Cardinality(T \intersect U)
      BY <2>1, FS_Union
    <2>3. Cardinality(T \intersect U) = 0
      BY FS_EmptySet
    <2>4. QED
      BY <2>1, <2>2, <2>3
  <1>5. Cardinality(A) = Cardinality(N(1)) + Cardinality(N(2))
    BY <1>1, <1>2, <1>4
  <1>6. Cardinality(B) = Cardinality(A) + Cardinality(N(3))
    BY <1>1, <1>2, <1>4
  <1>7. Cardinality(C) = Cardinality(B) + Cardinality(N(4))
    BY <1>1, <1>2, <1>4
  <1>8. Cardinality(D) = Cardinality(C) + Cardinality(N(5))
    BY <1>1, <1>2, <1>4
  <1>9. D \subseteq S
    BY <1>1
  <1>10. Cardinality(D) <= Cardinality(S)
    BY <1>3, <1>9, FS_Subset
  <1>11. /\ Cardinality(N(1)) \in Nat /\ Cardinality(N(2)) \in Nat /\ Cardinality(N(3)) \in Nat
         /\ Cardinality(N(4)) \in Nat /\ Cardinality(N(5)) \in Nat /\ Cardinality(S) \in Nat
    BY <1>1, <1>3
  <1>12. Works!Sum(S) = Cardinality(N(1)) + 2 * Cardinality(N(2)) + 3 * Cardinality(N(3))
                          + 4 * Cardinality(N(4)) + 5 * Cardinality(N(5))
    BY WorksCardinality DEF Works!Sum, N
  <1> HIDE DEF A, B, C, D
  <1>13. QED
    BY <1>5, <1>6, <1>7, <1>8, <1>10, <1>11, <1>12

\* Division rounds down.
LEMMA Quotient ==
    ASSUME NEW a \in Int, NEW b \in Nat \ {0}
    PROVE  /\ a \div b \in Int
           /\ b * (a \div b) <= a /\ a < b * (a \div b) + b
  BY Z3

\* Half a hundredth more and rounded down is rounded to the next hundredth.
LEMMA AverageRounded ==
    ASSUME NEW S \in SUBSET Works!Reviews, S # {}
    PROVE  LET diff == 200 * Works!Sum(S) - 2 * Works!AverageOf(S) * Cardinality(S)
           IN  /\ -Cardinality(S) <= diff /\ diff <= Cardinality(S)
               /\ Works!AverageOf(S) \in 0..500
  <1> DEFINE c == Cardinality(S)
             s == Works!Sum(S)
             q == (200 * s + c) \div (2 * c)
  <1>1. c \in Nat /\ c # 0
    <2>1. IsFiniteSet(S) /\ c \in Nat
      BY FiniteReviews
    <2>2. QED
      BY <2>1, FS_EmptySet
  <1>2. s \in Nat /\ s <= 5 * c
    BY SumBound, <1>1
  <1>3. Works!AverageOf(S) = q
    BY WorksCardinality DEF Works!AverageOf
  <1> HIDE DEF c, s
  <1>4. 200 * s + c \in Int /\ 2 * c \in Nat \ {0}
    BY <1>1, <1>2
  <1>5. q \in Int /\ (2 * c) * q <= 200 * s + c /\ 200 * s + c < (2 * c) * q + 2 * c
    BY <1>4, Quotient
  <1> HIDE DEF q
  <1>6. (2 * c) * q = 2 * q * c
    BY <1>1, <1>5
  <1>7. 2 * q * c \in Int
    BY <1>1, <1>5
  <1>8. -c <= 200 * s - 2 * q * c /\ 200 * s - 2 * q * c <= c
    BY <1>1, <1>2, <1>5, <1>6, <1>7
  <1>9. q >= 0
    <2>1. SUFFICES ASSUME q <= -1 PROVE FALSE
      BY <1>5
    <2>2. (2 * c) * q <= (2 * c) * (-1)
      BY <2>1, <1>1, <1>5
    <2>3. QED
      BY <2>2, <1>1, <1>2, <1>5, <1>6, <1>7
  <1>10. q <= 500
    <2>1. SUFFICES ASSUME q >= 501 PROVE FALSE
      BY <1>5
    <2>2. (2 * c) * q >= (2 * c) * 501
      BY <2>1, <1>1, <1>5
    <2>3. QED
      BY <2>2, <1>1, <1>2, <1>5, <1>6, <1>7
  <1>11. QED
    BY <1>3, <1>5, <1>8, <1>9, <1>10 DEF c, s

-----------------------------------------------------------------------------
(* The keywords.                                                           *)

\* R says which of the members of S comes before which.
Orders(R, S) ==
    /\ \A k \in S : <<k, k>> \notin R
    /\ \A k, l, m \in S : <<k, l>> \in R /\ <<l, m>> \in R => <<k, m>> \in R
    /\ \A k, l \in S : k = l \/ <<k, l>> \in R \/ <<l, k>> \in R

\* How many come before k.
PlaceIn(R, S, k) == Cardinality({l \in S : <<l, k>> \in R})

\* Each member of a finite set has a place of its own, and every place is taken.
LEMMA PlacesTaken ==
    ASSUME NEW S, IsFiniteSet(S), NEW R, Orders(R, S)
    PROVE  /\ Cardinality(S) \in Nat
           /\ \A k \in S : PlaceIn(R, S, k) \in 0..(Cardinality(S) - 1)
           /\ \A k, l \in S : <<k, l>> \in R => PlaceIn(R, S, k) < PlaceIn(R, S, l)
           /\ \A n \in 0..(Cardinality(S) - 1) : \E k \in S : PlaceIn(R, S, k) = n
  <1> DEFINE Before(k) == {l \in S : <<l, k>> \in R}
             place == [k \in S |-> Cardinality(Before(k))]
             c == Cardinality(S)
  <1>1. c \in Nat
    BY FS_CardinalityType
  <1>2. \A T \in SUBSET S : IsFiniteSet(T) /\ Cardinality(T) \in Nat /\ Cardinality(T) <= c
    BY FS_Subset, FS_CardinalityType
  <1>3. ASSUME NEW k \in S
        PROVE  place[k] \in 0..(c - 1)
    <2>1. Before(k) \subseteq S \ {k}
      BY DEF Orders
    <2>2. IsFiniteSet(S \ {k}) /\ Cardinality(S \ {k}) = c - 1
      BY FS_RemoveElement
    <2> HIDE DEF Before
    <2>3. Cardinality(Before(k)) <= Cardinality(S \ {k})
      BY <2>1, <2>2, FS_Subset
    <2>4. Cardinality(Before(k)) \in Nat
      BY <1>2 DEF Before
    <2> HIDE DEF c
    <2>5. QED
      BY <1>1, <2>2, <2>3, <2>4
  <1>4. ASSUME NEW k \in S, NEW l \in S, <<k, l>> \in R
        PROVE  place[k] < place[l]
    <2>1. Before(k) \subseteq Before(l) \ {k}
      BY <1>4 DEF Orders
    <2>2. k \in Before(l) /\ IsFiniteSet(Before(l)) /\ Cardinality(Before(l)) \in Nat
      BY <1>2, <1>4
    <2>3. IsFiniteSet(Before(l) \ {k}) /\ Cardinality(Before(l) \ {k}) = Cardinality(Before(l)) - 1
      BY <2>2, FS_RemoveElement
    <2> HIDE DEF Before
    <2>4. Cardinality(Before(k)) <= Cardinality(Before(l) \ {k})
      BY <2>1, <2>3, FS_Subset
    <2>5. Cardinality(Before(k)) \in Nat
      BY <1>2 DEF Before
    <2>6. QED
      BY <2>2, <2>3, <2>4, <2>5
  <1>5. \A n \in 0..(c - 1) : \E k \in S : place[k] = n
    <2> DEFINE T == 0..(c - 1)
    <2>1. IsFiniteSet(T) /\ Cardinality(T) = c
      <3>1. /\ IsFiniteSet(0..(c - 1))
            /\ Cardinality(0..(c - 1)) = IF 0 > c - 1 THEN 0 ELSE (c - 1) - 0 + 1
        BY <1>1, FS_Interval
      <3> HIDE DEF c
      <3>2. QED
        BY <1>1, <3>1
    <2>2. place \in [S -> T]
      BY <1>3
    <2>3. \A k, l \in S : place[k] = place[l] => k = l
      <3> SUFFICES ASSUME NEW k \in S, NEW l \in S, place[k] = place[l], k # l
                   PROVE  FALSE
        OBVIOUS
      <3>1. place[k] \in Int /\ place[l] \in Int
        BY <1>3
      <3>2. CASE <<k, l>> \in R
        BY <1>4, <3>1, <3>2
      <3>3. CASE <<l, k>> \in R
        BY <1>4, <3>1, <3>3
      <3>4. QED
        BY <3>2, <3>3 DEF Orders
    <2> HIDE DEF place, T
    <2>4. place \in Injection(S, T)
      BY <2>2, <2>3 DEF Injection, IsInjective
    <2>5. place \in Surjection(S, T)
      BY <2>1, <2>4, FS_Injection DEF c
    <2>6. QED
      BY <2>5 DEF Surjection, T
  <1>6. QED
    BY <1>1, <1>3, <1>4, <1>5 DEF PlaceIn

\* A keyword is given by as many reviews as there are, or fewer.
LEMMA TimesBound ==
    ASSUME NEW S \in SUBSET Works!Reviews, NEW k
    PROVE  Works!Times(k, S) \in 0..Cardinality(S)
  <1> DEFINE T == {i \in S : <<i, k>> \in maps /\ k \in isActive}
  <1>1. Works!Times(k, S) = Cardinality(T)
    BY WorksCardinality DEF Works!Times
  <1>2. IsFiniteSet(S) /\ Cardinality(S) \in Nat
    BY FiniteReviews
  <1>3. IsFiniteSet(T) /\ Cardinality(T) <= Cardinality(S)
    BY <1>2, FS_Subset
  <1>4. Cardinality(T) \in Nat
    BY <1>3, FS_CardinalityType
  <1> HIDE DEF T
  <1>5. QED
    BY <1>1, <1>2, <1>3, <1>4

\* The ranking has each keyword that was given once, those given more often
\* before the others.
LEMMA Ranked ==
    ASSUME NEW S \in SUBSET Works!Reviews
    PROVE  LET c == Cardinality(Works!Given(S))
               place(k) == Works!Place(k, S)
           IN  /\ c \in Nat
               /\ \A n \in 1..c : /\ Works!Ranking(S)[n] \in Works!Given(S)
                                  /\ place(Works!Ranking(S)[n]) = n
               /\ \A k \in Works!Given(S) : place(k) \in 1..c
               /\ \A k, l \in Works!Given(S) : Works!Before(k, l, S) => place(k) < place(l)
  <1> DEFINE G == Works!Given(S)
             times(k) == Works!Times(k, S)
             R == {p \in G \X G : Works!Before(p[1], p[2], S)}
             before(k) == PlaceIn(R, G, k)
             c == Cardinality(G)
  <1>1. IsFiniteSet(G) /\ \A k \in G : k \in Nat
    BY FS_Subset, SummaryAssumption DEF Works!Given
  <1>2. \A k \in G : times(k) \in Nat
    <2>1. TAKE k \in G
    <2>2. times(k) \in 0..Cardinality(S) /\ Cardinality(S) \in Nat
      BY TimesBound, FiniteReviews
    <2> HIDE DEF times
    <2>3. QED
      BY <2>2
  <1>3. \A k, l \in G : <<k, l>> \in R <=> times(k) > times(l) \/ (times(k) = times(l) /\ k < l)
    BY DEF Works!Before
  <1> HIDE DEF R, times
  <1>4. \A k \in G : <<k, k>> \notin R
    BY <1>1, <1>2, <1>3
  <1>5. \A k, l, m \in G : <<k, l>> \in R /\ <<l, m>> \in R => <<k, m>> \in R
    BY <1>1, <1>2, <1>3
  <1>6. ASSUME NEW k \in G, NEW l \in G, k # l
        PROVE  <<k, l>> \in R \/ <<l, k>> \in R
    <2>1. k \in Nat /\ l \in Nat /\ times(k) \in Nat /\ times(l) \in Nat
      BY <1>1, <1>2
    <2>2. k < l \/ l < k
      BY <2>1, <1>6
    <2>3. times(k) > times(l) \/ times(l) > times(k) \/ times(k) = times(l)
      BY <2>1
    <2>4. QED
      BY <1>3, <2>2, <2>3
  <1>7. \A k, l \in G : k = l \/ <<k, l>> \in R \/ <<l, k>> \in R
    BY <1>6
  <1> HIDE DEF G
  <1>8. /\ c \in Nat
        /\ \A k \in G : before(k) \in 0..(c - 1)
        /\ \A k, l \in G : <<k, l>> \in R => before(k) < before(l)
        /\ \A n \in 0..(c - 1) : \E k \in G : before(k) = n
    <2>1. Orders(R, G)
      BY <1>4, <1>5, <1>7 DEF Orders
    <2>2. QED
      BY <1>1, <2>1, PlacesTaken
  <1>9. ASSUME NEW k \in G
        PROVE  Works!Place(k, S) = 1 + before(k)
    <2>1. {l \in G : <<l, k>> \in R} = {l \in Works!Given(S) : Works!Before(l, k, S)}
      BY <1>9 DEF G, R
    <2>2. QED
      BY <2>1, WorksCardinality DEF Works!Place, PlaceIn
  <1> HIDE DEF before, c
  <1>10. ASSUME NEW n \in 1..c
        PROVE  Works!Ranking(S)[n] \in G /\ Works!Place(Works!Ranking(S)[n], S) = n
    <2>1. n - 1 \in 0..(c - 1)
      BY <1>8
    <2>2. PICK k \in G : before(k) = n - 1
      BY <1>8, <2>1
    <2>3. Works!Place(k, S) = n
      BY <1>9, <2>2
    <2>4. Works!Ranking(S)[n] = CHOOSE l \in Works!Given(S) : Works!Place(l, S) = n
      BY WorksCardinality DEF Works!Ranking, c, G
    <2>5. QED
      BY <2>3, <2>4 DEF G
  <1>11. \A k \in G : Works!Place(k, S) \in 1..c
    BY <1>8, <1>9
  <1>12. \A k, l \in G : Works!Before(k, l, S) => Works!Place(k, S) < Works!Place(l, S)
    <2>1. SUFFICES ASSUME NEW k \in G, NEW l \in G, Works!Before(k, l, S)
                   PROVE  Works!Place(k, S) < Works!Place(l, S)
      OBVIOUS
    <2>2. <<k, l>> \in R
      BY <2>1 DEF R
    <2>3. before(k) \in Int /\ before(l) \in Int
      BY <1>8
    <2>4. QED
      BY <1>8, <1>9, <2>2, <2>3
  <1>13. QED
    BY <1>8, <1>10, <1>11, <1>12 DEF G, c

\* What TopOf makes of it: the keywords with the lowest places.
LEMMA TopRanked ==
    ASSUME NEW S \in SUBSET Works!Reviews
    PROVE  LET top == Works!TopOf(S)
               given == Works!Given(S)
           IN  /\ \A n \in DOMAIN top :
                     /\ top[n].keyword \in given /\ Works!Place(top[n].keyword, S) = n
                     /\ top[n].count = Works!Times(top[n].keyword, S)
               /\ \A k \in given : Works!Place(k, S) \notin DOMAIN top =>
                     \A n \in DOMAIN top : n < Works!Place(k, S)
               /\ DOMAIN top \subseteq Nat \ {0}
               /\ given # {} /\ Top > 0 => 1 \in DOMAIN top
  <1> DEFINE top == Works!TopOf(S)
             given == Works!Given(S)
             c == Cardinality(given)
             shown == IF Top < c THEN Top ELSE c
  <1>1. /\ c \in Nat
        /\ \A n \in 1..c : /\ Works!Ranking(S)[n] \in given
                           /\ Works!Place(Works!Ranking(S)[n], S) = n
        /\ \A k \in given : Works!Place(k, S) \in 1..c
    BY Ranked
  <1>2. top = [n \in 1..shown |-> [keyword |-> Works!Ranking(S)[n],
                                   count |-> Works!Times(Works!Ranking(S)[n], S)]]
    BY WorksCardinality DEF Works!TopOf
  <1>3. given # {} => c # 0
    <2>1. IsFiniteSet(given)
      BY FS_Subset, SummaryAssumption DEF Works!Given
    <2>2. QED
      BY <2>1, FS_EmptySet
  <1> HIDE DEF top, c, given
  <1>4. shown \in Nat /\ shown <= c /\ (shown = c \/ shown = Top)
    BY <1>1, SummaryAssumption
  <1>5. DOMAIN top = 1..shown
    BY <1>2
  <1>6. \A n \in 1..shown : n \in 1..c
    BY <1>1, <1>4
  <1> HIDE DEF shown
  <1>7. ASSUME NEW n \in DOMAIN top
        PROVE  /\ top[n].keyword \in given /\ Works!Place(top[n].keyword, S) = n
               /\ top[n].count = Works!Times(top[n].keyword, S)
    BY <1>1, <1>2, <1>5, <1>6, <1>7
  <1>8. ASSUME NEW k \in given, Works!Place(k, S) \notin DOMAIN top, NEW n \in DOMAIN top
        PROVE  n < Works!Place(k, S)
    BY <1>1, <1>4, <1>5, <1>8
  <1>9. given # {} /\ Top > 0 => 1 \in DOMAIN top
    BY <1>1, <1>3, <1>4, <1>5
  <1>10. DOMAIN top \subseteq Nat \ {0}
    BY <1>4, <1>5
  <1>11. QED
    BY <1>7, <1>8, <1>9, <1>10 DEF top, given

\* The first ones of the ranking are the most frequent ones.
LEMMA TopMostFrequent ==
    ASSUME NEW S \in SUBSET Works!Reviews
    PROVE  LET top == Works!TopOf(S) IN
           /\ \A m, n \in DOMAIN top : m < n => top[m].count >= top[n].count
           /\ \A k \in Keywords : k \in {top[n].keyword : n \in DOMAIN top}
                  \/ \A n \in DOMAIN top : Works!Times(k, S) <= top[n].count
           /\ \A m, n \in DOMAIN top : m < n => top[m].keyword # top[n].keyword
           /\ Works!Given(S) # {} /\ Top > 0 => top # <<>>
  <1> DEFINE top == Works!TopOf(S)
             given == Works!Given(S)
             place(k) == Works!Place(k, S)
             times(k) == Works!Times(k, S)
  <1>1. /\ \A n \in DOMAIN top : /\ top[n].keyword \in given /\ place(top[n].keyword) = n
                                 /\ top[n].count = times(top[n].keyword)
        /\ \A k \in given : place(k) \notin DOMAIN top => \A n \in DOMAIN top : n < place(k)
        /\ DOMAIN top \subseteq Nat \ {0}
        /\ given # {} /\ Top > 0 => 1 \in DOMAIN top
    BY TopRanked
  <1>2. \A k \in given : place(k) \in Nat
    <2>1. /\ Cardinality(given) \in Nat
          /\ \A k \in given : place(k) \in 1..Cardinality(given)
      BY Ranked
    <2> HIDE DEF given, place
    <2>2. QED
      BY <2>1
  <1>3. \A k, l \in given : Works!Before(k, l, S) => place(k) < place(l)
    BY Ranked
  <1>4. \A k : times(k) \in Nat
    <2>1. TAKE k
    <2>2. times(k) \in 0..Cardinality(S) /\ Cardinality(S) \in Nat
      BY TimesBound, FiniteReviews
    <2> HIDE DEF times
    <2>3. QED
      BY <2>2
  <1>5. \A k, l \in given : times(k) > times(l) => place(k) < place(l)
    BY <1>3 DEF Works!Before
  <1>6. \A k \in Keywords \ given : times(k) = 0
    <2>1. \A k \in Keywords \ given : ~(times(k) > 0)
      BY DEF Works!Given
    <2> HIDE DEF times, given
    <2>2. QED
      BY <1>4, <2>1
  <1>7. \A k, l \in given : place(k) = place(l) => k = l
    <2>1. TAKE k, l \in given
    <2>2. k \in Nat /\ l \in Nat
      BY SummaryAssumption DEF Works!Given
    <2>3. k < l /\ times(k) = times(l) => place(k) < place(l)
      BY <1>3 DEF Works!Before
    <2>4. l < k /\ times(k) = times(l) => place(l) < place(k)
      BY <1>3 DEF Works!Before
    <2> HIDE DEF given, place, times
    <2>5. QED
      BY <1>2, <1>4, <1>5, <2>2, <2>3, <2>4
  <1> HIDE DEF top, given, place, times
  <1>8. ASSUME NEW m \in DOMAIN top, NEW n \in DOMAIN top, m < n
        PROVE  top[m].count >= top[n].count /\ top[m].keyword # top[n].keyword
    <2>1. m \in Nat /\ n \in Nat
      BY <1>1
    <2>2. ~(times(top[n].keyword) > times(top[m].keyword))
      BY <1>1, <1>5, <1>8, <2>1
    <2>3. QED
      BY <1>1, <1>4, <1>8, <2>1, <2>2
  <1>9. ASSUME NEW k \in Keywords, k \notin {top[n].keyword : n \in DOMAIN top},
               NEW n \in DOMAIN top
        PROVE  times(k) <= top[n].count
    <2>1. CASE k \notin given
      BY <1>1, <1>4, <1>6, <2>1
    <2>2. CASE k \in given
      <3>1. place(k) \notin DOMAIN top
        BY <1>1, <1>7, <1>9, <2>2
      <3>2. n < place(k) /\ n \in Nat /\ place(k) \in Nat
        BY <1>1, <1>2, <2>2, <3>1
      <3>3. ~(times(k) > times(top[n].keyword))
        BY <1>1, <1>5, <2>2, <3>2
      <3>4. QED
        BY <1>1, <1>4, <3>3
    <2>3. QED
      BY <2>1, <2>2
  <1>10. given # {} /\ Top > 0 => top # <<>>
    BY <1>1
  <1>11. QED
    BY <1>8, <1>9, <1>10 DEF top, given, times

\* Only keywords in use are shown.
LEMMA ShownInUse ==
    ASSUME NEW S \in SUBSET Works!Reviews
    PROVE  \A n \in DOMAIN Works!TopOf(S) : Works!TopOf(S)[n].keyword \in isActive
  <1> DEFINE top == Works!TopOf(S)
  <1>1. ASSUME NEW k \in Works!Given(S)
        PROVE  k \in isActive
    <2>1. SUFFICES ASSUME k \notin isActive PROVE FALSE
      OBVIOUS
    <2>2. {i \in S : <<i, k>> \in maps /\ k \in isActive} = {}
      BY <2>1
    <2>3. Works!Times(k, S) = 0
      BY <2>2, FS_EmptySet, WorksCardinality DEF Works!Times
    <2>4. QED
      BY <1>1, <2>3 DEF Works!Given
  <1>2. \A n \in DOMAIN top : top[n].keyword \in Works!Given(S)
    BY TopRanked
  <1>3. QED
    BY <1>1, <1>2

-----------------------------------------------------------------------------
(* The invariant.                                                          *)

\* What the state alone implies.
LEMMA SummaryShows ==
    ASSUME SummaryInv
    PROVE  Works!TopIsTop /\ Works!AverageIsRounded
  <1>1. summary.reviews \in SUBSET Works!Reviews
    BY DEF SummaryInv, SummaryRecord
  <1>2. Works!TopIsTop
    <2>1. SUFFICES ASSUME summary.stage = "ranking" PROVE Works!TopIsTop
      BY DEF Works!TopIsTop
    <2> DEFINE S == summary.reviews
    <2>2. ASSUME NEW k \in isActive
          PROVE  Works!Times(k, S) = Cardinality({i \in S : <<i, k>> \in maps})
      <3>1. {i \in S : <<i, k>> \in maps /\ k \in isActive} = {i \in S : <<i, k>> \in maps}
        OBVIOUS
      <3>2. QED
        BY <3>1, WorksCardinality DEF Works!Times
    <2>3. isActive \subseteq Keywords
      BY DEF SummaryInv, Works!TypeOK
    <2>4. \A n \in DOMAIN Works!TopOf(S) : Works!TopOf(S)[n].keyword \in isActive
      BY <1>1, ShownInUse
    <2>5. QED
      BY <1>1, <2>2, <2>3, <2>4, TopMostFrequent, WorksCardinality DEF Works!TopIsTop
  <1>3. ASSUME NEW S \in SUBSET Works!Reviews
        PROVE  LET diff == 200 * Works!Sum(S) - 2 * Works!AverageOf(S) * Cardinality(S)
               IN  -Cardinality(S) <= diff /\ diff <= Cardinality(S)
    <2>1. CASE S # {}
      BY <2>1, AverageRounded
    <2>2. CASE S = {}
      <3>1. Works!AverageOf(S) = 0 /\ Cardinality(S) = 0
        BY <2>2, FS_EmptySet DEF Works!AverageOf
      <3>2. Works!Sum(S) = 0
        BY <3>1, SumBound
      <3>3. QED
        BY <3>1, <3>2
    <2>3. QED
      BY <2>1, <2>2
  <1>4. Works!AverageIsRounded
    BY <1>3, WorksCardinality DEF Works!AverageIsRounded
  <1>5. QED
    BY <1>2, <1>4

\* A new review takes the next id.
LEMMA NewReview ==
    ASSUME SummaryInv, NEW h \in Reviewers, Works!ReviewSave(h)
    PROVE  \E i \in Works!Ids \ Works!Reviews :
              /\ review' = [review EXCEPT ![i] = [room |-> summaryTxn[h].room,
                                                  star |-> summaryTxn[h].star]]
              /\ summaryTxn' = [summaryTxn EXCEPT ![h].stage = "mapping", ![h].id = i]
              /\ [room |-> summaryTxn[h].room, star |-> summaryTxn[h].star]
                    \in [room: Jobs, star: Stars]
              /\ Works!Reviews' = Works!Reviews \union {i}
              /\ IdsInOrder'
  <1>1. PICK n \in 0..MaxReviews : Works!Reviews = 1..n
    BY DEF SummaryInv, IdsInOrder
  <1>2. Cardinality(1..n) = n
    <2>1. Cardinality(1..n) = IF 1 > n THEN 0 ELSE n - 1 + 1
      BY FS_Interval, SummaryAssumption
    <2>2. QED
      BY <2>1, SummaryAssumption
  <1> DEFINE i == n + 1
             row == [room |-> summaryTxn[h].room, star |-> summaryTxn[h].star]
  <1>3. /\ review' = [review EXCEPT ![i] = row]
        /\ summaryTxn' = [summaryTxn EXCEPT ![h].stage = "mapping", ![h].id = i]
    BY <1>1, <1>2, WorksCardinality DEF Works!ReviewSave
  <1>4. i \in Works!Ids \ Works!Reviews
    <2>1. Works!Reviews # Works!Ids
      BY DEF Works!ReviewSave
    <2>2. QED
      BY <1>1, <2>1, SummaryAssumption DEF Works!Ids
  <1>5. row \in [room: Jobs, star: Stars]
    BY DEF SummaryInv, RequestFacts, Works!ReviewSave
  <1>6. Works!Reviews' = Works!Reviews \union {i}
    <2>1. row # NoRow /\ review \in [Works!Ids -> [room: Jobs, star: Stars] \union {NoRow}]
      BY <1>5, SummaryAssumption DEF SummaryInv, Works!TypeOK
    <2>2. QED
      BY <1>3, <1>4, <2>1 DEF Works!Reviews
  <1>7. IdsInOrder'
    <2>1. Works!Reviews' = 1..i
      BY <1>1, <1>6
    <2>2. i \in 0..MaxReviews
      BY <1>4, SummaryAssumption DEF Works!Ids
    <2>3. QED
      BY <2>1, <2>2 DEF IdsInOrder
  <1>8. QED
    BY <1>3, <1>4, <1>5, <1>6, <1>7

\* Reviews stay as they are.
LEMMA ReviewsKept ==
    ASSUME SummaryInv, [Works!Next]_summaryVars
    PROVE  /\ Works!Reviews \subseteq Works!Reviews'
           /\ \A i \in Works!Reviews : review'[i] = review[i]
           /\ IdsInOrder'
           /\ review' \in [Works!Ids -> [room: Jobs, star: Stars] \union {NoRow}]
  <1>0. review \in [Works!Ids -> [room: Jobs, star: Stars] \union {NoRow}]
    BY DEF SummaryInv, Works!TypeOK
  <1>1. CASE UNCHANGED review
    BY <1>0, <1>1 DEF Works!Reviews, SummaryInv, IdsInOrder, Works!Ids
  <1>2. ASSUME NEW h \in Reviewers, Works!ReviewSave(h)
        PROVE  /\ Works!Reviews \subseteq Works!Reviews'
               /\ \A i \in Works!Reviews : review'[i] = review[i]
               /\ IdsInOrder'
               /\ review' \in [Works!Ids -> [room: Jobs, star: Stars] \union {NoRow}]
    BY <1>0, <1>2, NewReview DEF Works!Reviews
  <1>3. UNCHANGED review \/ \E h \in Reviewers : Works!ReviewSave(h)
    BY DEF Works!Next, Works!Complete, Works!DeleteRoom, Works!ReviewBegin, Works!ReviewKeywords,
           Works!ReviewMark, Works!Interrupt, Works!Retire, Works!ReadReviews, Works!ReadWorks,
           Works!ReadKeywords, summaryVars
  <1>4. QED
    BY <1>1, <1>2, <1>3

\* What is known of a request.
Request ==
    [stage: {"idle", "saving", "mapping", "marking"}, room: Jobs \union {None},
     star: Stars \union {None}, keywords: SUBSET Keywords, id: Works!Ids \union {None}]

\* A step of one request.
LEMMA RequestStep ==
    ASSUME SummaryInv, NEW h \in Reviewers, NEW next \in Request,
           summaryTxn' = [summaryTxn EXCEPT ![h] = next],
           Works!Reviews \subseteq Works!Reviews', RequestFacts(next, Works!Reviews')
    PROVE  /\ summaryTxn' \in [Reviewers -> Request]
           /\ \A g \in Reviewers : RequestFacts(summaryTxn[g], Works!Reviews)'
  <1>1. summaryTxn \in [Reviewers -> Request]
    BY DEF SummaryInv, Works!TypeOK, Request
  <1>2. summaryTxn' \in [Reviewers -> Request]
    BY <1>1
  <1>3. ASSUME NEW g \in Reviewers
        PROVE  RequestFacts(summaryTxn[g], Works!Reviews)'
    <2>1. CASE g = h
      BY <1>1, <2>1 DEF RequestFacts
    <2>2. CASE g # h
      BY <1>1, <2>2 DEF SummaryInv, RequestFacts
    <2>3. QED
      BY <2>1, <2>2
  <1>4. QED
    BY <1>2, <1>3

\* Requests keep their type and what is known of them.
LEMMA RequestsTyped ==
    ASSUME SummaryInv, [Works!Next]_summaryVars
    PROVE  /\ summaryTxn' \in [Reviewers -> Request]
           /\ \A g \in Reviewers : RequestFacts(summaryTxn[g], Works!Reviews)'
  <1> DEFINE Goal == /\ summaryTxn' \in [Reviewers -> Request]
                     /\ \A g \in Reviewers : RequestFacts(summaryTxn[g], Works!Reviews)'
  <1>1. /\ summaryTxn \in [Reviewers -> Request]
        /\ Works!Reviews \subseteq Works!Reviews'
    BY ReviewsKept DEF SummaryInv, Works!TypeOK, Request
  <1>2. Works!Idle \in Request
    BY DEF Works!Idle, Request
  <1>3. CASE UNCHANGED summaryTxn
    BY <1>1, <1>3 DEF SummaryInv, RequestFacts
  <1>4. ASSUME NEW h \in Reviewers, NEW r \in Jobs, NEW star \in Stars, NEW ks \in SUBSET Keywords,
               Works!ReviewBegin(h, r, star, ks)
        PROVE  Goal
    <2> DEFINE next == [Works!Idle EXCEPT !.stage = "saving", !.room = r,
                                          !.star = star, !.keywords = ks]
    <2>1. next \in Request /\ RequestFacts(next, Works!Reviews')
      BY <1>2 DEF Request, RequestFacts, Works!Idle
    <2>2. summaryTxn' = [summaryTxn EXCEPT ![h] = next]
      BY <1>4 DEF Works!ReviewBegin
    <2> HIDE DEF next
    <2>3. QED
      BY <1>1, <2>1, <2>2, RequestStep
  <1>5. ASSUME NEW h \in Reviewers, Works!ReviewSave(h)
        PROVE  Goal
    <2>1. PICK i \in Works!Ids \ Works!Reviews :
              /\ summaryTxn' = [summaryTxn EXCEPT ![h].stage = "mapping", ![h].id = i]
              /\ Works!Reviews' = Works!Reviews \union {i}
      BY <1>5, NewReview
    <2>2. PICK next \in Request : next = [summaryTxn[h] EXCEPT !.stage = "mapping", !.id = i]
      BY <1>1 DEF Request
    <2>3. RequestFacts(next, Works!Reviews')
      BY <1>1, <1>5, <2>1, <2>2 DEF SummaryInv, RequestFacts, Request, Works!ReviewSave
    <2>4. summaryTxn' = [summaryTxn EXCEPT ![h] = next]
      BY <1>1, <2>1, <2>2
    <2>5. QED
      BY <1>1, <2>2, <2>3, <2>4, RequestStep
  <1>6. ASSUME NEW h \in Reviewers, Works!ReviewKeywords(h)
        PROVE  Goal
    <2>1. PICK next \in Request : next = [summaryTxn[h] EXCEPT !.stage = "marking"]
      BY <1>1 DEF Request
    <2>2. RequestFacts(next, Works!Reviews')
      BY <1>1, <1>6, <2>1 DEF SummaryInv, RequestFacts, Request, Works!ReviewKeywords
    <2>3. summaryTxn' = [summaryTxn EXCEPT ![h] = next]
      BY <1>1, <1>6, <2>1 DEF Works!ReviewKeywords, Works!Goto
    <2>4. QED
      BY <1>1, <2>1, <2>2, <2>3, RequestStep
  <1>7. ASSUME NEW h \in Reviewers, Works!ReviewMark(h) \/ Works!Interrupt(h)
        PROVE  Goal
    <2>1. summaryTxn' = [summaryTxn EXCEPT ![h] = Works!Idle]
      BY <1>7 DEF Works!ReviewMark, Works!Interrupt
    <2>2. RequestFacts(Works!Idle, Works!Reviews')
      BY DEF RequestFacts, Works!Idle
    <2>3. QED
      BY <1>1, <1>2, <2>1, <2>2, RequestStep
  <1>8. \/ UNCHANGED summaryTxn
        \/ \E h \in Reviewers, r \in Jobs, star \in Stars, ks \in SUBSET Keywords :
              Works!ReviewBegin(h, r, star, ks)
        \/ \E h \in Reviewers : Works!ReviewSave(h) \/ Works!ReviewKeywords(h)
                                   \/ Works!ReviewMark(h) \/ Works!Interrupt(h)
    BY DEF Works!Next, Works!Complete, Works!DeleteRoom, Works!Retire, Works!ReadReviews, Works!ReadWorks,
           Works!ReadKeywords, summaryVars
  <1>9. QED
    BY <1>3, <1>4, <1>5, <1>6, <1>7, <1>8

\* The tables keep their types.
LEMMA TablesTyped ==
    ASSUME SummaryInv, [Works!Next]_summaryVars
    PROVE  /\ status' \in [Jobs -> {"working", "COMPLETED", "REVIEWED", "gone"}]
           /\ maps' \subseteq Works!Reviews' \X Keywords
           /\ isActive' \subseteq Keywords
  <1>1. /\ status \in [Jobs -> {"working", "COMPLETED", "REVIEWED", "gone"}]
        /\ maps \subseteq Works!Reviews \X Keywords /\ isActive \subseteq Keywords
        /\ summaryTxn \in [Reviewers -> Request]
    BY DEF SummaryInv, Works!TypeOK, Request, Works!Reviews
  <1>2. status' \in [Jobs -> {"working", "COMPLETED", "REVIEWED", "gone"}]
    BY <1>1 DEF Works!Next, Works!Complete, Works!DeleteRoom, Works!ReviewBegin, Works!ReviewSave,
                Works!ReviewKeywords, Works!ReviewMark, Works!Interrupt, Works!Retire, Works!ReadReviews,
                Works!ReadWorks, Works!ReadKeywords, summaryVars
  <1>3. Works!Reviews \subseteq Works!Reviews'
    BY ReviewsKept
  <1>4. ASSUME UNCHANGED maps
        PROVE  maps' \subseteq Works!Reviews' \X Keywords
    <2>1. Works!Reviews \X Keywords \subseteq Works!Reviews' \X Keywords
      BY <1>3
    <2>2. QED
      BY <1>1, <1>4, <2>1
  <1>5. ASSUME NEW h \in Reviewers, Works!ReviewKeywords(h)
        PROVE  maps' \subseteq Works!Reviews' \X Keywords
    BY <1>1, <1>3, <1>5 DEF SummaryInv, RequestFacts, Request, Works!ReviewKeywords
  <1>6. UNCHANGED maps \/ \E h \in Reviewers : Works!ReviewKeywords(h)
    BY DEF Works!Next, Works!Complete, Works!DeleteRoom, Works!ReviewBegin, Works!ReviewSave,
           Works!ReviewMark, Works!Interrupt, Works!Retire, Works!ReadReviews, Works!ReadWorks,
           Works!ReadKeywords, summaryVars
  <1>7. isActive' \subseteq Keywords
    BY <1>1 DEF Works!Next, Works!Complete, Works!DeleteRoom, Works!ReviewBegin, Works!ReviewSave,
                Works!ReviewKeywords, Works!ReviewMark, Works!Interrupt, Works!Retire,
                Works!ReadReviews, Works!ReadWorks, Works!ReadKeywords, summaryVars
  <1>8. QED
    BY <1>2, <1>4, <1>5, <1>6, <1>7

\* What a summary has read.
LEMMA SummaryTyped ==
    ASSUME SummaryInv, [Works!Next]_summaryVars
    PROVE  /\ SummaryRecord'
           /\ summary'.stage \in {"idle", "counting", "ranking", "answered"}
           /\ summary'.average \in 0..500
           /\ summary'.completed \in 0..Cardinality(Jobs)
           /\ Works!KeywordsWithinReviews'
  <1> DEFINE Goal == /\ SummaryRecord'
                     /\ summary'.stage \in {"idle", "counting", "ranking", "answered"}
                     /\ summary'.average \in 0..500
                     /\ summary'.completed \in 0..Cardinality(Jobs)
                     /\ Works!KeywordsWithinReviews'
  <1>1. /\ SummaryRecord /\ Works!KeywordsWithinReviews
        /\ summary.stage \in {"idle", "counting", "ranking", "answered"}
        /\ summary.average \in 0..500
        /\ summary.completed \in 0..Cardinality(Jobs)
        /\ Works!Reviews \subseteq Works!Reviews'
    BY ReviewsKept, WorksCardinality DEF SummaryInv, Works!TypeOK
  <1>2. CASE UNCHANGED summary
    BY <1>1, <1>2, WorksCardinality DEF SummaryRecord, Works!KeywordsWithinReviews
  <1>3. CASE Works!ReadReviews
    <2>1. PICK a \in 0..500 : a = Works!AverageOf(Works!Reviews)
      <3>1. Works!AverageOf({}) = 0
        BY DEF Works!AverageOf
      <3>2. Works!Reviews # {} => Works!AverageOf(Works!Reviews) \in 0..500
        BY AverageRounded
      <3>3. Works!AverageOf(Works!Reviews) \in 0..500
        <4>1. CASE Works!Reviews = {}
          BY <3>1, <4>1
        <4>2. QED
          BY <3>2, <4>1
      <3>4. QED
        BY <3>3
    <2>2. /\ summary.stage = "idle"
          /\ summary' = [summary EXCEPT !.stage = "counting", !.reviews = Works!Reviews,
                                        !.average = a]
      BY <1>3, <2>1 DEF Works!ReadReviews
    <2>3. summary' = [stage |-> "counting", reviews |-> Works!Reviews, average |-> a,
                      completed |-> summary.completed, top |-> summary.top]
      BY <1>1, <2>2 DEF SummaryRecord
    <2>4. SummaryRecord'
      BY <1>1, <2>2, <2>3 DEF SummaryRecord
    <2>5. Works!KeywordsWithinReviews'
      BY <1>1, <2>2, <2>3 DEF SummaryRecord, Works!KeywordsWithinReviews
    <2>6. QED
      BY <1>1, <2>3, <2>4, <2>5
  <1>4. CASE Works!ReadWorks
    <2>1. PICK c \in 0..Cardinality(Jobs) : c = Cardinality(Works!Works)
      <3>1. Works!Works \subseteq Jobs
        BY DEF Works!Works
      <3>2. QED
        BY <3>1, FS_Subset, FS_CardinalityType, SummaryAssumption
    <2>2. /\ summary.stage = "counting"
          /\ summary' = [summary EXCEPT !.stage = "ranking", !.completed = c]
      BY <1>4, <2>1, WorksCardinality DEF Works!ReadWorks
    <2>3. summary' = [stage |-> "ranking", reviews |-> summary.reviews,
                      average |-> summary.average, completed |-> c, top |-> summary.top]
      BY <1>1, <2>2 DEF SummaryRecord
    <2>4. QED
      BY <1>1, <2>2, <2>3, WorksCardinality DEF SummaryRecord, Works!KeywordsWithinReviews
  <1>5. CASE Works!ReadKeywords
    <2> DEFINE top == Works!TopOf(summary.reviews)
    <2>1. summary' = [summary EXCEPT !.stage = "answered", !.top = top]
      BY <1>5 DEF Works!ReadKeywords
    <2>2. \A n \in DOMAIN top : top[n].count <= Cardinality(summary.reviews)
      <3>1. \A S \in SUBSET Works!Reviews : \A n \in DOMAIN Works!TopOf(S) :
               Works!TopOf(S)[n].count \in 0..Cardinality(S)
        BY TopRanked, TimesBound
      <3>2. summary.reviews \in SUBSET Works!Reviews
        BY <1>1 DEF SummaryRecord
      <3>3. Cardinality(summary.reviews) \in Nat
        BY <3>2, FiniteReviews
      <3> HIDE DEF top
      <3>4. QED
        BY <3>1, <3>2, <3>3 DEF top
    <2> HIDE DEF top
    <2>3. summary' = [stage |-> "answered", reviews |-> summary.reviews,
                      average |-> summary.average, completed |-> summary.completed, top |-> top]
      BY <1>1, <2>1 DEF SummaryRecord
    <2>4. QED
      BY <1>1, <2>2, <2>3, WorksCardinality DEF SummaryRecord, Works!KeywordsWithinReviews
  <1>6. QED
    BY <1>2, <1>3, <1>4, <1>5
    DEF Works!Next, Works!Complete, Works!DeleteRoom, Works!ReviewBegin, Works!ReviewSave,
        Works!ReviewKeywords, Works!ReviewMark, Works!Interrupt, Works!Retire, summaryVars

\* Every step keeps the invariant.
LEMMA SummaryStep ==
    ASSUME SummaryInv, [Works!Next]_summaryVars
    PROVE  SummaryInv'
  <1>1. Works!TypeOK'
    BY ReviewsKept, RequestsTyped, TablesTyped, SummaryTyped, WorksCardinality
       DEF Works!TypeOK, Works!Reviews, Request
  <1>2. QED
    BY <1>1, ReviewsKept, RequestsTyped, SummaryTyped DEF SummaryInv

-----------------------------------------------------------------------------
(* One review after the other of a room.                                   *)

\* No room is taken back to its work.
LEMMA NeverBack ==
    ASSUME SummaryInv, [Works!Next]_summaryVars, NEW r \in Jobs
    PROVE  /\ status[r] # "working" => status'[r] # "working"
           /\ status[r] = "gone" => status'[r] = "gone"
  BY DEF SummaryInv, RequestFacts, Works!TypeOK, Works!Next, Works!Complete, Works!DeleteRoom,
         Works!ReviewBegin, Works!ReviewSave, Works!ReviewKeywords, Works!ReviewMark,
         Works!Interrupt, Works!Retire, Works!ReadReviews, Works!ReadWorks, Works!ReadKeywords, summaryVars

\* What the tables say is kept, one review after the other of a room.
LEMMA SerialTablesStep ==
    ASSUME SummaryInv, SerialTables, OneReviewer(summaryTxn), [Works!Next]_summaryVars
    PROVE  SerialTables'
  <1>1. /\ \A i \in Works!Reviews : review[i].room \in Jobs
        /\ summaryTxn \in [Reviewers -> Request]
        /\ \A h \in Reviewers : RequestFacts(summaryTxn[h], Works!Reviews)
    BY DEF SummaryInv, Works!TypeOK, Works!Reviews, Request
  <1>2. \A i \in Works!Reviews : status'[review[i].room] # "working"
    BY <1>1, NeverBack DEF SerialTables
  <1>3. \A h \in Reviewers : summaryTxn[h].stage = "saving" => status'[summaryTxn[h].room] # "working"
    BY <1>1, NeverBack DEF SerialTables, FoundUnreviewed, RequestFacts
  <1>4. CASE UNCHANGED <<review, summaryTxn>>
    BY <1>2, <1>3, <1>4 DEF SerialTables, FoundUnreviewed, Works!Reviews
  <1>5. ASSUME NEW h \in Reviewers, NEW r \in Jobs, NEW star \in Stars, NEW ks \in SUBSET Keywords,
               Works!ReviewBegin(h, r, star, ks)
        PROVE  SerialTables'
    <2>1. /\ UNCHANGED <<status, review>> /\ status[r] = "COMPLETED"
          /\ \A i \in Works!Reviews : review[i].room # r
      BY <1>5 DEF Works!ReviewBegin
    <2>2. \A g \in Reviewers : FoundUnreviewed(summaryTxn[g])'
      BY <1>1, <1>5, <2>1 DEF SerialTables, FoundUnreviewed, Works!ReviewBegin, Works!Idle, Works!Reviews
    <2>3. QED
      BY <1>2, <2>1, <2>2 DEF SerialTables, Works!Reviews
  <1>6. ASSUME NEW h \in Reviewers, Works!ReviewSave(h)
        PROVE  SerialTables'
    <2>1. PICK i \in Works!Ids \ Works!Reviews :
              /\ review' = [review EXCEPT ![i] = [room |-> summaryTxn[h].room,
                                                  star |-> summaryTxn[h].star]]
              /\ summaryTxn' = [summaryTxn EXCEPT ![h].stage = "mapping", ![h].id = i]
              /\ Works!Reviews' = Works!Reviews \union {i}
      BY <1>6, NewReview
    <2>2. /\ UNCHANGED status /\ summaryTxn[h].stage = "saving"
          /\ FoundUnreviewed(summaryTxn[h])
      BY <1>6 DEF Works!ReviewSave, SerialTables
    <2>3. /\ review'[i].room = summaryTxn[h].room
          /\ \A j \in Works!Reviews : review'[j] = review[j]
      BY <2>1, ReviewsKept DEF SummaryInv, Works!TypeOK
    <2>4. \A j, k \in Works!Reviews' : review'[j].room = review'[k].room => j = k
      BY <2>1, <2>2, <2>3 DEF SerialTables, FoundUnreviewed
    <2>5. \A j \in Works!Reviews' : status'[review'[j].room] # "working"
      BY <2>1, <2>2, <2>3 DEF SerialTables, FoundUnreviewed
    <2>6. ASSUME NEW g \in Reviewers, summaryTxn'[g].stage = "saving", NEW j \in Works!Reviews'
          PROVE  review'[j].room # summaryTxn'[g].room
      <3>1. g # h /\ summaryTxn'[g] = summaryTxn[g]
        BY <1>1, <2>1, <2>6
      <3>2. CASE j = i
        BY <2>2, <2>3, <2>6, <3>1, <3>2 DEF OneReviewer
      <3>3. CASE j # i
        BY <2>1, <2>3, <2>6, <3>1, <3>3 DEF SerialTables, FoundUnreviewed
      <3>4. QED
        BY <3>2, <3>3
    <2>7. \A g \in Reviewers : FoundUnreviewed(summaryTxn[g])'
      <3>1. \A g \in Reviewers : summaryTxn'[g].stage = "saving" => summaryTxn'[g] = summaryTxn[g]
        BY <1>1, <2>1
      <3>2. QED
        BY <1>3, <2>6, <3>1 DEF FoundUnreviewed
    <2>8. QED
      BY <2>4, <2>5, <2>7 DEF SerialTables
  <1>7. ASSUME NEW h \in Reviewers,
               Works!ReviewKeywords(h) \/ Works!ReviewMark(h) \/ Works!Interrupt(h)
        PROVE  SerialTables'
    <2>1. UNCHANGED review
      BY <1>7 DEF Works!ReviewKeywords, Works!ReviewMark, Works!Interrupt
    <2>2. \A g \in Reviewers : summaryTxn'[g].stage = "saving" => summaryTxn'[g] = summaryTxn[g]
      <3>1. \/ summaryTxn' = [summaryTxn EXCEPT ![h].stage = "marking"]
            \/ summaryTxn' = [summaryTxn EXCEPT ![h] = Works!Idle]
        BY <1>7 DEF Works!ReviewKeywords, Works!ReviewMark, Works!Interrupt, Works!Goto
      <3>2. Works!Idle.stage = "idle"
        BY DEF Works!Idle
      <3>3. CASE summaryTxn' = [summaryTxn EXCEPT ![h].stage = "marking"]
        BY <1>1, <3>3
      <3>4. CASE summaryTxn' = [summaryTxn EXCEPT ![h] = Works!Idle]
        BY <1>1, <3>2, <3>4
      <3>5. QED
        BY <3>1, <3>3, <3>4
    <2>3. \A g \in Reviewers : FoundUnreviewed(summaryTxn[g])'
      BY <1>3, <2>1, <2>2 DEF SerialTables, FoundUnreviewed, Works!Reviews
    <2>4. QED
      BY <1>2, <2>1, <2>3 DEF SerialTables, Works!Reviews
  <1>8. \/ UNCHANGED <<review, summaryTxn>>
        \/ \E h \in Reviewers, r \in Jobs, star \in Stars, ks \in SUBSET Keywords :
              Works!ReviewBegin(h, r, star, ks)
        \/ \E h \in Reviewers : Works!ReviewSave(h) \/ Works!ReviewKeywords(h)
                                   \/ Works!ReviewMark(h) \/ Works!Interrupt(h)
    BY DEF Works!Next, Works!Complete, Works!DeleteRoom, Works!Retire, Works!ReadReviews, Works!ReadWorks,
           Works!ReadKeywords, summaryVars
  <1>9. QED
    BY <1>4, <1>5, <1>6, <1>7, <1>8

\* At any time the completed works and the deleted rooms are as many as reviews.
LEMMA WorksCover ==
    ASSUME SummaryInv, SerialTables, NEW S \in SUBSET Works!Reviews
    PROVE  Cardinality(S) <= Cardinality(Works!Works) + Cardinality(Works!Gone)
  <1> DEFINE T == Works!Works \union Works!Gone
             f == [i \in S |-> review[i].room]
  <1>1. IsFiniteSet(Works!Works) /\ IsFiniteSet(Works!Gone)
    <2>1. Works!Works \subseteq Jobs /\ Works!Gone \subseteq Jobs
      BY DEF Works!Works, Works!Gone
    <2>2. QED
      BY <2>1, FS_Subset, SummaryAssumption
  <1>2. Works!Works \intersect Works!Gone = {}
    BY DEF Works!Works, Works!Gone
  <1>3. IsFiniteSet(T) /\ Cardinality(T) = Cardinality(Works!Works) + Cardinality(Works!Gone)
    <2>1. /\ IsFiniteSet(T)
          /\ Cardinality(T) = Cardinality(Works!Works) + Cardinality(Works!Gone)
                                - Cardinality(Works!Works \intersect Works!Gone)
      BY <1>1, FS_Union
    <2>2. Cardinality(Works!Works \intersect Works!Gone) = 0
      BY <1>2, FS_EmptySet
    <2>3. Cardinality(Works!Works) \in Nat /\ Cardinality(Works!Gone) \in Nat
      BY <1>1, FS_CardinalityType
    <2>4. QED
      BY <2>1, <2>2, <2>3
  <1>4. \A i \in S : review[i].room \in T
    BY DEF SummaryInv, SerialTables, Works!TypeOK, Works!Reviews, Works!Works, Works!Gone
  <1>5. f \in Injection(S, T)
    BY <1>4 DEF Injection, IsInjective, SerialTables
  <1>6. Cardinality(S) <= Cardinality(T)
    BY <1>3, <1>5, FS_Injection
  <1>7. QED
    BY <1>3, <1>6

\* A summary keeps its works, and reads them after the reviews.
LEMMA WorksCoverStep ==
    ASSUME SummaryInv, SerialTables, Works!WorksCoverReviews, [Works!Next]_summaryVars
    PROVE  Works!WorksCoverReviews'
  <1> DEFINE gone == Cardinality(Works!Gone)
  <1>1. gone \in Nat /\ gone' \in Nat /\ gone <= gone'
    <2>1. Works!Gone \subseteq Works!Gone' /\ Works!Gone' \subseteq Jobs
      BY NeverBack DEF Works!Gone
    <2>2. IsFiniteSet(Works!Gone')
      BY <2>1, FS_Subset, SummaryAssumption
    <2>3. QED
      BY <2>1, <2>2, FS_Subset, FS_CardinalityType
  <1>2. /\ SummaryRecord /\ summary.completed \in Nat
        /\ Cardinality(summary.reviews) \in Nat
    <2>1. SummaryRecord /\ summary.completed \in 0..Cardinality(Jobs)
      BY WorksCardinality DEF SummaryInv, Works!TypeOK
    <2>2. Cardinality(Jobs) \in Nat
      BY FS_CardinalityType, SummaryAssumption
    <2>3. Cardinality(summary.reviews) \in Nat
      BY <2>1, FiniteReviews DEF SummaryRecord
    <2>4. QED
      BY <2>1, <2>2, <2>3
  <1>3. CASE /\ summary'.reviews = summary.reviews /\ summary'.completed = summary.completed
             /\ summary'.stage \in {"ranking", "answered"} =>
                   summary.stage \in {"ranking", "answered"}
    <2>1. SUFFICES ASSUME summary.stage \in {"ranking", "answered"}
                   PROVE  Cardinality(summary.reviews) <= summary.completed + gone'
      BY <1>3, WorksCardinality DEF Works!WorksCoverReviews
    <2>2. Cardinality(summary.reviews) <= summary.completed + gone
      BY <2>1, WorksCardinality DEF Works!WorksCoverReviews
    <2> HIDE DEF gone
    <2>3. QED
      BY <1>1, <1>2, <2>2
  <1>4. CASE Works!ReadReviews
    BY <1>2, <1>4 DEF Works!ReadReviews, SummaryRecord, Works!WorksCoverReviews
  <1>5. CASE Works!ReadWorks
    <2>1. /\ summary'.reviews = summary.reviews
          /\ summary'.completed = Cardinality(Works!Works) /\ Works!Gone' = Works!Gone
      BY <1>2, <1>5, WorksCardinality DEF Works!ReadWorks, SummaryRecord, Works!Gone
    <2>2. Cardinality(summary.reviews) <= Cardinality(Works!Works) + Cardinality(Works!Gone)
      BY <1>2, WorksCover DEF SummaryRecord
    <2>3. QED
      BY <2>1, <2>2, WorksCardinality DEF Works!WorksCoverReviews
  <1>6. CASE Works!ReadKeywords
    BY <1>2, <1>3, <1>6 DEF Works!ReadKeywords, SummaryRecord
  <1>7. CASE UNCHANGED summary
    BY <1>3, <1>7
  <1>8. QED
    BY <1>4, <1>5, <1>6, <1>7
    DEF Works!Next, Works!Complete, Works!DeleteRoom, Works!ReviewBegin, Works!ReviewSave,
        Works!ReviewKeywords, Works!ReviewMark, Works!Interrupt, Works!Retire, summaryVars

\* Tables are empty at the start.
LEMMA SummaryStart == Works!Init => SummaryInv /\ SummarySerial
  <1> SUFFICES ASSUME Works!Init PROVE SummaryInv /\ SummarySerial
    OBVIOUS
  <1>1. Works!Reviews = {}
    BY DEF Works!Init, Works!Reviews
  <1>2. Works!TypeOK
    <2>1. Cardinality(Jobs) \in Nat
      BY FS_CardinalityType, SummaryAssumption
    <2>2. summary.completed \in 0..Cardinality(Jobs)
      BY <2>1 DEF Works!Init, Works!Unread
    <2>3. QED
      BY <2>2, WorksCardinality DEF Works!Init, Works!TypeOK, Works!Idle, Works!Unread
  <1>3. IdsInOrder
    <2>1. Works!Reviews = 1..0 /\ 0 \in 0..MaxReviews
      BY <1>1, SummaryAssumption
    <2>2. QED
      BY <2>1 DEF IdsInOrder
  <1>4. \A h \in Reviewers : summaryTxn[h].stage = "idle"
    BY DEF Works!Init, Works!Idle
  <1>5. SummaryRecord /\ Works!KeywordsWithinReviews /\ summary.stage = "idle"
    BY DEF Works!Init, Works!Unread, SummaryRecord, Works!KeywordsWithinReviews
  <1>6. SummaryInv
    BY <1>2, <1>3, <1>4, <1>5 DEF SummaryInv, RequestFacts
  <1>7. SummarySerial
    BY <1>1, <1>4, <1>5 DEF SummarySerial, SerialTables, FoundUnreviewed, OneReviewer,
                            Works!WorksCoverReviews
  <1>8. QED
    BY <1>6, <1>7

\* The numbers of a summary belong together (getPublicReviewSummary, createReview,
\* deleteChatRoom): whatever overlaps, no keyword was given more often than there
\* are reviews, the keywords shown are the most frequent ones when they are read
\* and the average is the mean of the stars, rounded; one review after the other
\* of a room, there are never more reviews than works completed and rooms deleted.
THEOREM SummariesAreConsistent == SummarySpec => []SummaryConsistent
  <1> DEFINE Inv == SummaryInv /\ (inTurn => SummarySerial)
             Step == Works!Next /\ UNCHANGED inTurn /\ (inTurn => OneReviewer(summaryTxn'))
  <1>1. Works!Init => Inv
    BY SummaryStart
  <1>2. Inv /\ [Step]_<<summaryVars, inTurn>> => Inv'
    <2>1. SUFFICES ASSUME Inv, [Step]_<<summaryVars, inTurn>> PROVE Inv'
      OBVIOUS
    <2>2. /\ [Works!Next]_summaryVars /\ inTurn' = inTurn
          /\ inTurn => OneReviewer(summaryTxn')
      BY <2>1 DEF SummarySerial, OneReviewer, summaryVars
    <2>3. SummaryInv'
      BY <2>1, <2>2, SummaryStep
    <2>4. inTurn => SummarySerial'
      BY <2>1, <2>2, SerialTablesStep, WorksCoverStep DEF SummarySerial, OneReviewer
    <2>5. QED
      BY <2>2, <2>3, <2>4
  <1>3. Inv => SummaryConsistent
    BY SummaryShows DEF SummaryInv, SummarySerial, SummaryConsistent
  <1>4. QED
    BY <1>1, <1>2, <1>3, PTL DEF SummarySpec
=============================================================================
