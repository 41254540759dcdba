-------------------------- MODULE CoinOrdersProofs --------------------------
(***************************************************************************)
(* Theorems about CoinOrders, for every set of members, orders, payments,  *)
(* handlers and other services' ledger rows.                               *)
(***************************************************************************)
EXTENDS CoinOrders, WalletStoreProofs

-----------------------------------------------------------------------------
\* Type correctness.

\* A row the order handlers post is a ledger row.
LEMMA OrderEntryType ==
    ASSUME NEW o \in Orders, NEW type \in {"CHARGE", "REFUND"}
    PROVE  OrderEntry(o, type) \in Entry
  BY OrderAssumption DEF OrderEntry, Entry, TxTypes, SourceTypes

\* The fields of a transaction record that a busy handler can rely on.
LEMMA BusyTypes ==
    ASSUME TypeOK, NEW w \in Workers, txn[w].stage # "idle"
    PROVE  /\ txn[w].order \in Orders
           /\ txn[w].stage # "cancelBegun" => txn[w].key \in Keys
           /\ Owner[txn[w].order] \in Members
  BY OrderAssumption DEF TypeOK, Transaction

\* The part of TypeOK about the fields of a busy handler.
TxnKeys ==
    \A v \in Workers :
        /\ txn[v].stage # "idle" => txn[v].order # None
        /\ txn[v].stage \notin {"idle", "cancelBegun"} => txn[v].key # None

\* Ending a transaction keeps the types of txn and of the locks.
LEMMA EndTxnTypes ==
    ASSUME TypeOK, NEW w \in Workers, EndTxn(w)
    PROVE  /\ txn' \in [Workers -> Transaction]
           /\ TxnKeys'
           /\ walletLock' \in [Members -> Workers \union {None}]
  <1>1. Idle \in Transaction
    BY DEF Idle, Transaction, Stages
  <1>2. QED
    BY <1>1 DEF EndTxn, TypeOK, StoreTypeOK, Idle, TxnKeys

\* So does a rollback, for every variable it speaks of.
LEMMA RollbackTypes ==
    ASSUME TypeOK, NEW w \in Workers, Rollback(w)
    PROVE  /\ StoreTypeOK'
           /\ orders' = orders
           /\ txn' \in [Workers -> Transaction]
           /\ TxnKeys'
  BY EndTxnTypes DEF Rollback, TypeOK, StoreTypeOK

\* Recording a status and a payment of the right types.
LEMMA SetOrderTypes ==
    ASSUME TypeOK, NEW o \in Orders, NEW status \in OrderStatus,
           NEW key \in Keys \union {None}, SetOrder(o, status, key)
    PROVE  orders' \in [Orders -> [status: OrderStatus, paymentKey: Keys \union {None}]]
  BY DEF SetOrder, TypeOK

\* Toss moves, and answers, keep their types.
LEMMA SetTossTypes ==
    ASSUME TypeOK, NEW k \in Keys, NEW status \in TossStatus, SetToss(k, status)
    PROVE  toss' \in [Keys -> TossStatus] /\ events' \in [Keys -> Delivery]
  BY DEF SetToss, TypeOK, Delivery

LEMMA AnsweredTypes ==
    ASSUME TypeOK, NEW w \in Workers, Answered(w)
    PROVE  events' \in [Keys -> Delivery]
  BY DEF Answered, TypeOK, Delivery

\* A handler step keeps the types.
LEMMA AdvanceTypes ==
    ASSUME TypeOK, NEW w \in Workers, Advance(w)
    PROVE  TypeOK'
  <1>1. CASE TossApproves(w)
    <2>1. txn[w].key \in Keys
      BY <1>1, BusyTypes DEF TossApproves
    <2>2. toss' \in [Keys -> TossStatus] /\ events' \in [Keys -> Delivery]
      BY <1>1, <2>1, SetTossTypes DEF TossApproves, TossStatus
    <2>3. txn' \in [Workers -> Transaction] /\ TxnKeys'
      BY <1>1 DEF TossApproves, TypeOK, Transaction, Stages, TxnKeys
    <2>4. QED
      BY <1>1, <2>2, <2>3 DEF TossApproves, TypeOK, StoreTypeOK, storeVars, TxnKeys
  <1>2. CASE \/ ConfirmRefused(w) \/ TossRefuses(w) \/ TossRefusesCancel(w)
             \/ CancelRefused(w) \/ RefundShort(w) \/ ChargeSaveFails(w) \/ DeadlockVictim(w)
    BY <1>2, RollbackTypes
       DEF ConfirmRefused, TossRefuses, TossRefusesCancel, CancelRefused,
           RefundShort, ChargeSaveFails, DeadlockVictim, TypeOK, TxnKeys
  <1>10. CASE TossDeclines(w)
    <2>1. txn[w].key \in Keys
      BY <1>10, BusyTypes DEF TossDeclines
    <2>2. toss' \in [Keys -> TossStatus] /\ events' \in [Keys -> Delivery]
      BY <1>10, <2>1, SetTossTypes DEF TossDeclines, TossStatus
    <2>3. QED
      BY <1>10, <2>2, RollbackTypes DEF TossDeclines, TypeOK, TxnKeys
  <1>11. CASE WebhookIgnored(w)
    BY <1>11, RollbackTypes, AnsweredTypes DEF WebhookIgnored, TypeOK, TxnKeys
  <1>12. CASE ConfirmChecks(w) \/ LockGap(w)
    <2>1. txn[w].order \in Orders /\ Owner[txn[w].order] \in Members
      BY <1>12, BusyTypes DEF ConfirmChecks, LockGap
    <2>2. balance[Owner[txn[w].order]] \in Int \union {NoWallet}
      BY <2>1 DEF TypeOK, StoreTypeOK
    <2>3. txn' \in [Workers -> Transaction] /\ TxnKeys'
      <3>1. CASE ConfirmChecks(w)
        <4>1. txn' = [txn EXCEPT ![w].stage = "confirming",
                                 ![w].snap = balance[Owner[txn[w].order]]]
          BY <3>1 DEF ConfirmChecks
        <4>5. txn[w] \in Transaction
          BY DEF TypeOK
        <4>6. [txn[w] EXCEPT !.stage = "confirming", !.snap = balance[Owner[txn[w].order]]]
                \in Transaction
          BY <2>2, <4>5 DEF Transaction, Stages
        <4>2. txn' \in [Workers -> Transaction]
          BY <4>1, <4>6 DEF TypeOK
        <4>3. TxnKeys'
          BY <3>1, <4>1 DEF ConfirmChecks, TypeOK, Transaction, TxnKeys
        <4>4. QED
          BY <4>2, <4>3
      <3>2. CASE LockGap(w)
        <4>1. txn' = [txn EXCEPT ![w].gap = TRUE]
          BY <3>2 DEF LockGap
        <4>2. txn[w] \in Transaction
          BY DEF TypeOK
        <4>3. [txn[w] EXCEPT !.gap = TRUE] \in Transaction
          BY <4>2 DEF Transaction
        <4>4. txn' \in [Workers -> Transaction]
          BY <4>1, <4>3 DEF TypeOK
        <4>5. TxnKeys'
          BY <4>1, <4>2 DEF TypeOK, Transaction, TxnKeys
        <4>6. QED
          BY <4>4, <4>5
      <3>3. QED
        BY <1>12, <3>1, <3>2
    <2>4. QED
      BY <1>12, <2>3 DEF ConfirmChecks, LockGap, TypeOK, StoreTypeOK, storeVars, TxnKeys
  <1>13. CASE CancelChecks(w)
    <2>1. txn[w].order \in Orders
      BY <1>13, BusyTypes DEF CancelChecks
    <2>2. orders[txn[w].order].paymentKey \in Keys
      BY <1>13, <2>1 DEF CancelChecks, Cancellable, TypeOK
    <2>3. txn' = [txn EXCEPT ![w].stage = "cancelChecked",
                             ![w].key = orders[txn[w].order].paymentKey]
      BY <1>13 DEF CancelChecks
    <2>7. txn[w] \in Transaction
      BY DEF TypeOK
    <2>8. [txn[w] EXCEPT !.stage = "cancelChecked", !.key = orders[txn[w].order].paymentKey]
            \in Transaction
      BY <2>2, <2>7 DEF Transaction, Stages
    <2>5. txn' \in [Workers -> Transaction]
      BY <2>3, <2>8 DEF TypeOK
    <2>6. TxnKeys'
      BY <1>13, <2>2, <2>3, OrderAssumption DEF CancelChecks, TypeOK, Transaction, TxnKeys
    <2>4. QED
      BY <1>13, <2>5, <2>6 DEF CancelChecks, TypeOK, StoreTypeOK, storeVars, TxnKeys
  <1>14. CASE CancelLocksWallet(w)
    <2>1. txn' \in [Workers -> Transaction] /\ TxnKeys'
      BY <1>14 DEF CancelLocksWallet, TypeOK, Transaction, Stages, TxnKeys
    <2>2. QED
      BY <1>14, <2>1 DEF CancelLocksWallet, TypeOK, StoreTypeOK, TxnKeys
  <1>3. CASE ConfirmCommit(w)
    <2>1. txn[w].order \in Orders /\ txn[w].key \in Keys
      BY <1>3, BusyTypes DEF ConfirmCommit
    <2>2. OrderEntry(txn[w].order, "CHARGE") \in Entry
      BY <2>1, OrderEntryType
    <2>3. orders' \in [Orders -> [status: OrderStatus, paymentKey: Keys \union {None}]]
      BY <1>3, <2>1, SetOrderTypes DEF ConfirmCommit, OrderStatus
    <2>4. StoreTypeOK'
      BY <1>3, <2>2, PostTypes, EndTxnTypes DEF ConfirmCommit, TypeOK, StoreTypeOK
    <2>5. QED
      BY <1>3, <2>3, <2>4, EndTxnTypes DEF ConfirmCommit, TypeOK, TxnKeys
  <1>4. CASE TossCancels(w)
    <2>1. txn[w].key \in Keys
      BY <1>4, BusyTypes DEF TossCancels
    <2>2. toss' \in [Keys -> TossStatus] /\ events' \in [Keys -> Delivery]
      BY <1>4, <2>1, SetTossTypes DEF TossCancels, TossStatus
    <2>3. txn' \in [Workers -> Transaction] /\ TxnKeys'
      BY <1>4 DEF TossCancels, TypeOK, Transaction, Stages, TxnKeys
    <2>4. QED
      BY <1>4, <2>2, <2>3 DEF TossCancels, TypeOK, StoreTypeOK, storeVars, TxnKeys
  <1>5. CASE CancelCommit(w)
    <2>1. txn[w].order \in Orders
      BY <1>5, BusyTypes DEF CancelCommit
    <2>2. OrderEntry(txn[w].order, "REFUND") \in Entry
      BY <2>1, OrderEntryType
    <2>3. orders' \in [Orders -> [status: OrderStatus, paymentKey: Keys \union {None}]]
      BY <1>5, <2>1, SetOrderTypes DEF CancelCommit, OrderStatus, TypeOK
    <2>4. StoreTypeOK'
      BY <1>5, <2>2, PostTypes, EndTxnTypes DEF CancelCommit, TypeOK, StoreTypeOK
    <2>5. QED
      BY <1>5, <2>3, <2>4, EndTxnTypes DEF CancelCommit, TypeOK, TxnKeys
  <1>6. CASE WebhookUpdateOnly(w)
    <2>1. txn[w].order \in Orders /\ txn[w].key \in Keys
      BY <1>6, BusyTypes DEF WebhookUpdateOnly, WebhookApplies, WebhookHolds
    <2>2. orders' \in [Orders -> [status: OrderStatus, paymentKey: Keys \union {None}]]
      BY <1>6, <2>1, SetOrderTypes DEF WebhookUpdateOnly, OrderStatus
    <2>3. QED
      BY <1>6, <2>2, EndTxnTypes, AnsweredTypes
         DEF WebhookUpdateOnly, TypeOK, StoreTypeOK, TxnKeys
  <1>7. CASE WebhookChargeBegin(w) \/ WebhookRefundBegin(w)
    <2>1. /\ txn[w].order \in Orders /\ txn[w].key \in Keys
          /\ Owner[txn[w].order] \in Members
      BY <1>7, BusyTypes
         DEF WebhookChargeBegin, WebhookRefundBegin, WebhookLookup, WebhookApplies, WebhookHolds
    <2>2. PICK stage \in {"charging", "refunding"}, type \in {"CHARGE", "REFUND"} :
              WebhookLookup(w, stage, type)
      BY <1>7 DEF WebhookChargeBegin, WebhookRefundBegin
    <2>3. HasTransaction(txn[w].order, type) \in BOOLEAN
      BY DEF HasTransaction, Posted
    <2>4. balance[Owner[txn[w].order]] \in Int \union {NoWallet}
      BY <2>1 DEF TypeOK, StoreTypeOK
    <2>5. [txn[w] EXCEPT !.stage = stage, !.snap = balance[Owner[txn[w].order]],
                         !.posted = HasTransaction(txn[w].order, type)] \in Transaction
      BY <2>1, <2>3, <2>4 DEF TypeOK, Transaction, Stages
    <2>6. txn' = [txn EXCEPT ![w] =
                    [txn[w] EXCEPT !.stage = stage, !.snap = balance[Owner[txn[w].order]],
                                   !.posted = HasTransaction(txn[w].order, type)]]
      BY <2>2 DEF WebhookLookup, TypeOK
    <2>7. txn[w].order # None /\ txn[w].key # None
      BY <1>7 DEF WebhookChargeBegin, WebhookRefundBegin, WebhookLookup,
                  WebhookApplies, WebhookHolds, TypeOK
    <2>8. /\ txn' \in [Workers -> Transaction]
          /\ TxnKeys'
      BY <2>5, <2>6, <2>7 DEF TypeOK, Transaction, TxnKeys
    <2>9. QED
      BY <2>2, <2>8 DEF WebhookLookup, TypeOK, StoreTypeOK, storeVars, TxnKeys
  <1>8. CASE WebhookCharge(w) \/ WebhookRefund(w)
    <2>1. txn[w].order \in Orders /\ txn[w].key \in Keys
      BY <1>8, BusyTypes DEF WebhookCharge, WebhookRefund
    <2>2. PICK type \in {"CHARGE", "REFUND"} : PostUnlessPosted(w, type)
      BY <1>8 DEF WebhookCharge, WebhookRefund
    <2>3. OrderEntry(txn[w].order, type) \in Entry
      BY <2>1, OrderEntryType
    <2>4. orders' \in [Orders -> [status: OrderStatus, paymentKey: Keys \union {None}]]
      BY <1>8, <2>1, SetOrderTypes DEF WebhookCharge, WebhookRefund, OrderStatus
    <2>5. EndTxn(w) /\ Answered(w) /\ UNCHANGED <<toss, late>>
      BY <1>8 DEF WebhookCharge, WebhookRefund
    <2>6. StoreTypeOK'
      <3>1. CASE txn[w].posted
        BY <2>2, <2>5, <3>1, EndTxnTypes DEF PostUnlessPosted, TypeOK, StoreTypeOK
      <3>2. CASE ~txn[w].posted
        BY <2>2, <2>3, <2>5, <3>2, PostTypes, EndTxnTypes
           DEF PostUnlessPosted, TypeOK, StoreTypeOK
      <3>3. QED
        BY <3>1, <3>2
    <2>7. QED
      BY <2>4, <2>5, <2>6, EndTxnTypes, AnsweredTypes DEF TypeOK, TxnKeys
  <1>9. QED
    BY <1>1, <1>2, <1>3, <1>4, <1>5, <1>6, <1>7, <1>8, <1>10, <1>11, <1>12, <1>13, <1>14 DEF Advance

\* A handler that begins keeps the types.
LEMMA BeginTypes ==
    ASSUME TypeOK, NEW w \in Workers, Begin(w)
    PROVE  TypeOK'
  <1>1. CASE \E o \in Orders, k \in Keys : ConfirmBegin(w, o, k)
    <2>1. PICK o \in Orders, k \in Keys : ConfirmBegin(w, o, k)
      BY <1>1
    <2>2. [Idle EXCEPT !.stage = "confirmBegun", !.order = o, !.key = k] \in Transaction
      BY DEF Idle, Transaction, Stages
    <2>3. o # None /\ k # None
      BY OrderAssumption, NullAssumption
    <2>4. QED
      BY <2>1, <2>2, <2>3 DEF ConfirmBegin, TypeOK, StoreTypeOK, storeVars, Idle
  <1>2. CASE \E o \in Orders : CancelBegin(w, o)
    <2>1. PICK o \in Orders : CancelBegin(w, o)
      BY <1>2
    <2>2. [Idle EXCEPT !.stage = "cancelBegun", !.order = o] \in Transaction
      BY DEF Idle, Transaction, Stages
    <2>3. o # None
      BY OrderAssumption, NullAssumption
    <2>4. QED
      BY <2>1, <2>2, <2>3 DEF CancelBegin, TypeOK, StoreTypeOK, storeVars, Idle
  <1>3. CASE \E k \in Keys : WebhookFetch(w, k)
    <2>1. PICK k \in Keys : WebhookFetch(w, k)
      BY <1>3
    <2>2. KeyOrder[k] \in Orders /\ toss[k] \in TossStatus
      BY OrderAssumption DEF TypeOK
    <2>3. [Idle EXCEPT !.stage = "fetched", !.key = k, !.order = KeyOrder[k],
                       !.status = toss[k]] \in Transaction
      BY <2>2 DEF Idle, Transaction, Stages
    <2>4. KeyOrder[k] # None /\ k # None
      BY <2>2, OrderAssumption, NullAssumption
    <2>5. QED
      BY <2>1, <2>3, <2>4 DEF WebhookFetch, TypeOK, StoreTypeOK, storeVars, Idle
  <1>4. QED
    BY <1>1, <1>2, <1>3 DEF Begin

\* So does the environment.
LEMMA EnvironmentTypes ==
    ASSUME TypeOK, Environment
    PROVE  TypeOK'
  <1>1. CASE \E o \in Orders : Create(o)
    BY <1>1 DEF Create, SetOrder, TypeOK, StoreTypeOK, storeVars, OrderStatus
  <1>2. CASE \E k \in Keys : \/ TossApprovesLate(k) \/ TossExpires(k)
                              \/ TossCancelled(k) \/ TossVoids(k)
    <2>1. PICK k \in Keys, status \in TossStatus : SetToss(k, status)
      BY <1>2 DEF TossApprovesLate, TossExpires, TossCancelled, TossVoids, TossStatus
    <2>2. toss' \in [Keys -> TossStatus] /\ events' \in [Keys -> Delivery]
      BY <2>1, SetTossTypes
    <2>3. QED
      BY <1>2, <2>2 DEF TossApprovesLate, TossExpires, TossCancelled, TossVoids, TypeOK,
                        StoreTypeOK, storeVars
  <1>6. CASE \E k \in Keys : LookupRefused(k)
    BY <1>6 DEF LookupRefused, TypeOK, StoreTypeOK, storeVars, Delivery
  <1>3. CASE \E m \in Members : GetWallet(m)
    BY <1>3 DEF GetWallet, OpenWallet, TypeOK, StoreTypeOK, orderVars
  <1>4. CASE \E e \in OtherMoves : MoveElsewhere(e)
    <2>1. PICK e \in OtherMoves : MoveElsewhere(e)
      BY <1>4
    <2>2. e \in Entry /\ Post(e, NoSnapshot)
      BY <2>1, OrderAssumption DEF MoveElsewhere
    <2>3. QED
      BY <2>1, <2>2, PostTypes DEF MoveElsewhere, TypeOK, StoreTypeOK, orderVars
  <1>5. QED
    BY <1>1, <1>2, <1>3, <1>4, <1>6 DEF Environment

\* The initial state is well typed.
LEMMA TypeCorrectInit == Init => TypeOK
  BY DEF Init, StoreInit, TypeOK, StoreTypeOK, Idle, Transaction, Stages,
          OrderStatus, TossStatus, Delivery

\* Every reachable state of the order service is well typed.
THEOREM TypeCorrect == Spec => []TypeOK
  <1>1. Init => TypeOK
    BY TypeCorrectInit
  <1>2. TypeOK /\ [Next]_vars => TypeOK'
    <2>1. SUFFICES ASSUME TypeOK, [Next]_vars PROVE TypeOK'
      OBVIOUS
    <2>2. CASE \E w \in Workers : Begin(w)
      BY <2>1, <2>2, BeginTypes
    <2>3. CASE \E w \in Workers : Advance(w)
      BY <2>1, <2>3, AdvanceTypes
    <2>4. CASE \E w \in Workers : Abort(w)
      <3>1. PICK w \in Workers : Abort(w)
        BY <2>4
      <3>2. late' \subseteq Keys
        BY <2>1, <3>1, BusyTypes DEF Abort, TypeOK
      <3>3. QED
        BY <2>1, <3>1, <3>2, RollbackTypes DEF Abort, TypeOK, TxnKeys
    <2>5. CASE Environment
      BY <2>1, <2>5, EnvironmentTypes
    <2>6. CASE UNCHANGED vars
      BY <2>1, <2>6 DEF vars, storeVars, orderVars, TypeOK, StoreTypeOK
    <2>7. QED
      BY <2>1, <2>2, <2>3, <2>4, <2>5, <2>6 DEF Next
  <1>3. QED
    BY <1>1, <1>2, PTL DEF Spec

-----------------------------------------------------------------------------
\* The inductive invariant behind OrderMatchesLedger and NoOverdraft: what the
\* row locks guarantee, and what a handler in the middle of a transaction may
\* therefore still rely on.

\* No two transactions hold the same order row.
OrderLocks ==
    \A v, w \in Workers :
        /\ txn[v].stage \in OrderStages /\ txn[w].stage \in OrderStages
        /\ txn[v].order = txn[w].order
        => v = w

\* A wallet row is held over a step exactly by a handler that is cancelling an
\* order of that member.
WalletLocks ==
    \A m \in Members, w \in Workers :
        walletLock[m] = w <=>
            txn[w].stage \in {"cancelling", "cancelled"} /\ Owner[txn[w].order] = m

\* The status a handler checked is still that of the order it has locked, and
\* the ledger row it looked for was not there.
OrderChecked(w) ==
    /\ txn[w].stage \in OrderStages => orders[txn[w].order].status # "NONE"
    /\ txn[w].stage \in {"confirming", "approved", "charging"} =>
           orders[txn[w].order].status = "PENDING"
    /\ txn[w].stage \in {"cancelChecked", "cancelling", "cancelled", "refunding"} =>
           orders[txn[w].order].status = "COMPLETED"
    /\ txn[w].stage \in {"charging", "refunding"} => ~txn[w].posted

\* The wallet a cancelling handler has locked can still pay.
WalletChecked(w) ==
    txn[w].stage \in {"cancelling", "cancelled"} => ~Short(txn[w].order)

IInv ==
    /\ TypeOK
    /\ OrderLocks
    /\ WalletLocks
    /\ \A w \in Workers : OrderChecked(w) /\ WalletChecked(w)
    /\ OrderMatchesLedger
    /\ NoOverdraft

\* What is posted for orders after one more ledger row of an order ...
LEMMA OrderEntryPosts ==
    ASSUME NEW o, NEW type, InsertEntry(OrderEntry(o, type)), NEW p, NEW t
    PROVE  HasTransaction(p, t)' <=> HasTransaction(p, t) \/ (p = o /\ t = type)
  <1>1. DedupKey(OrderEntry(o, type)) = <<Owner[o], type, "COIN_ORDER", o>>
    BY DEF DedupKey, OrderEntry
  <1>2. HasTransaction(p, t)' <=>
            HasTransaction(p, t) \/ DedupKey(OrderEntry(o, type)) = <<Owner[p], t, "COIN_ORDER", p>>
    BY InsertEntryPosts DEF HasTransaction
  <1>3. QED
    BY <1>1, <1>2

\* ... and after a row of another service: the same.
LEMMA OtherEntryPosts ==
    ASSUME NEW e, InsertEntry(e), e.source # "COIN_ORDER", NEW p, NEW t
    PROVE  HasTransaction(p, t)' <=> HasTransaction(p, t)
  <1>1. DedupKey(e) # <<Owner[p], t, "COIN_ORDER", p>>
    BY DEF DedupKey
  <1>2. QED
    BY <1>1, InsertEntryPosts DEF HasTransaction

\* The end of a transaction leaves the locks of the others as they were.
LEMMA EndTxnLocks ==
    ASSUME TypeOK, OrderLocks, WalletLocks, NEW w \in Workers, EndTxn(w)
    PROVE  OrderLocks' /\ WalletLocks'
  <1>1. \A v \in Workers : txn'[v] = IF v = w THEN Idle ELSE txn[v]
    BY DEF EndTxn, TypeOK
  <1>2. OrderLocks'
    BY <1>1 DEF OrderLocks, Idle, OrderStages, Stages, ProductStages
  <1>3. ASSUME NEW m \in Members, NEW v \in Workers
        PROVE  walletLock'[m] = v <=>
                 txn'[v].stage \in {"cancelling", "cancelled"} /\ Owner[txn'[v].order] = m
    <2>1. walletLock'[m] = IF walletLock[m] = w THEN None ELSE walletLock[m]
      BY DEF EndTxn
    <2>2. CASE v = w
      BY <1>1, <2>1, <2>2, NullAssumption DEF Idle
    <2>3. CASE v # w
      BY <1>1, <2>1, <2>3, NullAssumption DEF WalletLocks
    <2>4. QED
      BY <2>2, <2>3
  <1>4. QED
    BY <1>2, <1>3 DEF WalletLocks

\* A step that leaves orders, ledger and balances alone keeps what speaks of
\* them only.
LEMMA QuietStep ==
    ASSUME IInv, UNCHANGED <<balance, ledger, orders>>
    PROVE  OrderMatchesLedger' /\ NoOverdraft'
  <1>1. \A o, t : HasTransaction(o, t)' <=> HasTransaction(o, t)
    BY DEF HasTransaction, Posted
  <1>2. QED
    BY <1>1 DEF IInv, OrderMatchesLedger, NoOverdraft, Coins

\* A rollback keeps the invariant.
LEMMA RollbackKeeps ==
    ASSUME IInv, NEW w \in Workers, Rollback(w)
    PROVE  /\ OrderLocks' /\ WalletLocks'
           /\ \A v \in Workers : OrderChecked(v)' /\ WalletChecked(v)'
           /\ OrderMatchesLedger' /\ NoOverdraft'
  <1>1. \A v \in Workers : txn'[v] = IF v = w THEN Idle ELSE txn[v]
    BY DEF Rollback, EndTxn, IInv, TypeOK
  <1>2. ASSUME NEW v \in Workers PROVE OrderChecked(v)' /\ WalletChecked(v)'
    <2>1. UNCHANGED <<balance, orders>>
      BY DEF Rollback
    <2>2. CASE v = w
      BY <1>1, <2>2 DEF Idle, OrderChecked, WalletChecked, OrderStages
    <2>3. CASE v # w
      BY <1>1, <2>1, <2>3 DEF IInv, OrderChecked, WalletChecked, Short, Coins
    <2>4. QED
      BY <2>2, <2>3
  <1>3. QED
    BY <1>2, EndTxnLocks, QuietStep DEF IInv, Rollback

\* A commit that moves coins, of a charge or of a refund, by API or webhook.
LEMMA CommitKeeps ==
    ASSUME IInv, NEW w \in Workers, NEW o \in Orders, o = txn[w].order,
           NEW type, NEW status,
           \/ /\ type = "CHARGE" /\ status = "COMPLETED"
              /\ txn[w].stage \in {"approved", "charging"}
           \/ /\ type = "REFUND" /\ status = "CANCELLED" /\ ~Short(o)
              /\ txn[w].stage \in {"cancelled", "refunding"},
           walletLock[Owner[o]] \in {None, w},
           NEW snap, Post(OrderEntry(o, type), snap),
           NEW key, SetOrder(o, status, key), EndTxn(w)
    PROVE  /\ OrderLocks' /\ WalletLocks'
           /\ \A v \in Workers : OrderChecked(v)' /\ WalletChecked(v)'
           /\ OrderMatchesLedger' /\ NoOverdraft'
  <1>1. \A v \in Workers : txn'[v] = IF v = w THEN Idle ELSE txn[v]
    BY DEF EndTxn, IInv, TypeOK
  <1>2. \A v \in Workers : v # w /\ txn[v].stage \in OrderStages => txn[v].order # o
    BY DEF IInv, OrderLocks, OrderStages, Stages, ProductStages
  <1>3. \A p \in Orders : orders'[p].status = IF p = o THEN status ELSE orders[p].status
    BY DEF SetOrder, IInv, TypeOK
  <1>4. OrderEntry(o, type) \in Entry
    BY OrderEntryType
  <1>5. /\ Coins(Owner[o])' \in {Coins(Owner[o]), Coins(Owner[o]) + OrderEntry(o, type).coins}
        /\ \A m \in Members \ {Owner[o]} : balance'[m] = balance[m]
    BY <1>4, PostBalance, NullAssumption DEF IInv, TypeOK, OrderEntry
  <1>6. CoinAmount[o] \in Nat \ {0} /\ Owner[o] \in Members
    BY OrderAssumption
  <1>7. \A v \in Workers : OrderChecked(v)'
    <2>1. ASSUME NEW v \in Workers, v # w, txn[v].stage \in OrderStages
          PROVE  txn[v].order \in Orders \ {o}
      BY <1>2, <2>1, BusyTypes DEF IInv, OrderStages, Stages, ProductStages
    <2>2. QED
      BY <1>1, <1>3, <2>1 DEF IInv, OrderChecked, Idle, OrderStages, Stages, ProductStages
  <1>8. \A v \in Workers : WalletChecked(v)'
    <2>1. ASSUME NEW v \in Workers, v # w, txn[v].stage \in {"cancelling", "cancelled"}
          PROVE  balance'[Owner[txn[v].order]] = balance[Owner[txn[v].order]]
      <3>1. Owner[txn[v].order] \in Members
        BY <2>1, BusyTypes DEF IInv
      <3>2. walletLock[Owner[txn[v].order]] = v
        BY <2>1, <3>1 DEF IInv, WalletLocks
      <3>3. Owner[txn[v].order] # Owner[o]
        BY <2>1, <3>2, NullAssumption
      <3>4. QED
        BY <1>5, <3>1, <3>3
    <2>2. QED
      BY <1>1, <2>1 DEF IInv, WalletChecked, Idle, Short, Coins
  <1>9. OrderMatchesLedger'
    <2>1. \A p, t : HasTransaction(p, t)' <=> HasTransaction(p, t) \/ (p = o /\ t = type)
      BY OrderEntryPosts DEF Post
    <2>2. orders[o].status = IF type = "CHARGE" THEN "PENDING" ELSE "COMPLETED"
      BY DEF IInv, OrderChecked
    <2>3. QED
      BY <1>3, <2>1, <2>2 DEF IInv, OrderMatchesLedger
  <1>10. NoOverdraft'
    <2>1. Coins(Owner[o]) \in Int /\ Coins(Owner[o]) >= 0
      BY <1>6 DEF IInv, NoOverdraft, Coins, TypeOK, StoreTypeOK
    <2>2. Coins(Owner[o]) + OrderEntry(o, type).coins >= 0
      BY <1>6, <2>1 DEF OrderEntry, Short
    <2>3. \A m \in Members \ {Owner[o]} : Coins(m)' >= 0
      BY <1>5 DEF Coins, IInv, NoOverdraft
    <2>4. QED
      BY <1>5, <2>1, <2>2, <2>3 DEF NoOverdraft
  <1>11. QED
    BY <1>7, <1>8, <1>9, <1>10, EndTxnLocks DEF IInv

\* The webhook steps that change an order but no wallet.
LEMMA UpdateOnlyKeeps ==
    ASSUME IInv, NEW w \in Workers, WebhookUpdateOnly(w)
    PROVE  /\ OrderLocks' /\ WalletLocks'
           /\ \A v \in Workers : OrderChecked(v)' /\ WalletChecked(v)'
           /\ OrderMatchesLedger' /\ NoOverdraft'
  <1> DEFINE o == txn[w].order
  <1>1. o \in Orders
    BY BusyTypes DEF WebhookUpdateOnly, WebhookApplies, WebhookHolds, IInv
  <1>2. \A v \in Workers : txn'[v] = IF v = w THEN Idle ELSE txn[v]
    BY DEF WebhookUpdateOnly, EndTxn, IInv, TypeOK
  <1>3. \A v \in Workers : txn[v].stage \in OrderStages => txn[v].order # o
    BY DEF WebhookUpdateOnly, WebhookApplies, WebhookHolds, OrderFree
  <1>4. /\ \A p \in Orders \ {o} : orders'[p] = orders[p]
        /\ \/ orders[o].status = "COMPLETED" /\ orders'[o].status = "COMPLETED"
           \/ /\ orders[o].status \in {"PENDING", "FAILED"}
              /\ orders'[o].status \in {"FAILED", "CANCELLED"}
    BY <1>1 DEF WebhookUpdateOnly, WebhookApplies, Repairable, SetOrder, IInv, TypeOK
  <1>5. \A v \in Workers : OrderChecked(v)' /\ WalletChecked(v)'
    <2>1. ASSUME NEW v \in Workers, v # w, txn[v].stage \in OrderStages
          PROVE  orders'[txn[v].order] = orders[txn[v].order]
      BY <1>3, <1>4, <2>1, BusyTypes DEF IInv, OrderStages, Stages, ProductStages
    <2>2. QED
      BY <1>2, <2>1 DEF WebhookUpdateOnly, IInv, OrderChecked, WalletChecked, Idle,
                        Short, Coins, OrderStages, Stages, ProductStages
  <1>6. OrderMatchesLedger'
    <2>1. \A p, t : HasTransaction(p, t)' <=> HasTransaction(p, t)
      BY DEF WebhookUpdateOnly, HasTransaction, Posted
    <2>2. QED
      BY <1>1, <1>4, <2>1 DEF IInv, OrderMatchesLedger
  <1>7. NoOverdraft'
    BY DEF WebhookUpdateOnly, IInv, NoOverdraft, Coins
  <1>8. OrderLocks' /\ WalletLocks'
    BY EndTxnLocks DEF WebhookUpdateOnly, IInv
  <1>9. QED
    BY <1>5, <1>6, <1>7, <1>8

\* Taking the lock of an order keeps the invariant.
LEMMA BeginKeeps ==
    ASSUME IInv, NEW w \in Workers, Begin(w)
    PROVE  /\ OrderLocks' /\ WalletLocks'
           /\ \A v \in Workers : OrderChecked(v)' /\ WalletChecked(v)'
           /\ UNCHANGED <<balance, ledger, orders>>
  <1> USE DEF OrderStages, Stages, ProductStages
  <1>1. CASE \/ \E o \in Orders, k \in Keys : ConfirmBegin(w, o, k)
             \/ \E o \in Orders : CancelBegin(w, o)
    <2>1. PICK o \in Orders :
            \/ \E k \in Keys : ConfirmBegin(w, o, k)
            \/ CancelBegin(w, o)
      BY <1>1
    <2>2. /\ \A v \in Workers \ {w} : txn'[v] = txn[v]
          /\ txn'[w].stage \in {"confirmBegun", "cancelBegun"} /\ txn'[w].order = o
          /\ txn[w].stage = "idle"
      <3>1. CASE CancelBegin(w, o)
        BY <3>1 DEF CancelBegin, IInv, TypeOK, Idle
      <3>2. CASE \E k \in Keys : ConfirmBegin(w, o, k)
        BY <3>2 DEF ConfirmBegin, IInv, TypeOK, Idle
      <3>3. QED
        BY <2>1, <3>1, <3>2
    <2>3. /\ UNCHANGED storeVars /\ UNCHANGED orders
          /\ orders[o].status # "NONE" /\ OrderFree(o)
      BY <2>1 DEF ConfirmBegin, CancelBegin
    <2>4. OrderLocks'
      BY <2>2, <2>3 DEF OrderFree, IInv, OrderLocks
    <2>5. WalletLocks'
      BY <2>2, <2>3 DEF IInv, WalletLocks, storeVars
    <2>6. QED
      BY <2>2, <2>3, <2>4, <2>5
         DEF IInv, OrderChecked, WalletChecked, Short, Coins, storeVars
  <1>3. CASE \E k \in Keys : WebhookFetch(w, k)
    <2>1. PICK k \in Keys : WebhookFetch(w, k)
      BY <1>3
    <2>2. /\ \A v \in Workers \ {w} : txn'[v] = txn[v]
          /\ txn'[w].stage = "fetched"
      BY <2>1 DEF WebhookFetch, IInv, TypeOK, Idle
    <2>3. OrderLocks' /\ WalletLocks'
      BY <2>1, <2>2 DEF WebhookFetch, IInv, OrderLocks, WalletLocks, storeVars
    <2>4. QED
      BY <2>1, <2>2, <2>3
         DEF WebhookFetch, IInv, OrderChecked, WalletChecked, Short, Coins, storeVars
  <1>4. QED
    BY <1>1, <1>3 DEF Begin

\* So does what a handler does before its commit: more locks, and Toss's answer.
LEMMA InsideKeeps ==
    ASSUME IInv, NEW w \in Workers,
           \/ ConfirmChecks(w) \/ LockGap(w) \/ CancelChecks(w) \/ CancelLocksWallet(w)
           \/ TossApproves(w) \/ TossCancels(w)
           \/ WebhookChargeBegin(w) \/ WebhookRefundBegin(w)
    PROVE  /\ OrderLocks' /\ WalletLocks'
           /\ \A v \in Workers : OrderChecked(v)' /\ WalletChecked(v)'
           /\ UNCHANGED <<balance, ledger, orders>>
  <1> USE DEF OrderStages, Stages, ProductStages
  <1>1. CASE \/ ConfirmChecks(w) \/ LockGap(w) \/ CancelChecks(w)
             \/ TossApproves(w) \/ TossCancels(w)
    <2>1. /\ \A v \in Workers \ {w} : txn'[v] = txn[v]
          /\ txn'[w].order = txn[w].order /\ txn'[w].posted = txn[w].posted
          /\ \/ /\ txn[w].stage = "confirmBegun" /\ txn'[w].stage = "confirming"
                /\ orders[txn[w].order].status = "PENDING"
             \/ txn'[w].stage = txn[w].stage
             \/ /\ txn[w].stage = "cancelBegun" /\ txn'[w].stage = "cancelChecked"
                /\ orders[txn[w].order].status = "COMPLETED"
             \/ txn[w].stage = "confirming" /\ txn'[w].stage = "approved"
             \/ txn[w].stage = "cancelling" /\ txn'[w].stage = "cancelled"
      BY <1>1 DEF ConfirmChecks, Confirmable, LockGap, CancelChecks, Cancellable,
                  TossApproves, TossCancels, IInv, TypeOK, Transaction
    <2>2. UNCHANGED storeVars /\ UNCHANGED orders
      BY <1>1 DEF ConfirmChecks, LockGap, CancelChecks, TossApproves, TossCancels
    <2>3. OrderLocks' /\ WalletLocks'
      BY <2>1, <2>2 DEF IInv, OrderLocks, WalletLocks, storeVars
    <2>4. QED
      BY <2>1, <2>2, <2>3 DEF IInv, OrderChecked, WalletChecked, Short, Coins, storeVars
  <1>4. CASE CancelLocksWallet(w)
    <2> DEFINE o == txn[w].order
    <2>1. /\ \A v \in Workers \ {w} : txn'[v] = txn[v]
          /\ txn'[w].order = o /\ txn'[w].posted = txn[w].posted
          /\ txn[w].stage = "cancelChecked" /\ txn'[w].stage = "cancelling"
      BY <1>4 DEF CancelLocksWallet, IInv, TypeOK, Transaction
    <2>2. \A m \in Members : walletLock'[m] = IF m = Owner[o] THEN w ELSE walletLock[m]
      BY <1>4 DEF CancelLocksWallet, IInv, TypeOK, StoreTypeOK
    <2>3. OrderLocks'
      BY <2>1 DEF IInv, OrderLocks
    <2>4. WalletLocks'
      BY <1>4, <2>1, <2>2, NullAssumption DEF CancelLocksWallet, WalletFree, IInv, WalletLocks
    <2>5. UNCHANGED <<balance, ledger, orders>> /\ ~Short(o)
      BY <1>4 DEF CancelLocksWallet
    <2>6. \A v \in Workers : OrderChecked(v)'
      BY <2>1, <2>5 DEF IInv, OrderChecked
    <2>7. \A v \in Workers : WalletChecked(v)'
      BY <2>1, <2>5 DEF IInv, WalletChecked, Short, Coins
    <2>8. QED
      BY <2>3, <2>4, <2>5, <2>6, <2>7
  <1>2. CASE WebhookChargeBegin(w) \/ WebhookRefundBegin(w)
    <2>1. PICK stage \in {"charging", "refunding"}, type \in {"CHARGE", "REFUND"} :
              /\ WebhookLookup(w, stage, type)
              /\ \/ /\ stage = "charging" /\ type = "CHARGE"
                    /\ orders[txn[w].order].status = "PENDING"
                 \/ /\ stage = "refunding" /\ type = "REFUND"
                    /\ orders[txn[w].order].status = "COMPLETED"
      BY <1>2 DEF WebhookChargeBegin, WebhookRefundBegin
    <2>2. txn[w].stage = "fetched" /\ OrderFree(txn[w].order)
      BY <2>1 DEF WebhookLookup, WebhookApplies, WebhookHolds
    <2>3. txn[w].order \in Orders
      BY <2>2, BusyTypes DEF IInv
    <2>4. ~HasTransaction(txn[w].order, type)
      BY <2>1, <2>3 DEF IInv, OrderMatchesLedger
    <2>5. /\ \A v \in Workers \ {w} : txn'[v] = txn[v]
          /\ txn'[w].order = txn[w].order
          /\ txn'[w].stage = stage
          /\ txn'[w].posted = HasTransaction(txn[w].order, type)
      BY <2>1 DEF WebhookLookup, IInv, TypeOK, Transaction
    <2>6. UNCHANGED storeVars /\ UNCHANGED orders
      BY <2>1 DEF WebhookLookup
    <2>7. OrderLocks'
      BY <2>2, <2>5 DEF OrderFree, IInv, OrderLocks
    <2>8. WalletLocks'
      BY <2>2, <2>5, <2>6 DEF IInv, WalletLocks, storeVars
    <2>9. QED
      BY <2>1, <2>4, <2>5, <2>6, <2>7, <2>8
         DEF IInv, OrderChecked, WalletChecked, Short, Coins, storeVars
  <1>3. QED
    BY <1>1, <1>2, <1>4

\* The environment keeps the invariant.
LEMMA EnvironmentKeeps ==
    ASSUME IInv, Environment
    PROVE  /\ OrderLocks' /\ WalletLocks'
           /\ \A v \in Workers : OrderChecked(v)' /\ WalletChecked(v)'
           /\ OrderMatchesLedger' /\ NoOverdraft'
  <1>1. CASE \E o \in Orders : Create(o)
    <2>1. PICK o \in Orders : Create(o)
      BY <1>1
    <2>2. orders[o].status = "NONE" /\ \A p \in Orders : orders'[p].status =
              IF p = o THEN "PENDING" ELSE orders[p].status
      BY <2>1 DEF Create, SetOrder, IInv, TypeOK
    <2>3. \A v \in Workers : OrderChecked(v)'
      <3>1. ASSUME NEW v \in Workers, txn[v].stage \in OrderStages
            PROVE  txn[v].order \in Orders \ {o}
        BY <2>2, <3>1, BusyTypes DEF IInv, OrderChecked, OrderStages, Stages, ProductStages
      <3>2. QED
        BY <2>1, <2>2, <3>1 DEF Create, IInv, OrderChecked, OrderStages, Stages, ProductStages
    <2>4. \A p, t : HasTransaction(p, t)' <=> HasTransaction(p, t)
      BY <2>1 DEF Create, storeVars, HasTransaction, Posted
    <2>5. OrderMatchesLedger'
      BY <2>2, <2>4 DEF IInv, OrderMatchesLedger
    <2>6. QED
      BY <2>1, <2>3, <2>5 DEF Create, storeVars, IInv, OrderLocks, WalletLocks,
                              WalletChecked, Short, Coins, NoOverdraft
  <1>2. CASE \E k \in Keys : \/ TossApprovesLate(k) \/ TossExpires(k)
                              \/ TossCancelled(k) \/ TossVoids(k) \/ LookupRefused(k)
    <2>1. UNCHANGED <<storeVars, orders, txn>>
      BY <1>2 DEF TossApprovesLate, TossExpires, TossCancelled, TossVoids, LookupRefused
    <2>2. OrderMatchesLedger' /\ NoOverdraft'
      BY <2>1, QuietStep DEF storeVars
    <2>3. QED
      BY <2>1, <2>2 DEF storeVars, IInv, OrderLocks, WalletLocks, OrderChecked,
                        WalletChecked, Short, Coins
  <1>3. CASE \E m \in Members : GetWallet(m)
    <2>1. PICK m \in Members : GetWallet(m)
      BY <1>3
    <2>2. /\ UNCHANGED <<walletLock, ledger, orders, txn>>
          /\ \A n \in Members : balance'[n] = IF n = m THEN 0 ELSE balance[n]
          /\ balance[m] = NoWallet
      BY <2>1 DEF GetWallet, OpenWallet, orderVars, IInv, TypeOK, StoreTypeOK
    <2>3. \A v \in Workers : WalletChecked(v)'
      <3>1. ASSUME NEW v \in Workers, txn[v].stage \in {"cancelling", "cancelled"}
            PROVE  Owner[txn[v].order] \in Members \ {m}
        BY <2>2, <3>1, BusyTypes DEF IInv, WalletChecked, Short
      <3>2. QED
        BY <2>2, <3>1 DEF IInv, WalletChecked, Short, Coins
    <2>4. \A p, t : HasTransaction(p, t)' <=> HasTransaction(p, t)
      BY <2>2 DEF HasTransaction, Posted
    <2>5. OrderMatchesLedger'
      BY <2>2, <2>4 DEF IInv, OrderMatchesLedger
    <2>6. NoOverdraft'
      BY <2>2, NullAssumption DEF IInv, NoOverdraft, Coins
    <2>7. QED
      BY <2>2, <2>3, <2>5, <2>6 DEF IInv, OrderLocks, WalletLocks, OrderChecked
  <1>4. CASE \E e \in OtherMoves : MoveElsewhere(e)
    <2>1. PICK e \in OtherMoves : MoveElsewhere(e)
      BY <1>4
    <2>2. e \in Entry /\ e.source # "COIN_ORDER" /\ e.member \in Members /\ e.coins \in Int
      BY OrderAssumption DEF Entry
    <2>3. UNCHANGED <<walletLock, orders, txn>> /\ WalletFree(e.member)
      BY <2>1 DEF MoveElsewhere, orderVars
    <2>4. /\ Coins(e.member)' \in {Coins(e.member), Coins(e.member) + e.coins}
          /\ \A m \in Members \ {e.member} : balance'[m] = balance[m]
      BY <2>1, <2>2, PostBalance, NullAssumption DEF MoveElsewhere, IInv, TypeOK
    <2>5. \A v \in Workers : WalletChecked(v)'
      <3>1. ASSUME NEW v \in Workers, txn[v].stage \in {"cancelling", "cancelled"}
            PROVE  Owner[txn[v].order] \in Members \ {e.member}
        BY <2>3, <3>1, BusyTypes, NullAssumption DEF IInv, WalletLocks, WalletFree
      <3>2. QED
        BY <2>3, <2>4, <3>1 DEF IInv, WalletChecked, Short, Coins
    <2>6. \A p, t : HasTransaction(p, t)' <=> HasTransaction(p, t)
      BY <2>1, <2>2, OtherEntryPosts DEF MoveElsewhere, Post
    <2>7. OrderMatchesLedger'
      BY <2>3, <2>6 DEF IInv, OrderMatchesLedger
    <2>8. NoOverdraft'
      <3>1. Coins(e.member) >= 0 /\ Coins(e.member) + e.coins >= 0
        BY <2>1, <2>2 DEF MoveElsewhere, IInv, NoOverdraft
      <3>2. \A m \in Members \ {e.member} : Coins(m)' >= 0
        BY <2>4 DEF Coins, IInv, NoOverdraft
      <3>3. QED
        BY <2>4, <3>1, <3>2 DEF NoOverdraft
    <2>9. QED
      BY <2>3, <2>5, <2>7, <2>8 DEF IInv, OrderLocks, WalletLocks, OrderChecked
  <1>5. QED
    BY <1>1, <1>2, <1>3, <1>4 DEF Environment

\* Nobody holds the row lock of a wallet that is to be inserted.
LEMMA ReadyFree ==
    ASSUME IInv, NEW w \in Workers, txn[w].stage # "idle", WalletReady(w)
    PROVE  WalletFree(Owner[txn[w].order])
  <1> DEFINE m == Owner[txn[w].order]
  <1>1. m \in Members
    BY BusyTypes DEF IInv
  <1>2. CASE balance[m] = NoWallet
    <2>1. \A v \in Workers : walletLock[m] # v
      BY <1>1, <1>2 DEF IInv, WalletLocks, WalletChecked, Short
    <2>2. QED
      BY <1>1, <2>1 DEF WalletFree, IInv, TypeOK, StoreTypeOK
  <1>3. CASE balance[m] # NoWallet
    BY <1>3 DEF WalletReady
  <1>4. QED
    BY <1>2, <1>3

\* A step of a handler keeps the invariant.
LEMMA AdvanceKeeps ==
    ASSUME IInv, NEW w \in Workers, Advance(w)
    PROVE  /\ OrderLocks' /\ WalletLocks'
           /\ \A v \in Workers : OrderChecked(v)' /\ WalletChecked(v)'
           /\ OrderMatchesLedger' /\ NoOverdraft'
  <1>1. CASE \/ ConfirmChecks(w) \/ LockGap(w) \/ CancelChecks(w) \/ CancelLocksWallet(w)
             \/ TossApproves(w) \/ TossCancels(w)
             \/ WebhookChargeBegin(w) \/ WebhookRefundBegin(w)
    BY <1>1, InsideKeeps, QuietStep
  <1>2. CASE \/ ConfirmRefused(w) \/ TossRefuses(w) \/ TossDeclines(w)
             \/ CancelRefused(w) \/ TossRefusesCancel(w) \/ WebhookIgnored(w)
             \/ RefundShort(w) \/ ChargeSaveFails(w) \/ DeadlockVictim(w)
    <2>1. Rollback(w)
      BY <1>2 DEF ConfirmRefused, TossRefuses, TossDeclines, CancelRefused, TossRefusesCancel,
                  WebhookIgnored, RefundShort, ChargeSaveFails, DeadlockVictim
    <2>2. QED
      BY <2>1, RollbackKeeps
  <1>3. CASE ConfirmCommit(w)
    <2>1. txn[w].order \in Orders
      BY <1>3, BusyTypes DEF ConfirmCommit, IInv
    <2>2. QED
      BY <1>3, <2>1, ReadyFree, CommitKeeps DEF ConfirmCommit, WalletFree
  <1>4. CASE CancelCommit(w)
    <2>1. txn[w].order \in Orders /\ Owner[txn[w].order] \in Members
      BY <1>4, BusyTypes DEF CancelCommit, IInv
    <2>2. ~Short(txn[w].order) /\ walletLock[Owner[txn[w].order]] = w
      BY <1>4, <2>1 DEF CancelCommit, IInv, WalletChecked, WalletLocks
    <2>3. QED
      BY <1>4, <2>1, <2>2, CommitKeeps DEF CancelCommit
  <1>5. CASE WebhookUpdateOnly(w)
    BY <1>5, UpdateOnlyKeeps
  <1>6. CASE WebhookCharge(w)
    <2>1. txn[w].order \in Orders /\ ~txn[w].posted
      BY <1>6, BusyTypes DEF WebhookCharge, IInv, OrderChecked
    <2>2. QED
      BY <1>6, <2>1, ReadyFree, CommitKeeps DEF WebhookCharge, PostUnlessPosted, WalletFree
  <1>7. CASE WebhookRefund(w)
    <2>1. txn[w].order \in Orders /\ ~txn[w].posted
      BY <1>7, BusyTypes DEF WebhookRefund, IInv, OrderChecked
    <2>2. QED
      BY <1>7, <2>1, ReadyFree, CommitKeeps DEF WebhookRefund, PostUnlessPosted, WalletFree
  <1>8. QED
    BY <1>1, <1>2, <1>3, <1>4, <1>5, <1>6, <1>7 DEF Advance

\* IInv is inductive.
LEMMA Inductive == Spec => []IInv
  <1>1. Init => IInv
    <2>1. SUFFICES ASSUME Init PROVE OrderLocks /\ WalletLocks /\ OrderMatchesLedger /\ NoOverdraft
                                    /\ \A w \in Workers : OrderChecked(w) /\ WalletChecked(w)
      BY TypeCorrectInit DEF IInv
    <2>2. \A w \in Workers : txn[w].stage = "idle"
      BY <2>1 DEF Init, Idle
    <2>3. OrderLocks /\ \A w \in Workers : OrderChecked(w) /\ WalletChecked(w)
      BY <2>2 DEF OrderLocks, OrderChecked, WalletChecked, OrderStages, Stages, ProductStages
    <2>4. WalletLocks
      BY <2>1, <2>2, NullAssumption DEF Init, StoreInit, WalletLocks
    <2>5. OrderMatchesLedger
      BY <2>1 DEF Init, StoreInit, OrderMatchesLedger, HasTransaction, Posted
    <2>6. NoOverdraft
      <3>1. \A m \in Members : Coins(m) = 0
        BY <2>1 DEF Init, StoreInit, Coins
      <3>2. QED
        <4>1. SUFFICES ASSUME NEW m \in Members PROVE Coins(m) >= 0
          BY DEF NoOverdraft
        <4>2. Coins(m) = 0
          BY <3>1
        <4>3. QED
          BY <4>2
    <2>7. QED
      BY <2>3, <2>4, <2>5, <2>6
  <1>2. TypeOK' /\ IInv /\ [Next]_vars => IInv'
    <2>1. SUFFICES ASSUME TypeOK', IInv, [Next]_vars PROVE IInv'
      OBVIOUS
    <2>2. CASE \E w \in Workers : Begin(w)
      BY <2>1, <2>2, BeginKeeps, QuietStep DEF IInv
    <2>3. CASE \E w \in Workers : Advance(w)
      BY <2>1, <2>3, AdvanceKeeps DEF IInv
    <2>4. CASE \E w \in Workers : Abort(w)
      BY <2>1, <2>4, RollbackKeeps DEF IInv, Abort
    <2>5. CASE Environment
      BY <2>1, <2>5, EnvironmentKeeps DEF IInv
    <2>6. CASE UNCHANGED vars
      <3>1. OrderMatchesLedger' /\ NoOverdraft'
        BY <2>1, <2>6, QuietStep DEF vars, storeVars, orderVars
      <3>2. QED
        BY <2>1, <2>6, <3>1 DEF vars, storeVars, orderVars, IInv, OrderLocks, WalletLocks,
                                OrderChecked, WalletChecked, Short, Coins
    <2>7. QED
      BY <2>1, <2>2, <2>3, <2>4, <2>5, <2>6 DEF Next
  <1>3. QED
    BY <1>1, <1>2, TypeCorrect, PTL DEF Spec

\* No interleaving of API calls, webhooks, retries and crashes charges or
\* refunds an order twice, or changes its status without the ledger row.
THEOREM OrdersMatchLedger == Spec => []OrderMatchesLedger
  <1>1. IInv => OrderMatchesLedger
    BY DEF IInv
  <1>2. QED
    BY <1>1, Inductive, PTL

\* No balance ever becomes negative.
THEOREM NeverOverdrawn == Spec => []NoOverdraft
  <1>1. IInv => NoOverdraft
    BY DEF IInv
  <1>2. QED
    BY <1>1, Inductive, PTL

-----------------------------------------------------------------------------
\* How a step of the order service can move coins.
LEMMA MoneySteps ==
    ASSUME IInv, [Next]_vars
    PROVE  \/ UNCHANGED <<balance, ledger, ledgerTotal>>
           \/ \E m \in Members : /\ balance[m] = NoWallet
                                 /\ balance' = [balance EXCEPT ![m] = 0]
                                 /\ UNCHANGED <<ledger, ledgerTotal>>
           \/ \E e \in Entry : \E snap \in Snapshots(e.member) \union {NoSnapshot} :
                 Post(e, snap) /\ Coins(e.member) + e.coins >= 0
  <1>1. ASSUME NEW w \in Workers, Begin(w)
        PROVE  UNCHANGED <<balance, ledger, ledgerTotal>>
    BY <1>1 DEF Begin, ConfirmBegin, CancelBegin, WebhookFetch, storeVars
  <1>2. ASSUME NEW w \in Workers, Abort(w)
        PROVE  UNCHANGED <<balance, ledger, ledgerTotal>>
    BY <1>2 DEF Abort, Rollback
  <1>3. ASSUME NEW w \in Workers, NEW type \in {"CHARGE", "REFUND"}, NEW snap,
               txn[w].order \in Orders, txn[w].stage # "idle",
               snap \in {NoSnapshot, txn[w].snap},
               Post(OrderEntry(txn[w].order, type), snap),
               type = "REFUND" => ~Short(txn[w].order)
        PROVE  \E e \in Entry : \E s \in Snapshots(e.member) \union {NoSnapshot} :
                  Post(e, s) /\ Coins(e.member) + e.coins >= 0
    <2> DEFINE o == txn[w].order
               e == OrderEntry(o, type)
    <2>1. e \in Entry /\ Owner[o] \in Members /\ CoinAmount[o] \in Nat
      BY <1>3, OrderEntryType, OrderAssumption
    <2>2. Coins(Owner[o]) \in Int /\ Coins(Owner[o]) >= 0
      BY <2>1 DEF IInv, TypeOK, StoreTypeOK, NoOverdraft, Coins
    <2>3. /\ e.member = Owner[o]
          /\ e.coins = IF type = "CHARGE" THEN CoinAmount[o] ELSE -CoinAmount[o]
      BY DEF OrderEntry
    <2>4. Coins(e.member) + e.coins >= 0
      BY <1>3, <2>1, <2>2, <2>3 DEF Short
    <2>5. snap \in Snapshots(e.member) \union {NoSnapshot}
      BY <1>3, <2>3 DEF Snapshots
    <2>6. QED
      BY <1>3, <2>1, <2>4, <2>5
  <1>4. ASSUME NEW w \in Workers, Advance(w)
        PROVE  \/ UNCHANGED <<balance, ledger, ledgerTotal>>
               \/ \E e \in Entry : \E snap \in Snapshots(e.member) \union {NoSnapshot} :
                     Post(e, snap) /\ Coins(e.member) + e.coins >= 0
    <2>1. CASE \/ ConfirmChecks(w) \/ ConfirmRefused(w) \/ LockGap(w)
               \/ TossApproves(w) \/ TossRefuses(w) \/ TossDeclines(w)
               \/ CancelChecks(w) \/ CancelRefused(w) \/ CancelLocksWallet(w)
               \/ TossCancels(w) \/ TossRefusesCancel(w)
      BY <2>1 DEF ConfirmChecks, ConfirmRefused, LockGap, TossApproves, TossRefuses,
                  TossDeclines, CancelChecks, CancelRefused, CancelLocksWallet, TossCancels,
                  TossRefusesCancel, Rollback, storeVars
    <2>7. CASE \/ WebhookIgnored(w) \/ WebhookUpdateOnly(w)
               \/ WebhookChargeBegin(w) \/ WebhookRefundBegin(w)
               \/ RefundShort(w) \/ ChargeSaveFails(w) \/ DeadlockVictim(w)
      BY <2>7 DEF WebhookIgnored, WebhookUpdateOnly, WebhookChargeBegin, WebhookRefundBegin,
                  WebhookLookup, RefundShort, ChargeSaveFails, DeadlockVictim, Rollback, storeVars
    <2>2. CASE ConfirmCommit(w)
      <3>1. txn[w].order \in Orders
        BY <2>2, BusyTypes DEF ConfirmCommit, IInv
      <3>2. Post(OrderEntry(txn[w].order, "CHARGE"), txn[w].snap)
        BY <2>2 DEF ConfirmCommit
      <3>3. txn[w].stage # "idle"
        BY <2>2 DEF ConfirmCommit
      <3>4. QED
        BY <1>3, <3>1, <3>2, <3>3
    <2>3. CASE CancelCommit(w)
      <3>1. txn[w].order \in Orders
        BY <2>3, BusyTypes DEF CancelCommit, IInv
      <3>2. /\ Post(OrderEntry(txn[w].order, "REFUND"), NoSnapshot)
            /\ ~Short(txn[w].order)
        BY <2>3 DEF CancelCommit, IInv, WalletChecked
      <3>3. txn[w].stage # "idle"
        BY <2>3 DEF CancelCommit
      <3>4. QED
        BY <1>3, <3>1, <3>2, <3>3
    <2>4. CASE WebhookCharge(w)
      <3>1. txn[w].order \in Orders
        BY <2>4, BusyTypes DEF WebhookCharge, IInv
      <3>2. Post(OrderEntry(txn[w].order, "CHARGE"), txn[w].snap)
        BY <2>4 DEF WebhookCharge, PostUnlessPosted, IInv, OrderChecked
      <3>3. txn[w].stage # "idle"
        BY <2>4 DEF WebhookCharge
      <3>4. QED
        BY <1>3, <3>1, <3>2, <3>3
    <2>5. CASE WebhookRefund(w)
      <3>1. txn[w].order \in Orders
        BY <2>5, BusyTypes DEF WebhookRefund, IInv
      <3>2. /\ Post(OrderEntry(txn[w].order, "REFUND"), txn[w].snap)
            /\ ~Short(txn[w].order)
        BY <2>5 DEF WebhookRefund, PostUnlessPosted, IInv, OrderChecked
      <3>3. txn[w].stage # "idle"
        BY <2>5 DEF WebhookRefund
      <3>4. QED
        BY <1>3, <3>1, <3>2, <3>3
    <2>6. QED
      BY <1>4, <2>1, <2>2, <2>3, <2>4, <2>5, <2>7 DEF Advance
  <1>5. CASE Environment
    <2>1. CASE \E o \in Orders : Create(o)
      BY <2>1 DEF Create, storeVars
    <2>2. CASE \E k \in Keys : \/ TossApprovesLate(k) \/ TossExpires(k)
                                \/ TossCancelled(k) \/ TossVoids(k) \/ LookupRefused(k)
      BY <2>2 DEF TossApprovesLate, TossExpires, TossCancelled, TossVoids, LookupRefused, storeVars
    <2>3. CASE \E m \in Members : GetWallet(m)
      BY <2>3 DEF GetWallet, OpenWallet
    <2>4. CASE \E e \in OtherMoves : MoveElsewhere(e)
      BY <2>4, OrderAssumption DEF MoveElsewhere
    <2>5. QED
      BY <1>5, <2>1, <2>2, <2>3, <2>4 DEF Environment
  <1>6. CASE UNCHANGED vars
    BY <1>6 DEF vars, storeVars
  <1>7. QED
    BY <1>1, <1>2, <1>4, <1>5, <1>6 DEF Next

\* Every balance change is explained by a row of that amount.
THEOREM ChangesAreLedgered == Spec => BalanceChangesAreLedgered
  <1> DEFINE Explained ==
        \A m \in Members : Coins(m)' # Coins(m) =>
            \E e \in ledger' \ ledger : e.member = m /\ Coins(m)' = Coins(m) + e.coins
  <1>1. IInv /\ [Next]_vars => [Explained]_vars
    <2>1. SUFFICES ASSUME IInv, [Next]_vars, NEW m \in Members, Coins(m)' # Coins(m)
                   PROVE  \E e \in ledger' \ ledger :
                             e.member = m /\ Coins(m)' = Coins(m) + e.coins
      OBVIOUS
    <2>2. CASE UNCHANGED <<balance, ledger, ledgerTotal>>
      BY <2>1, <2>2 DEF Coins
    <2>3. CASE \E n \in Members : balance[n] = NoWallet /\ balance' = [balance EXCEPT ![n] = 0]
      BY <2>1, <2>3, NullAssumption DEF Coins, IInv, TypeOK, StoreTypeOK
    <2>4. CASE \E e \in Entry : \E snap \in Snapshots(e.member) \union {NoSnapshot} :
                  Post(e, snap) /\ Coins(e.member) + e.coins >= 0
      <3>1. PICK e \in Entry : \E snap \in Snapshots(e.member) \union {NoSnapshot} : Post(e, snap)
        BY <2>4
      <3>2. PICK snap \in Snapshots(e.member) \union {NoSnapshot} : Post(e, snap)
        BY <3>1
      <3>3. /\ Coins(e.member)' \in {Coins(e.member), Coins(e.member) + e.coins}
            /\ \A n \in Members \ {e.member} : balance'[n] = balance[n]
        BY <2>1, <3>2, PostBalance, NullAssumption DEF IInv, TypeOK
      <3>4. m = e.member
        BY <2>1, <3>3 DEF Coins
      <3>5. e \in ledger' \ ledger
        BY <3>2, PostAddsOne
      <3>6. QED
        BY <2>1, <3>3, <3>4, <3>5
    <2>5. QED
      BY <2>1, <2>2, <2>3, <2>4, MoneySteps
  <1>2. QED
    BY <1>1, Inductive, PTL DEF Spec, BalanceChangesAreLedgered

\* A handler's snapshot is of its own member's wallet, and is not replaced.
LEMMA SnapshotSteps ==
    ASSUME IInv, [Next]_vars, NEW w \in Workers, txn'[w].stage # "idle",
           txn'[w].snap # NoSnapshot
    PROVE  /\ txn'[w].order \in Orders
           /\ \/ /\ txn[w].stage # "idle" /\ txn'[w].order = txn[w].order
                 /\ txn'[w].snap = txn[w].snap
              \/ txn'[w].snap = balance[Owner[txn'[w].order]]
  <1>1. txn \in [Workers -> Transaction]
    BY DEF IInv, TypeOK
  <1>2. CASE txn'[w] = txn[w]
    BY <1>2, BusyTypes DEF IInv
  <1>3. ASSUME NEW v \in Workers, EndTxn(v)
        PROVE  txn'[w] = txn[w]
    BY <1>1, <1>3 DEF EndTxn, Idle
  <1>4. ASSUME NEW v \in Workers, Begin(v)
        PROVE  txn'[w] = txn[w]
    BY <1>1, <1>4 DEF Begin, ConfirmBegin, CancelBegin, WebhookFetch, Idle
  <1>5. ASSUME NEW v \in Workers,
               \/ ConfirmChecks(v) \/ TossApproves(v) \/ LockGap(v) \/ CancelChecks(v)
               \/ CancelLocksWallet(v) \/ TossCancels(v)
               \/ WebhookChargeBegin(v) \/ WebhookRefundBegin(v),
               txn'[w] # txn[w]
        PROVE  /\ txn[w].stage # "idle" /\ txn'[w].order = txn[w].order
               /\ txn'[w].snap \in {txn[w].snap, balance[Owner[txn[w].order]]}
    BY <1>1, <1>5 DEF ConfirmChecks, TossApproves, LockGap, CancelChecks, CancelLocksWallet,
                      TossCancels, WebhookChargeBegin, WebhookRefundBegin, WebhookLookup,
                      WebhookApplies, WebhookHolds, Transaction
  <1>6. ASSUME NEW v \in Workers, Advance(v) \/ Abort(v), txn'[w] # txn[w]
        PROVE  /\ txn[w].stage # "idle" /\ txn'[w].order = txn[w].order
               /\ txn'[w].snap \in {txn[w].snap, balance[Owner[txn[w].order]]}
    BY <1>3, <1>5, <1>6
    DEF Advance, Abort, Rollback, ConfirmRefused, TossRefuses, TossDeclines, ConfirmCommit,
        CancelRefused, TossRefusesCancel, CancelCommit, WebhookIgnored, WebhookUpdateOnly,
        WebhookCharge, WebhookRefund, RefundShort, ChargeSaveFails, DeadlockVictim
  <1>7. ASSUME Environment \/ UNCHANGED vars
        PROVE  txn'[w] = txn[w]
    BY <1>7 DEF Environment, Create, TossApprovesLate, TossExpires, TossCancelled, TossVoids,
                LookupRefused, GetWallet, MoveElsewhere, orderVars, vars
  <1>8. CASE txn'[w] # txn[w]
    <2>1. PICK v \in Workers : Advance(v) \/ Abort(v)
      BY <1>4, <1>7, <1>8 DEF Next
    <2>2. QED
      BY <1>6, <1>8, <2>1, BusyTypes DEF IInv
  <1>9. QED
    BY <1>2, <1>8

\* So the abstract ledger's readers read what is there, or what they had read.
LEMMA SnapshotsRead ==
    ASSUME IInv, [Next]_vars, NEW m \in Members
    PROVE  Snapshots(m)' \subseteq Snapshots(m) \union {balance[m]}
  <1> SUFFICES ASSUME NEW w \in Workers, txn'[w].stage # "idle",
                      Owner[txn'[w].order] = m, txn'[w].snap # NoSnapshot
               PROVE  txn'[w].snap \in Snapshots(m) \union {balance[m]}
    BY DEF Snapshots
  <1>1. QED
    BY SnapshotSteps DEF Snapshots

\* The order service, with every interleaving, crash and repeated webhook,
\* implements the abstract ledger: no balance moves without its row, and a row
\* leaves its balance alone only behind a snapshot taken before.
THEOREM ImplementsLedger == Spec => LedgerRefined
  <1> DEFINE read == [m \in Members |-> Snapshots(m)]
  <1>1. Init => Accounts!Init
    <2>1. ASSUME Init, NEW m \in Members PROVE Snapshots(m) = {}
      BY <2>1 DEF Init, Idle, Snapshots
    <2>2. QED
      BY <2>1 DEF Init, StoreInit, Accounts!Init
  <1>2. IInv /\ [Next]_vars => [Accounts!Next]_<<balance, ledger, read>>
    <2>1. SUFFICES ASSUME IInv, [Next]_vars
                   PROVE  Accounts!Next
      OBVIOUS
    <2>2. Accounts!Reads
      BY <2>1, SnapshotsRead DEF Accounts!Reads
    <2>3. CASE UNCHANGED <<balance, ledger, ledgerTotal>>
      BY <2>2, <2>3 DEF Accounts!Next
    <2>4. CASE \E m \in Members : /\ balance[m] = NoWallet
                                  /\ balance' = [balance EXCEPT ![m] = 0]
                                  /\ UNCHANGED <<ledger, ledgerTotal>>
      BY <2>2, <2>4 DEF Accounts!Next, Accounts!Open
    <2>5. CASE \E e \in Entry : \E snap \in Snapshots(e.member) \union {NoSnapshot} :
                  Post(e, snap) /\ Coins(e.member) + e.coins >= 0
      <3>0. PICK e \in Entry : \E snap \in Snapshots(e.member) \union {NoSnapshot} :
                                  Post(e, snap) /\ Coins(e.member) + e.coins >= 0
        BY <2>5
      <3>1. PICK snap \in Snapshots(e.member) \union {NoSnapshot} :
                Post(e, snap) /\ Coins(e.member) + e.coins >= 0
        BY <3>0
      <3>2. /\ e.member \in Members
            /\ Accounts!Held(e.member) = Coins(e.member)
        BY DEF Entry, Accounts!Held, Coins
      <3>3. \/ balance'[e.member] = Coins(e.member) + e.coins
            \/ /\ balance[e.member] # NoWallet /\ balance' = balance
               /\ snap # NoSnapshot /\ snap = Coins(e.member) + e.coins
        BY <2>1, <3>1, PostExact, NullAssumption DEF IInv, TypeOK
      <3>4. Accounts!Moves(e)
        BY <3>1, <3>2, <3>3 DEF Accounts!Moves
      <3>5. ledger' = ledger \union {e} /\ ledger' \ ledger = {e}
        BY <3>1, PostAddsOne
      <3>6. \A f \in ledger : Accounts!Source(f) # Accounts!Source(e)
        BY <3>1 DEF Post, InsertEntry, Posted, DedupKey, Accounts!Source
      <3>7. DOMAIN balance' = Members
        BY <2>1, <3>1 DEF Post, SaveBalance, IInv, TypeOK, StoreTypeOK
      <3>8. \A m \in Members : m # e.member => balance'[m] = balance[m]
        BY <2>1, <3>1, PostBalance, NullAssumption DEF IInv, TypeOK
      <3>9. Accounts!Commit({e})
        BY <3>4, <3>5, <3>6, <3>7, <3>8 DEF Accounts!Commit
      <3>10. QED
        BY <2>2, <3>5, <3>9 DEF Accounts!Next
    <2>6. QED
      BY <2>1, <2>3, <2>4, <2>5, MoneySteps
  <1>3. QED
    BY <1>1, <1>2, Inductive, PTL DEF Spec, LedgerRefined, Accounts!Spec

-----------------------------------------------------------------------------
\* Nobody is stuck.

\* Whoever is named by a ledger row has a wallet.
WalletsThere == \A e \in ledger : balance[e.member] # NoWallet

\* A webhook that takes coins back has seen the wallet.
RefundsSeeWallets ==
    \A w \in Workers : txn[w].stage = "refunding" => txn[w].snap # NoWallet

\* Wallets are never removed, and a row comes with one.
LEMMA WalletsStay ==
    ASSUME IInv, WalletsThere, [Next]_vars
    PROVE  WalletsThere'
  <1>1. /\ balance \in [Members -> Int \union {NoWallet}]
        /\ ledger \subseteq Entry
    BY DEF IInv, TypeOK, StoreTypeOK
  <1>2. \A e \in ledger : e.member \in Members
    BY <1>1 DEF Entry
  <1>3. CASE UNCHANGED <<balance, ledger, ledgerTotal>>
    BY <1>3 DEF WalletsThere
  <1>4. CASE \E m \in Members : /\ balance[m] = NoWallet
                                /\ balance' = [balance EXCEPT ![m] = 0]
                                /\ UNCHANGED <<ledger, ledgerTotal>>
    BY <1>1, <1>2, <1>4, NullAssumption DEF WalletsThere
  <1>5. CASE \E e \in Entry : \E snap \in Snapshots(e.member) \union {NoSnapshot} :
                Post(e, snap) /\ Coins(e.member) + e.coins >= 0
    <2>1. PICK e \in Entry : \E snap \in Snapshots(e.member) \union {NoSnapshot} : Post(e, snap)
      BY <1>5
    <2>2. PICK snap \in Snapshots(e.member) \union {NoSnapshot} : Post(e, snap)
      BY <2>1
    <2>3. ledger' = ledger \union {e}
      BY <2>2, PostAddsOne
    <2>4. e.member \in Members /\ Coins(e.member) + e.coins \in Int
      BY <1>1, NullAssumption DEF Entry, Coins
    <2>5. balance'[e.member] # NoWallet
      BY <1>1, <2>2, <2>4, NullAssumption DEF Post, SaveBalance
    <2>6. \A m \in Members \ {e.member} : balance'[m] = balance[m]
      BY <2>2, PostBalance, NullAssumption DEF IInv, TypeOK
    <2>7. QED
      BY <1>2, <2>3, <2>5, <2>6 DEF WalletsThere
  <1>6. QED
    BY <1>3, <1>4, <1>5, MoneySteps

\* The only way to start taking coins back.
LEMMA RefundingStarts ==
    ASSUME IInv, [Next]_vars, NEW w \in Workers, txn'[w].stage = "refunding"
    PROVE  txn'[w] = txn[w] \/ WebhookRefundBegin(w)
  <1>1. txn \in [Workers -> Transaction]
    BY DEF IInv, TypeOK
  <1>2. ASSUME NEW v \in Workers, EndTxn(v)
        PROVE  txn'[w] = txn[w]
    BY <1>1, <1>2 DEF EndTxn, Idle
  <1>3. ASSUME NEW v \in Workers, Begin(v)
        PROVE  txn'[w] = txn[w]
    BY <1>1, <1>3 DEF Begin, ConfirmBegin, CancelBegin, WebhookFetch, Idle
  <1>4. ASSUME NEW v \in Workers,
               \/ ConfirmChecks(v) \/ TossApproves(v) \/ CancelChecks(v)
               \/ CancelLocksWallet(v) \/ TossCancels(v) \/ WebhookChargeBegin(v)
        PROVE  txn'[w] = txn[w]
    BY <1>1, <1>4 DEF ConfirmChecks, TossApproves, CancelChecks, CancelLocksWallet, TossCancels,
                      WebhookChargeBegin, WebhookLookup, Transaction
  <1>5. ASSUME NEW v \in Workers, WebhookRefundBegin(v)
        PROVE  txn'[w] = txn[w] \/ WebhookRefundBegin(w)
    BY <1>1, <1>5 DEF WebhookRefundBegin, WebhookLookup
  <1>6. ASSUME NEW v \in Workers, Advance(v) \/ Abort(v), ~LockGap(v)
        PROVE  txn'[w] = txn[w] \/ WebhookRefundBegin(w)
    BY <1>2, <1>4, <1>5, <1>6
    DEF Advance, Abort, Rollback, ConfirmRefused, TossRefuses, TossDeclines, ConfirmCommit,
        CancelRefused, TossRefusesCancel, CancelCommit, WebhookIgnored, WebhookUpdateOnly,
        WebhookCharge, WebhookRefund, RefundShort, ChargeSaveFails, DeadlockVictim
  <1>9. ASSUME NEW v \in Workers, LockGap(v)
        PROVE  txn'[w] = txn[w]
    BY <1>1, <1>9 DEF LockGap, Transaction
  <1>7. ASSUME Environment \/ UNCHANGED vars
        PROVE  txn'[w] = txn[w]
    BY <1>7 DEF Environment, Create, TossApprovesLate, TossExpires, TossCancelled, TossVoids,
                LookupRefused, GetWallet, MoveElsewhere, orderVars, vars
  <1>8. QED
    BY <1>3, <1>6, <1>7, <1>9 DEF Next

\* What is taken back was charged, to a wallet that was there.
LEMMA RefundsSee ==
    ASSUME IInv, WalletsThere, RefundsSeeWallets, [Next]_vars
    PROVE  RefundsSeeWallets'
  <1> SUFFICES ASSUME NEW w \in Workers, txn'[w].stage = "refunding"
               PROVE  txn'[w].snap # NoWallet
    BY DEF RefundsSeeWallets
  <1>1. CASE txn'[w] = txn[w]
    BY <1>1 DEF RefundsSeeWallets
  <1>2. CASE WebhookRefundBegin(w)
    <2> DEFINE o == txn[w].order
    <2>1. /\ txn'[w].snap = balance[Owner[o]]
          /\ orders[o].status = "COMPLETED"
          /\ txn[w].stage = "fetched"
      BY <1>2 DEF WebhookRefundBegin, WebhookLookup, WebhookApplies, WebhookHolds, IInv, TypeOK,
                  Transaction
    <2>2. o \in Orders
      BY <2>1, BusyTypes DEF IInv
    <2>3. HasTransaction(o, "CHARGE")
      BY <2>1, <2>2 DEF IInv, OrderMatchesLedger
    <2>4. PICK e \in ledger : DedupKey(e) = <<Owner[o], "CHARGE", "COIN_ORDER", o>>
      BY <2>3 DEF HasTransaction, Posted
    <2>5. e.member = Owner[o]
      BY <2>4 DEF DedupKey
    <2>6. QED
      BY <2>1, <2>4, <2>5 DEF WalletsThere
  <1>3. QED
    BY <1>1, <1>2, RefundingStarts

\* A handler that holds its order, and its product if it locks it, goes on as
\* soon as its wallet is free.
LEMMA HolderGoesOn ==
    ASSUME IInv, RefundsSeeWallets, NEW v \in Workers,
           txn[v].stage \in OrderStages \ {"confirmBegun", "cancelBegun"},
           txn[v].stage \in {"approved", "cancelChecked", "charging", "refunding"}
               => WalletFree(Owner[txn[v].order])
    PROVE  CanGoOn(v)
  <1> DEFINE o == txn[v].order
  <1>1. o \in Orders
    BY BusyTypes DEF IInv, OrderStages, Stages
  <1>2. /\ txn[v].stage \in {"approved", "charging"} => ~HasTransaction(o, "CHARGE")
        /\ txn[v].stage \in {"cancelled", "refunding"} => ~HasTransaction(o, "REFUND")
    BY <1>1 DEF IInv, OrderChecked, OrderMatchesLedger
  <1>3. ~SaveFails(Owner[o], NoSnapshot)
    BY DEF SaveFails, Seen
  <1>4. txn[v].stage = "refunding" => ~SaveFails(Owner[o], txn[v].snap)
    BY DEF SaveFails, Seen, RefundsSeeWallets
  <1>5. QED
    BY <1>2, <1>3, <1>4 DEF CanGoOn, CanPost, OrderStages, Stages

\* Whoever holds a wallet waits for nobody.
LEMMA WalletHolder ==
    ASSUME IInv, RefundsSeeWallets, NEW w \in Workers,
           txn[w].stage \in {"approved", "cancelChecked", "charging", "refunding"},
           ~WalletFree(Owner[txn[w].order])
    PROVE  \E v \in Workers : WaitsFor(w, v) /\ CanGoOn(v)
  <1> DEFINE m == Owner[txn[w].order]
  <1>1. m \in Members
    BY BusyTypes DEF IInv
  <1>2. PICK v \in Workers : walletLock[m] = v
    BY <1>1 DEF WalletFree, IInv, TypeOK, StoreTypeOK
  <1>3. txn[v].stage \in {"cancelling", "cancelled"}
    BY <1>1, <1>2 DEF IInv, WalletLocks
  <1>4. CanGoOn(v)
    BY <1>3, HolderGoesOn DEF OrderStages, Stages
  <1>5. QED
    BY <1>2, <1>4 DEF WaitsFor

\* However many orders and handlers, and however their row locks come one after
\* the other: whoever waits for the order, the product or the wallet waits for a
\* handler that can go on, or for one that waits for such a handler (up to three
\* in a row), and no commit is refused for ever (confirmCoinOrder,
\* cancelCoinOrder, handleTossWebhook).
THEOREM HandlersAreNotStuck == Spec => []NobodyIsStuck
  <1> DEFINE Inv == WalletsThere /\ RefundsSeeWallets
             Goes1(w) == CanGoOn(w) \/ \E v \in Workers : WaitsFor(w, v) /\ CanGoOn(v)
             Goes2(w) == Goes1(w) \/ \E v \in Workers : WaitsFor(w, v) /\ Goes1(v)
             Goes3(w) == Goes2(w) \/ \E v \in Workers : WaitsFor(w, v) /\ Goes2(v)
  <1>1. Init => Inv
    BY DEF Init, StoreInit, WalletsThere, RefundsSeeWallets, Idle
  <1>2. IInv /\ Inv /\ [Next]_vars => Inv'
    BY WalletsStay, RefundsSee
  <1>3. IInv /\ Inv => NobodyIsStuck
    <2> SUFFICES ASSUME IInv, Inv, NEW w \in Workers, txn[w].stage # "idle"
                 PROVE  Goes3(w)
      BY DEF NobodyIsStuck
    <2>1. ASSUME NEW v \in Workers, txn[v].stage \in OrderStages \ {"confirmBegun", "cancelBegun"}
          PROVE  Goes1(v)
      BY <2>1, HolderGoesOn, WalletHolder
    <2>2. ASSUME NEW v \in Workers, txn[v].stage \in {"confirmBegun", "cancelBegun"}
          PROVE  Goes2(v)
      <3>1. CASE ProductFree(txn[v].order)
        BY <2>2, <3>1 DEF CanGoOn
      <3>2. CASE ~ProductFree(txn[v].order)
        <4>1. PICK u \in Workers : /\ txn[u].stage \in ProductStages
                                   /\ Product[txn[u].order] = Product[txn[v].order]
          BY <3>2 DEF ProductFree
        <4>2. WaitsFor(v, u)
          BY <2>2, <4>1 DEF WaitsFor
        <4>3. Goes1(u)
          BY <2>1, <4>1 DEF OrderStages, ProductStages, Stages
        <4>4. QED
          BY <4>2, <4>3
      <3>3. QED
        BY <3>1, <3>2
    <2>3. ASSUME NEW v \in Workers, txn[v].stage \in OrderStages
          PROVE  Goes2(v)
      <3>1. CASE txn[v].stage \in {"confirmBegun", "cancelBegun"}
        BY <2>2, <3>1
      <3>2. CASE txn[v].stage \notin {"confirmBegun", "cancelBegun"}
        <4>1. Goes1(v)
          BY <2>1, <2>3, <3>2
        <4>2. QED
          BY <4>1
      <3>3. QED
        BY <3>1, <3>2
    <2>4. CASE txn[w].stage = "fetched"
      <3>1. CASE OrderFree(txn[w].order)
        BY <2>4, <3>1 DEF CanGoOn
      <3>2. CASE ~OrderFree(txn[w].order)
        <4>1. PICK v \in Workers : txn[v].stage \in OrderStages /\ txn[v].order = txn[w].order
          BY <3>2 DEF OrderFree
        <4>2. WaitsFor(w, v)
          BY <2>4, <4>1 DEF WaitsFor
        <4>3. Goes2(v)
          BY <2>3, <4>1
        <4>4. QED
          BY <4>2, <4>3
      <3>3. QED
        BY <3>1, <3>2
    <2>5. CASE txn[w].stage \in OrderStages
      <3>1. Goes2(w)
        BY <2>3, <2>5
      <3>2. QED
        BY <3>1
    <2>6. txn[w].stage \in OrderStages \union {"fetched"}
      BY DEF IInv, TypeOK, Transaction, OrderStages
    <2>7. QED
      BY <2>4, <2>5, <2>6
  <1>4. QED
    BY <1>1, <1>2, <1>3, Inductive, PTL DEF Spec

-----------------------------------------------------------------------------
\* Which payment of Toss an order follows.

\* Toss approved the payment and may have cancelled it since, or cancelled it
\* without.
Settled == {"DONE", "CANCELED"}

\* The payment was never approved, or it was cancelled.
Unapproved == {"ABORTED", "EXPIRED", "CANCELED"}

\* The payment is settled, and the order has no other that is approved.
Taken(k) ==
    /\ toss[k] \in Settled
    /\ \A j \in Keys \ {k} : KeyOrder[j] = KeyOrder[k] => toss[j] # "DONE"

\* The payment an order names is one of its own, in a state that explains the
\* status of the order.
OrderKeys ==
    \A o \in Orders :
        LET k == orders[o].paymentKey
            status == orders[o].status
        IN /\ status \in {"NONE", "PENDING"} => k = None
           /\ status \in {"COMPLETED", "CANCELLED", "FAILED"} => k \in Keys /\ KeyOrder[k] = o
           /\ status = "COMPLETED" => KeyAmount[k] = Amount[o] /\ Taken(k)
           /\ status = "CANCELLED" => toss[k] = "CANCELED"
           /\ status = "FAILED" => toss[k] \in Unapproved

\* Toss approves at most one payment of an order.
OnePayment == \A k \in Keys : toss[k] = "DONE" => Taken(k)

\* What a handler learnt of its payment before it took the order lock, or
\* while it held it, is still true or has been followed by a cancellation.
Known(w) ==
    LET k == txn[w].key
        o == txn[w].order
        stage == txn[w].stage
    IN /\ stage \in {"fetched", "charging", "refunding"} =>
              /\ KeyOrder[k] = o
              /\ txn[w].status = "DONE" => Taken(k)
              /\ txn[w].status = "CANCELED" => toss[k] = "CANCELED"
              /\ txn[w].status \in {"ABORTED", "EXPIRED"} => toss[k] \in Unapproved
       /\ stage \in {"approved", "charging"} =>
              KeyOrder[k] = o /\ KeyAmount[k] = Amount[o] /\ Taken(k)
       /\ stage \in {"cancelChecked", "cancelling", "cancelled", "refunding"} =>
              orders[o].paymentKey = k
       /\ stage \in {"cancelled", "refunding"} => toss[k] = "CANCELED"

\* A late confirm request was sent for an order.
LateOrders == \A k \in late : orders[KeyOrder[k]].status # "NONE"

PaymentInv ==
    /\ OrderKeys
    /\ OnePayment
    /\ \A w \in Workers : Known(w)
    /\ LateOrders
    /\ ApprovedPaymentAccounted

-----------------------------------------------------------------------------
\* The ways an order can change, with the state of the payment it then names.
OrderMove(o, status, key) ==
    /\ orders' = [orders EXCEPT ![o] = [status |-> status, paymentKey |-> key]]
    /\ UNCHANGED <<toss, late>>
    /\ \A v \in Workers : txn'[v].stage # "idle" =>
          /\ txn'[v] = txn[v]
          /\ txn[v].stage \in OrderStages => txn[v].order # o
    /\ \/ orders[o].status = "NONE" /\ status = "PENDING" /\ key = None
       \/ /\ key \in Keys /\ KeyOrder[key] = o
          /\ \/ /\ orders[o].status = "PENDING" /\ status = "COMPLETED"
                /\ KeyAmount[key] = Amount[o] /\ Taken(key)
             \/ /\ orders[o].status = "PENDING" /\ status = "FAILED"
                /\ toss[key] \in Unapproved
             \/ /\ orders[o].status \in {"PENDING", "COMPLETED", "FAILED"}
                /\ status = "CANCELLED"
                /\ orders[o].paymentKey \in {None, key}
                /\ toss[key] = "CANCELED"

\* The ways Toss can change a payment.
TossMove(k, status) ==
    /\ toss' = [toss EXCEPT ![k] = status]
    /\ UNCHANGED orders
    /\ \/ toss[k] = "IN_PROGRESS" /\ status \in {"ABORTED", "EXPIRED"}
       \/ toss[k] \in {"DONE", "ABORTED", "EXPIRED"} /\ status = "CANCELED"
       \/ /\ toss[k] = "IN_PROGRESS" /\ status = "DONE"
          /\ \A j \in Keys : KeyOrder[j] = KeyOrder[k] => toss[j] \notin Settled
          /\ orders[KeyOrder[k]].status # "NONE"

\* The end of a handler's transaction, seen by every handler.
LEMMA EndTxnLeaves ==
    ASSUME TypeOK, NEW w \in Workers, EndTxn(w), NEW v \in Workers
    PROVE  /\ txn'[v].stage # "idle" => v # w /\ txn'[v] = txn[v]
           /\ txn'[w].stage = "idle"
  BY DEF EndTxn, TypeOK, Idle

\* No other handler has locked the order a handler has locked.
LEMMA LockedAlone ==
    ASSUME IInv, NEW w \in Workers, txn[w].stage \in OrderStages,
           NEW v \in Workers \ {w}, txn[v].stage \in OrderStages
    PROVE  txn[v].order # txn[w].order
  BY DEF IInv, OrderLocks

\* A commit of a handler that holds the order lock.
LEMMA CommitMoves ==
    ASSUME IInv, PaymentInv, NEW w \in Workers,
           ConfirmCommit(w) \/ CancelCommit(w) \/ WebhookCharge(w) \/ WebhookRefund(w)
    PROVE  \E o \in Orders, status \in OrderStatus, key \in Keys \union {None} :
              OrderMove(o, status, key)
  <1> DEFINE o == txn[w].order
             k == txn[w].key
  <1>1. /\ txn[w].stage \in {"approved", "cancelled", "charging", "refunding"}
        /\ EndTxn(w) /\ UNCHANGED <<toss, late>>
    BY DEF ConfirmCommit, CancelCommit, WebhookCharge, WebhookRefund
  <1>2. o \in Orders /\ k \in Keys
    BY <1>1, BusyTypes DEF IInv
  <1>3. \A v \in Workers : txn'[v].stage # "idle" =>
          /\ txn'[v] = txn[v]
          /\ txn[v].stage \in OrderStages => txn[v].order # o
    BY <1>1, EndTxnLeaves, LockedAlone DEF IInv, OrderStages, Stages, ProductStages
  <1>4. CASE ConfirmCommit(w) \/ WebhookCharge(w)
    <2>1. orders[o].status = "PENDING"
      BY <1>1, <1>4 DEF ConfirmCommit, WebhookCharge, IInv, OrderChecked
    <2>2. KeyOrder[k] = o /\ KeyAmount[k] = Amount[o] /\ Taken(k)
      BY <1>1, <1>4 DEF ConfirmCommit, WebhookCharge, PaymentInv, Known
    <2>3. OrderMove(o, "COMPLETED", k)
      BY <1>1, <1>2, <1>3, <1>4, <2>1, <2>2
         DEF ConfirmCommit, WebhookCharge, SetOrder, OrderMove
    <2>4. QED
      BY <1>2, <2>3 DEF OrderStatus
  <1>5. CASE CancelCommit(w) \/ WebhookRefund(w)
    <2>1. orders[o].status = "COMPLETED"
      BY <1>1, <1>5 DEF CancelCommit, WebhookRefund, IInv, OrderChecked
    <2>2. orders[o].paymentKey = k /\ toss[k] = "CANCELED"
      BY <1>1, <1>5 DEF CancelCommit, WebhookRefund, PaymentInv, Known
    <2>3. KeyOrder[k] = o
      BY <1>2, <2>1, <2>2 DEF PaymentInv, OrderKeys
    <2>4. OrderMove(o, "CANCELLED", k)
      BY <1>1, <1>2, <1>3, <1>5, <2>1, <2>2, <2>3
         DEF CancelCommit, WebhookRefund, SetOrder, OrderMove
    <2>5. QED
      BY <1>2, <2>4 DEF OrderStatus
  <1>6. QED
    BY <1>4, <1>5

\* A webhook that touches no wallet.
LEMMA UpdateOnlyMoves ==
    ASSUME IInv, PaymentInv, NEW w \in Workers, WebhookUpdateOnly(w)
    PROVE  \/ UNCHANGED <<orders, toss, late>>
           \/ \E o \in Orders, status \in OrderStatus, key \in Keys \union {None} :
                 OrderMove(o, status, key)
  <1> DEFINE o == txn[w].order
             k == txn[w].key
  <1>1. /\ txn[w].stage = "fetched"
        /\ EndTxn(w) /\ UNCHANGED <<toss, late>>
        /\ orders[o].paymentKey \in {None, k}
        /\ OrderFree(o)
    BY DEF WebhookUpdateOnly, WebhookApplies, WebhookHolds, Reconcilable
  <1>2. o \in Orders /\ k \in Keys
    BY <1>1, BusyTypes DEF IInv
  <1>3. \A v \in Workers : txn'[v].stage # "idle" =>
          /\ txn'[v] = txn[v]
          /\ txn[v].stage \in OrderStages => txn[v].order # o
    BY <1>1, EndTxnLeaves DEF IInv, OrderFree
  <1>4. /\ KeyOrder[k] = o
        /\ txn[w].status = "CANCELED" => toss[k] = "CANCELED"
        /\ txn[w].status \in {"ABORTED", "EXPIRED"} => toss[k] \in Unapproved
    BY <1>1 DEF PaymentInv, Known
  <1>5. orders[o].status \in Repairable(txn[w].status)
    BY DEF WebhookUpdateOnly, WebhookApplies
  <1>6. CASE txn[w].status = "DONE"
    <2>1. orders[o].status = "COMPLETED" /\ SetOrder(o, "COMPLETED", k)
      BY <1>6 DEF WebhookUpdateOnly
    <2>2. orders[o].paymentKey = k
      BY <1>1, <1>2, <2>1, OrderAssumption DEF PaymentInv, OrderKeys
    <2>3. orders' = orders
      BY <1>2, <2>1, <2>2 DEF SetOrder, IInv, TypeOK
    <2>4. QED
      BY <1>1, <2>3
  <1>7. CASE txn[w].status \in {"ABORTED", "EXPIRED"}
    <2>1. orders[o].status = "PENDING" /\ SetOrder(o, "FAILED", k)
      BY <1>5, <1>7 DEF WebhookUpdateOnly, Repairable
    <2>2. OrderMove(o, "FAILED", k)
      BY <1>1, <1>2, <1>3, <1>4, <1>7, <2>1 DEF SetOrder, OrderMove
    <2>3. QED
      BY <1>2, <2>2 DEF OrderStatus
  <1>8. CASE txn[w].status = "CANCELED"
    <2>1. orders[o].status \in {"PENDING", "FAILED"} /\ SetOrder(o, "CANCELLED", k)
      BY <1>5, <1>8 DEF WebhookUpdateOnly, Repairable
    <2>2. OrderMove(o, "CANCELLED", k)
      BY <1>1, <1>2, <1>3, <1>4, <1>8, <2>1 DEF SetOrder, OrderMove
    <2>3. QED
      BY <1>2, <2>2 DEF OrderStatus
  <1>9. QED
    BY <1>6, <1>7, <1>8 DEF WebhookUpdateOnly

Moves ==
    \/ \E o \in Orders, status \in OrderStatus, key \in Keys \union {None} :
          OrderMove(o, status, key)
    \/ \E k \in Keys, status \in TossStatus : TossMove(k, status)
    \/ UNCHANGED <<orders, toss>>

-----------------------------------------------------------------------------
\* What the moves keep.

\* Toss never takes back that a payment was settled, cancelled or lost, and
\* approves no other of its order then.
LEMMA TossMonotone ==
    ASSUME TypeOK, Moves, NEW k \in Keys
    PROVE  /\ Taken(k) => Taken(k)'
           /\ toss[k] = "CANCELED" => toss'[k] = "CANCELED"
           /\ toss[k] \in Unapproved => toss'[k] \in Unapproved
  <1>1. CASE toss' = toss
    BY <1>1 DEF Taken
  <1>2. ASSUME NEW j \in Keys, NEW status \in TossStatus, TossMove(j, status)
        PROVE  /\ Taken(k) => Taken(k)'
               /\ toss[k] = "CANCELED" => toss'[k] = "CANCELED"
               /\ toss[k] \in Unapproved => toss'[k] \in Unapproved
    <2>1. /\ toss'[j] = status
          /\ \A i \in Keys \ {j} : toss'[i] = toss[i]
      BY <1>2 DEF TossMove, TypeOK
    <2>2. /\ toss[j] = "DONE" => status = "CANCELED"
          /\ toss[j] # "CANCELED"
          /\ toss[j] \in {"ABORTED", "EXPIRED"} => status = "CANCELED"
          /\ status = "DONE" => \A i \in Keys : KeyOrder[i] = KeyOrder[j] => toss[i] \notin Settled
      BY <1>2 DEF TossMove
    <2>3. ASSUME Taken(k) PROVE Taken(k)'
      <3>1. toss'[k] \in Settled
        BY <2>1, <2>2, <2>3 DEF Taken, Settled
      <3>2. ASSUME NEW i \in Keys \ {k}, KeyOrder[i] = KeyOrder[k] PROVE toss'[i] # "DONE"
        BY <2>1, <2>2, <2>3, <3>2 DEF Taken
      <3>3. QED
        BY <3>1, <3>2 DEF Taken
    <2>4. QED
      BY <2>1, <2>2, <2>3 DEF Unapproved
  <1>3. QED
    BY <1>1, <1>2 DEF Moves, OrderMove

\* A handler that did not move still knows what it knew.
LEMMA KnownStays ==
    ASSUME IInv, PaymentInv, Moves, NEW v \in Workers,
           txn'[v].stage = "idle" \/ txn'[v] = txn[v]
    PROVE  Known(v)'
  <1>1. CASE txn'[v].stage = "idle"
    BY <1>1 DEF Known
  <1>2. CASE txn'[v].stage = "cancelBegun"
    BY <1>2 DEF Known
  <1>3. CASE txn'[v].stage \notin {"idle", "cancelBegun"}
    <2>1. txn'[v] = txn[v] /\ Known(v)
      BY <1>3 DEF PaymentInv
    <2>2. PICK o \in Orders, k \in Keys : o = txn[v].order /\ k = txn[v].key
      BY <1>3, <2>1, BusyTypes DEF IInv
    <2>3. /\ Taken(k) => Taken(k)'
          /\ toss[k] = "CANCELED" => toss'[k] = "CANCELED"
          /\ toss[k] \in Unapproved => toss'[k] \in Unapproved
      BY TossMonotone DEF IInv
    <2>4. txn[v].stage \in OrderStages => orders'[o] = orders[o]
      BY <1>3, <2>1, <2>2 DEF Moves, OrderMove, TossMove, IInv, TypeOK
    <2>5. Taken(txn[v].key)' <=> Taken(k)'
      BY <2>1, <2>2 DEF Taken
    <2>6. QED
      BY <2>1, <2>2, <2>3, <2>4, <2>5 DEF Known, OrderStages, Stages
  <1>4. QED
    BY <1>1, <1>2, <1>3

\* The payments of the orders.
LEMMA OrderKeysStay ==
    ASSUME IInv, PaymentInv, Moves
    PROVE  OrderKeys'
  <1>1. CASE UNCHANGED <<orders, toss>>
    BY <1>1 DEF PaymentInv, OrderKeys, Taken
  <1>2. ASSUME NEW k \in Keys, NEW status \in TossStatus, TossMove(k, status)
        PROVE  OrderKeys'
    <2>1. \A j \in Keys : /\ Taken(j) => Taken(j)'
                          /\ toss[j] = "CANCELED" => toss'[j] = "CANCELED"
                          /\ toss[j] \in Unapproved => toss'[j] \in Unapproved
      BY TossMonotone DEF IInv
    <2>2. UNCHANGED orders
      BY <1>2 DEF TossMove
    <2>3. QED
      <3>1. ASSUME NEW o \in Orders, NEW named, NEW is,
                   named = orders[o].paymentKey, is = orders[o].status
            PROVE  /\ is \in {"NONE", "PENDING"} => named = None
                   /\ is \in {"COMPLETED", "CANCELLED", "FAILED"} =>
                          named \in Keys /\ KeyOrder[named] = o
                   /\ is = "COMPLETED" => KeyAmount[named] = Amount[o] /\ Taken(named)'
                   /\ is = "CANCELLED" => toss'[named] = "CANCELED"
                   /\ is = "FAILED" => toss'[named] \in Unapproved
        BY <2>1, <3>1 DEF PaymentInv, OrderKeys
      <3>2. QED
        BY <2>2, <3>1 DEF OrderKeys, Taken
  <1>3. ASSUME NEW o \in Orders, NEW status \in OrderStatus, NEW key \in Keys \union {None},
               OrderMove(o, status, key)
        PROVE  OrderKeys'
    <2>1. /\ orders'[o].status = status /\ orders'[o].paymentKey = key
          /\ \A p \in Orders \ {o} : orders'[p] = orders[p]
          /\ toss' = toss
      BY <1>3 DEF OrderMove, IInv, TypeOK
    <2>2. ASSUME NEW p \in Orders \ {o}
          PROVE  LET k == orders'[p].paymentKey
                     s == orders'[p].status
                 IN /\ s \in {"NONE", "PENDING"} => k = None
                    /\ s \in {"COMPLETED", "CANCELLED", "FAILED"} => k \in Keys /\ KeyOrder[k] = p
                    /\ s = "COMPLETED" => KeyAmount[k] = Amount[p] /\ Taken(k)
                    /\ s = "CANCELLED" => toss[k] = "CANCELED"
                    /\ s = "FAILED" => toss[k] \in Unapproved
      BY <2>1 DEF PaymentInv, OrderKeys
    <2>3. /\ status \in {"NONE", "PENDING"} => key = None
          /\ status \in {"COMPLETED", "CANCELLED", "FAILED"} => key \in Keys /\ KeyOrder[key] = o
          /\ status = "COMPLETED" => KeyAmount[key] = Amount[o] /\ Taken(key)
          /\ status = "CANCELLED" => toss[key] = "CANCELED"
          /\ status = "FAILED" => toss[key] \in Unapproved
      BY <1>3 DEF OrderMove
    <2>4. QED
      BY <2>1, <2>2, <2>3 DEF OrderKeys, Taken
  <1>4. QED
    BY <1>1, <1>2, <1>3 DEF Moves

\* Toss settles one payment of an order.
LEMMA OnePaymentStays ==
    ASSUME IInv, PaymentInv, Moves
    PROVE  OnePayment'
  <1>1. CASE toss' = toss
    BY <1>1 DEF PaymentInv, OnePayment, Taken
  <1>2. ASSUME NEW k \in Keys, NEW status \in TossStatus, TossMove(k, status),
               NEW j \in Keys, toss'[j] = "DONE"
        PROVE  Taken(j)'
    <2>1. \A i \in Keys \ {k} : toss'[i] = toss[i]
      BY <1>2 DEF TossMove, IInv, TypeOK
    <2>2. CASE j = k
      <3>1. \A i \in Keys : KeyOrder[i] = KeyOrder[j] => toss[i] \notin Settled
        BY <1>2, <2>2 DEF TossMove, IInv, TypeOK
      <3>2. QED
        BY <1>2, <2>1, <2>2, <3>1 DEF Taken, Settled
    <2>3. CASE j # k
      <3>1. Taken(j)
        BY <1>2, <2>1, <2>3 DEF PaymentInv, OnePayment
      <3>2. QED
        BY <3>1, TossMonotone DEF IInv
    <2>4. QED
      BY <2>2, <2>3
  <1>3. QED
    BY <1>1, <1>2 DEF Moves, OrderMove, OnePayment

\* Orders do not disappear under late requests.
LEMMA LateOrdersStay ==
    ASSUME IInv, PaymentInv, Moves, late' \subseteq Keys,
           \A k \in late' \ late : orders[KeyOrder[k]].status # "NONE"
    PROVE  LateOrders'
  <1>1. \A o \in Orders : orders[o].status # "NONE" => orders'[o].status # "NONE"
    BY DEF Moves, OrderMove, TossMove, IInv, TypeOK
  <1>2. \A k \in late' : orders[KeyOrder[k]].status # "NONE"
    BY DEF PaymentInv, LateOrders
  <1>3. QED
    BY <1>1, <1>2, OrderAssumption DEF LateOrders

\* The money of an approved payment.
LEMMA AccountedStays ==
    ASSUME IInv, PaymentInv, Moves
    PROVE  ApprovedPaymentAccounted'
  <1>1. CASE UNCHANGED <<orders, toss>>
    BY <1>1 DEF PaymentInv, ApprovedPaymentAccounted
  <1>2. ASSUME NEW k \in Keys, NEW status \in TossStatus, TossMove(k, status),
               NEW j \in Keys, toss'[j] = "DONE"
        PROVE  \/ orders[KeyOrder[j]].status = "COMPLETED" /\ orders[KeyOrder[j]].paymentKey = j
               \/ orders[KeyOrder[j]].status = "PENDING"
               \/ /\ orders[KeyOrder[j]].status \in {"FAILED", "CANCELLED"}
                  /\ \E i \in Keys \ {j} : /\ orders[KeyOrder[j]].paymentKey = i
                                           /\ KeyOrder[i] = KeyOrder[j]
                                           /\ toss'[i] \in {"ABORTED", "EXPIRED", "CANCELED"}
    <2> DEFINE o == KeyOrder[j]
               i == orders[o].paymentKey
    <2>1. o \in Orders
      BY OrderAssumption
    <2>2. /\ toss'[k] = status
          /\ \A l \in Keys \ {k} : toss'[l] = toss[l]
          /\ \A l \in Keys : toss[l] \in Unapproved => toss'[l] \in Unapproved
      BY <1>2, TossMonotone DEF TossMove, IInv, TypeOK
    <2>3. CASE j # k
      <3>1. toss[j] = "DONE"
        BY <1>2, <2>2, <2>3
      <3>2. \/ orders[o].status = "COMPLETED" /\ i = j
            \/ orders[o].status = "PENDING"
            \/ /\ orders[o].status \in {"FAILED", "CANCELLED"} /\ i \in Keys \ {j}
               /\ KeyOrder[i] = o /\ toss[i] \in Unapproved
        BY <3>1 DEF PaymentInv, ApprovedPaymentAccounted, Unapproved
      <3>3. QED
        BY <2>2, <3>2 DEF Unapproved
    <2>4. CASE j = k
      <3>1. /\ toss[j] = "IN_PROGRESS"
            /\ \A l \in Keys : KeyOrder[l] = o => toss[l] \notin Settled
            /\ orders[o].status # "NONE"
        BY <1>2, <2>2, <2>4 DEF TossMove
      <3>2. /\ orders[o].status \in {"COMPLETED", "CANCELLED", "FAILED"} =>
                  i \in Keys /\ KeyOrder[i] = o
            /\ orders[o].status = "COMPLETED" => toss[i] \in Settled
            /\ orders[o].status = "CANCELLED" => toss[i] \in Unapproved
            /\ orders[o].status = "FAILED" => toss[i] \in Unapproved
        BY <2>1 DEF PaymentInv, OrderKeys, Taken, Unapproved
      <3>3. orders[o].status \in {"PENDING", "FAILED", "CANCELLED"}
        BY <2>1, <3>1, <3>2 DEF IInv, TypeOK, OrderStatus
      <3>4. orders[o].status # "PENDING" => i \in Keys \ {j} /\ toss'[i] \in Unapproved
        BY <2>2, <3>1, <3>2, <3>3 DEF Unapproved
      <3>5. QED
        BY <3>2, <3>3, <3>4 DEF Unapproved
    <2>5. QED
      BY <2>3, <2>4
  <1>3. ASSUME NEW o \in Orders, NEW status \in OrderStatus, NEW key \in Keys \union {None},
               OrderMove(o, status, key), NEW j \in Keys, toss[j] = "DONE"
        PROVE  \/ orders'[KeyOrder[j]].status = "COMPLETED" /\ orders'[KeyOrder[j]].paymentKey = j
               \/ orders'[KeyOrder[j]].status = "PENDING"
               \/ /\ orders'[KeyOrder[j]].status \in {"FAILED", "CANCELLED"}
                  /\ \E i \in Keys \ {j} : /\ orders'[KeyOrder[j]].paymentKey = i
                                           /\ KeyOrder[i] = KeyOrder[j]
                                           /\ toss[i] \in {"ABORTED", "EXPIRED", "CANCELED"}
    <2>1. /\ orders'[o].status = status /\ orders'[o].paymentKey = key
          /\ \A p \in Orders \ {o} : orders'[p] = orders[p]
      BY <1>3 DEF OrderMove, IInv, TypeOK
    <2>2. KeyOrder[j] \in Orders
      BY OrderAssumption
    <2>3. CASE KeyOrder[j] # o
      BY <1>3, <2>1, <2>2, <2>3 DEF PaymentInv, ApprovedPaymentAccounted
    <2>4. CASE KeyOrder[j] = o
      <3>1. key \in Keys /\ KeyOrder[key] = o /\ Taken(key) => key = j
        BY <1>3, <2>4 DEF Taken
      <3>2. CASE status = "COMPLETED"
        BY <1>3, <2>1, <2>4, <3>1, <3>2 DEF OrderMove
      <3>3. CASE status \in {"FAILED", "CANCELLED"}
        <4>1. key \in Keys /\ KeyOrder[key] = o /\ toss[key] \in Unapproved
          BY <1>3, <3>3 DEF OrderMove, Unapproved
        <4>2. key # j
          BY <1>3, <4>1 DEF Unapproved
        <4>3. QED
          BY <2>1, <2>4, <3>3, <4>1, <4>2 DEF Unapproved
      <3>5. CASE status = "PENDING"
        BY <2>1, <2>4, <3>5
      <3>6. QED
        BY <1>3, <3>2, <3>3, <3>5 DEF OrderMove
    <2>5. QED
      BY <2>3, <2>4
  <1>4. \A o, status, key : OrderMove(o, status, key) => toss' = toss
    BY DEF OrderMove
  <1>5. \A k, status : TossMove(k, status) => orders' = orders
    BY DEF TossMove
  <1>6. QED
    BY <1>1, <1>2, <1>3, <1>4, <1>5 DEF Moves, ApprovedPaymentAccounted

\* All of it.
LEMMA MovesKeep ==
    ASSUME IInv, PaymentInv, TypeOK', Moves,
           \A k \in late' \ late : orders[KeyOrder[k]].status # "NONE",
           \A v \in Workers : txn'[v].stage = "idle" \/ txn'[v] = txn[v] \/ Known(v)'
    PROVE  PaymentInv'
  <1>1. late' \subseteq Keys
    BY DEF TypeOK
  <1>2. \A v \in Workers : Known(v)'
    BY KnownStays
  <1>3. QED
    BY <1>1, <1>2, OrderKeysStay, OnePaymentStays, LateOrdersStay, AccountedStays DEF PaymentInv

-----------------------------------------------------------------------------
\* Every step is such a move, and a handler knows what it has just learnt.

\* A handler that begins.
LEMMA BeginPayments ==
    ASSUME IInv, PaymentInv, TypeOK', NEW w \in Workers, Begin(w)
    PROVE  PaymentInv' /\ Moves
  <1>1. UNCHANGED <<orders, toss, late>>
    BY DEF Begin, ConfirmBegin, CancelBegin, WebhookFetch
  <1>2. \A v \in Workers \ {w} : txn'[v] = txn[v]
    BY DEF Begin, ConfirmBegin, CancelBegin, WebhookFetch, IInv, TypeOK
  <1>3. Known(w)'
    <2>1. CASE \E o \in Orders, k \in Keys : ConfirmBegin(w, o, k)
      <3>1. txn'[w].stage = "confirmBegun"
        BY <2>1 DEF ConfirmBegin, IInv, TypeOK, Idle
      <3>2. QED
        BY <3>1 DEF Known
    <2>2. CASE \E o \in Orders : CancelBegin(w, o)
      <3>1. txn'[w].stage = "cancelBegun"
        BY <2>2 DEF CancelBegin, IInv, TypeOK, Idle
      <3>2. QED
        BY <3>1 DEF Known
    <2>3. CASE \E k \in Keys : WebhookFetch(w, k)
      <3>1. PICK k \in Keys : WebhookFetch(w, k)
        BY <2>3
      <3>2. /\ txn'[w].stage = "fetched" /\ txn'[w].order = KeyOrder[k]
            /\ txn'[w].key = k /\ txn'[w].status = toss[k]
        BY <3>1 DEF WebhookFetch, IInv, TypeOK, Idle
      <3>3. QED
        <4>1. toss[k] = "DONE" => Taken(k)
          BY DEF PaymentInv, OnePayment
        <4>2. Taken(k)' <=> Taken(k)
          BY <1>1 DEF Taken
        <4>3. Taken(txn[w].key)' <=> Taken(k)'
          BY <3>2 DEF Taken
        <4>4. QED
          BY <1>1, <3>2, <4>1, <4>2, <4>3 DEF Known, Unapproved
    <2>4. QED
      BY <2>1, <2>2, <2>3 DEF Begin
  <1>4. Moves
    BY <1>1 DEF Moves
  <1>5. QED
    BY <1>1, <1>2, <1>3, <1>4, MovesKeep

\* A rollback, with whatever Toss did to the payment.
LEMMA RollbackPayments ==
    ASSUME IInv, PaymentInv, TypeOK', NEW w \in Workers, Rollback(w),
           \/ UNCHANGED toss
           \/ \E k \in Keys, status \in TossStatus : TossMove(k, status),
           \A k \in late' \ late : orders[KeyOrder[k]].status # "NONE"
    PROVE  PaymentInv' /\ Moves
  <1>1. \A v \in Workers : txn'[v].stage = "idle" \/ txn'[v] = txn[v]
    BY EndTxnLeaves DEF Rollback, IInv
  <1>2. Moves
    BY DEF Moves, Rollback
  <1>3. QED
    BY <1>1, <1>2, MovesKeep

\* A handler goes on inside its transaction: it locks the next row, Toss answers
\* it, or it looks up its ledger row.
LEMMA InsidePayments ==
    ASSUME IInv, PaymentInv, TypeOK', NEW w \in Workers,
           \/ ConfirmChecks(w) \/ TossApproves(w) \/ LockGap(w)
           \/ CancelChecks(w) \/ CancelLocksWallet(w) \/ TossCancels(w)
           \/ WebhookChargeBegin(w) \/ WebhookRefundBegin(w)
    PROVE  PaymentInv' /\ Moves
  <1> DEFINE o == txn[w].order
             k == txn[w].key
  <1>0. txn \in [Workers -> Transaction]
    BY DEF IInv, TypeOK
  <1>1. o \in Orders /\ (txn[w].stage # "cancelBegun" => k \in Keys)
    BY BusyTypes DEF ConfirmChecks, TossApproves, LockGap, CancelChecks, CancelLocksWallet,
                     TossCancels, WebhookChargeBegin, WebhookRefundBegin,
                     WebhookLookup, WebhookApplies, WebhookHolds, IInv
  <1>2. /\ \A v \in Workers \ {w} : txn'[v] = txn[v]
        /\ txn'[w].order = o /\ txn'[w].status = txn[w].status
        /\ txn[w].stage # "cancelBegun" => txn'[w].key = k
    BY <1>0 DEF ConfirmChecks, TossApproves, LockGap, CancelChecks, CancelLocksWallet,
                TossCancels, WebhookChargeBegin, WebhookRefundBegin, WebhookLookup, Transaction
  <1>3. UNCHANGED <<orders, late>>
    BY DEF ConfirmChecks, TossApproves, LockGap, CancelChecks, CancelLocksWallet, TossCancels,
           WebhookChargeBegin, WebhookRefundBegin, WebhookLookup
  <1>4. CASE TossApproves(w)
    <2>0. txn[w].stage = "confirming" /\ k \in Keys /\ txn'[w].key = k
      BY <1>1, <1>2, <1>4 DEF TossApproves
    <2>1. /\ toss[k] = "IN_PROGRESS" /\ toss' = [toss EXCEPT ![k] = "DONE"]
          /\ KeyOrder[k] = o /\ KeyAmount[k] = Amount[o]
          /\ \A j \in Keys : KeyOrder[j] = KeyOrder[k] => toss[j] \notin Settled
      BY <1>4 DEF TossApproves, Approvable, Settled, SetToss
    <2>2. orders[o].status # "NONE"
      BY <2>0 DEF IInv, OrderChecked
    <2>3. TossMove(k, "DONE")
      BY <1>3, <2>1, <2>2 DEF TossMove
    <2>4. Moves
      BY <2>0, <2>3 DEF Moves, TossStatus
    <2>5. txn'[w].stage = "approved" /\ toss'[k] = "DONE"
      BY <1>0, <1>4, <2>0, <2>1 DEF TossApproves, IInv, TypeOK, Transaction
    <2>6. Taken(txn[w].key)'
      <3>1. OnePayment'
        BY <2>4, OnePaymentStays
      <3>2. QED
        BY <2>0, <2>5, <3>1 DEF OnePayment
    <2>7. Known(w)'
      BY <1>2, <2>0, <2>1, <2>5, <2>6 DEF Known
    <2>8. QED
      BY <1>2, <1>3, <2>4, <2>7, MovesKeep
  <1>5. CASE TossCancels(w)
    <2>0. txn[w].stage = "cancelling" /\ k \in Keys /\ txn'[w].key = k
      BY <1>1, <1>2, <1>5 DEF TossCancels
    <2>1. toss[k] = "DONE" /\ toss' = [toss EXCEPT ![k] = "CANCELED"]
      BY <1>5 DEF TossCancels, SetToss
    <2>2. Moves
      BY <1>3, <2>0, <2>1 DEF Moves, TossMove, TossStatus
    <2>3. txn'[w].stage = "cancelled" /\ toss'[k] = "CANCELED"
      BY <1>0, <1>5, <2>0, <2>1 DEF TossCancels, IInv, TypeOK, Transaction
    <2>4. orders[o].paymentKey = k
      BY <2>0 DEF PaymentInv, Known
    <2>5. Known(w)'
      BY <1>2, <1>3, <2>0, <2>3, <2>4 DEF Known
    <2>6. QED
      BY <1>2, <1>3, <2>2, <2>5, MovesKeep
  <1>6. CASE WebhookChargeBegin(w) \/ WebhookRefundBegin(w)
    <2>1. /\ UNCHANGED toss
          /\ txn[w].stage = "fetched"
          /\ KeyAmount[k] = Amount[o] /\ orders[o].paymentKey \in {None, k}
      BY <1>6 DEF WebhookChargeBegin, WebhookRefundBegin, WebhookLookup, WebhookApplies,
                  WebhookHolds, Reconcilable
    <2>2. Moves
      BY <1>3, <2>1 DEF Moves
    <2>3. /\ KeyOrder[k] = o /\ k \in Keys /\ txn'[w].key = k
          /\ txn[w].status = "DONE" => Taken(k)
          /\ txn[w].status = "CANCELED" => toss[k] = "CANCELED"
          /\ txn[w].status \in {"ABORTED", "EXPIRED"} => toss[k] \in Unapproved
      BY <1>1, <1>2, <2>1 DEF PaymentInv, Known
    <2>8. Taken(txn[w].key)' <=> Taken(k)
      BY <2>1, <2>3 DEF Taken
    <2>4. ASSUME WebhookChargeBegin(w) PROVE Known(w)'
      <3>1. txn'[w].stage = "charging" /\ txn[w].status = "DONE"
        BY <1>0, <2>4 DEF WebhookChargeBegin, WebhookLookup, Transaction
      <3>2. QED
        BY <1>2, <2>1, <2>3, <2>8, <3>1 DEF Known
    <2>5. ASSUME WebhookRefundBegin(w) PROVE Known(w)'
      <3>1. /\ txn'[w].stage = "refunding" /\ txn[w].status = "CANCELED"
            /\ orders[o].status = "COMPLETED"
        BY <1>0, <2>5 DEF WebhookRefundBegin, WebhookLookup, Transaction
      <3>2. orders[o].paymentKey = k
        BY <1>1, <2>1, <3>1, OrderAssumption DEF PaymentInv, OrderKeys
      <3>3. QED
        BY <1>2, <1>3, <2>1, <2>3, <3>1, <3>2 DEF Known
    <2>6. Known(w)'
      BY <1>6, <2>4, <2>5
    <2>7. QED
      BY <1>2, <1>3, <2>2, <2>6, MovesKeep
  <1>7. CASE ConfirmChecks(w) \/ CancelChecks(w) \/ CancelLocksWallet(w) \/ LockGap(w)
    <2>1. UNCHANGED toss
      BY <1>7 DEF ConfirmChecks, CancelChecks, CancelLocksWallet, LockGap
    <2>2. Moves
      BY <1>3, <2>1 DEF Moves
    <2>3. ASSUME ConfirmChecks(w) PROVE Known(w)'
      <3>1. txn'[w].stage = "confirming"
        BY <1>0, <2>3 DEF ConfirmChecks, Transaction
      <3>2. QED
        BY <3>1 DEF Known
    <2>4. ASSUME CancelChecks(w) PROVE Known(w)'
      <3>1. txn'[w].stage = "cancelChecked" /\ txn'[w].key = orders[o].paymentKey
        BY <1>0, <2>4 DEF CancelChecks, Transaction
      <3>2. QED
        BY <1>2, <1>3, <3>1 DEF Known
    <2>5. ASSUME CancelLocksWallet(w) PROVE Known(w)'
      <3>1. /\ txn'[w].stage = "cancelling" /\ txn[w].stage = "cancelChecked"
            /\ txn'[w].key = k
        BY <1>0, <1>2, <2>5 DEF CancelLocksWallet, Transaction
      <3>2. orders[o].paymentKey = k
        BY <3>1 DEF PaymentInv, Known
      <3>3. QED
        BY <1>2, <1>3, <3>1, <3>2 DEF Known
    <2>6. ASSUME LockGap(w) PROVE Known(w)'
      <3>1. /\ txn'[w].stage = txn[w].stage /\ txn[w].stage \in {"approved", "charging"}
            /\ txn'[w].key = k
        BY <1>0, <1>2, <2>6 DEF LockGap, Transaction
      <3>2. Taken(txn[w].key)' <=> Taken(k)
        BY <2>1, <3>1 DEF Taken
      <3>3. QED
        BY <1>2, <1>3, <2>1, <3>1, <3>2 DEF PaymentInv, Known
    <2>7. Known(w)'
      BY <1>7, <2>3, <2>4, <2>5, <2>6
    <2>8. QED
      BY <1>2, <1>3, <2>2, <2>7, MovesKeep
  <1>8. QED
    BY <1>4, <1>5, <1>6, <1>7

\* A commit.
LEMMA CommitPayments ==
    ASSUME IInv, PaymentInv, TypeOK', NEW w \in Workers,
           \/ ConfirmCommit(w) \/ CancelCommit(w) \/ WebhookCharge(w) \/ WebhookRefund(w)
           \/ WebhookUpdateOnly(w)
    PROVE  PaymentInv' /\ Moves
  <1>1. EndTxn(w) /\ UNCHANGED late
    BY DEF ConfirmCommit, CancelCommit, WebhookCharge, WebhookRefund, WebhookUpdateOnly
  <1>2. \A v \in Workers : txn'[v].stage = "idle" \/ txn'[v] = txn[v]
    BY <1>1, EndTxnLeaves DEF IInv
  <1>3. Moves
    BY CommitMoves, UpdateOnlyMoves DEF Moves
  <1>4. QED
    BY <1>1, <1>2, <1>3, MovesKeep

\* Members, Toss and other services on their own.
LEMMA EnvironmentPayments ==
    ASSUME IInv, PaymentInv, TypeOK', Environment
    PROVE  PaymentInv' /\ Moves
  <1>1. /\ UNCHANGED txn
        /\ late' \subseteq late
    BY DEF Environment, Create, TossApprovesLate, TossExpires, TossCancelled, TossVoids,
           LookupRefused, GetWallet, MoveElsewhere, orderVars
  <1>2. Moves
    <2>1. ASSUME NEW o \in Orders, Create(o)
          PROVE  OrderMove(o, "PENDING", None)
      <3>1. \A v \in Workers : txn[v].stage \in OrderStages => txn[v].order # o
        BY <2>1 DEF Create, IInv, OrderChecked, OrderStages, Stages, ProductStages
      <3>2. QED
        BY <2>1, <3>1 DEF Create, SetOrder, OrderMove
    <2>2. ASSUME NEW k \in Keys, TossApprovesLate(k)
          PROVE  TossMove(k, "DONE")
      BY <2>2 DEF TossApprovesLate, Approvable, SetToss, TossMove, Settled, PaymentInv, LateOrders
    <2>3. ASSUME NEW k \in Keys, TossExpires(k)
          PROVE  TossMove(k, "EXPIRED")
      BY <2>3 DEF TossExpires, SetToss, TossMove
    <2>4. ASSUME NEW k \in Keys, TossCancelled(k) \/ TossVoids(k)
          PROVE  TossMove(k, "CANCELED")
      BY <2>4 DEF TossCancelled, TossVoids, SetToss, TossMove
    <2>5. ASSUME \/ \E k \in Keys : LookupRefused(k)
                 \/ \E m \in Members : GetWallet(m)
                 \/ \E e \in OtherMoves : MoveElsewhere(e)
          PROVE  UNCHANGED <<orders, toss>>
      BY <2>5 DEF LookupRefused, GetWallet, MoveElsewhere, orderVars
    <2>6. QED
      BY <2>1, <2>2, <2>3, <2>4, <2>5 DEF Environment, Moves, OrderStatus, TossStatus
  <1>3. QED
    BY <1>1, <1>2, MovesKeep

\* Every step of the specification.
LEMMA StepPayments ==
    ASSUME IInv, PaymentInv, TypeOK', [Next]_vars
    PROVE  PaymentInv' /\ Moves
  <1>1. ASSUME NEW w \in Workers, Advance(w)
        PROVE  PaymentInv' /\ Moves
    <2>1. CASE \/ ConfirmChecks(w) \/ TossApproves(w) \/ LockGap(w)
               \/ CancelChecks(w) \/ CancelLocksWallet(w) \/ TossCancels(w)
               \/ WebhookChargeBegin(w) \/ WebhookRefundBegin(w)
      BY <2>1, InsidePayments
    <2>2. CASE \/ ConfirmCommit(w) \/ CancelCommit(w) \/ WebhookCharge(w) \/ WebhookRefund(w)
               \/ WebhookUpdateOnly(w)
      BY <2>2, CommitPayments
    <2>3. CASE \/ ConfirmRefused(w) \/ TossRefuses(w) \/ CancelRefused(w)
               \/ TossRefusesCancel(w) \/ WebhookIgnored(w)
               \/ RefundShort(w) \/ ChargeSaveFails(w) \/ DeadlockVictim(w)
      <3>1. Rollback(w) /\ UNCHANGED <<toss, late>>
        BY <2>3 DEF ConfirmRefused, TossRefuses, CancelRefused, TossRefusesCancel,
                    WebhookIgnored, RefundShort, ChargeSaveFails, DeadlockVictim
      <3>2. QED
        BY <3>1, RollbackPayments
    <2>4. CASE TossDeclines(w)
      <3>1. /\ Rollback(w) /\ UNCHANGED late
            /\ toss[txn[w].key] = "IN_PROGRESS"
            /\ toss' = [toss EXCEPT ![txn[w].key] = "ABORTED"]
        BY <2>4 DEF TossDeclines, SetToss, Approvable
      <3>2. txn[w].key \in Keys
        BY <2>4, BusyTypes DEF TossDeclines, IInv
      <3>3. TossMove(txn[w].key, "ABORTED") /\ "ABORTED" \in TossStatus
        BY <3>1 DEF Rollback, TossMove, TossStatus
      <3>4. QED
        BY <3>1, <3>2, <3>3, RollbackPayments
    <2>5. QED
      BY <1>1, <2>1, <2>2, <2>3, <2>4 DEF Advance
  <1>2. ASSUME NEW w \in Workers, Abort(w)
        PROVE  PaymentInv' /\ Moves
    <2>1. Rollback(w) /\ UNCHANGED toss
      BY <1>2 DEF Abort
    <2>2. \A k \in late' \ late : /\ txn[w].stage = "confirming"
                                  /\ k = txn[w].key /\ KeyOrder[k] = txn[w].order
      BY <1>2 DEF Abort
    <2>3. \A k \in late' \ late : orders[KeyOrder[k]].status # "NONE"
      BY <2>2 DEF IInv, OrderChecked
    <2>4. QED
      BY <2>1, <2>3, RollbackPayments
  <1>3. CASE UNCHANGED vars
    <2>1. UNCHANGED <<orders, txn, toss, late>>
      BY <1>3 DEF vars, orderVars
    <2>2. Moves
      BY <2>1 DEF Moves
    <2>3. QED
      BY <2>1, <2>2, MovesKeep
  <1>4. QED
    BY <1>1, <1>2, <1>3, BeginPayments, EnvironmentPayments DEF Next

\* PaymentInv is inductive.
LEMMA PaymentInductive == Spec => []PaymentInv
  <1>1. Init => PaymentInv
    <2>1. SUFFICES ASSUME Init PROVE PaymentInv
      OBVIOUS
    <2>2. OrderKeys
      BY <2>1 DEF Init, OrderKeys
    <2>3. OnePayment /\ ApprovedPaymentAccounted
      BY <2>1 DEF Init, OnePayment, Settled, ApprovedPaymentAccounted
    <2>4. LateOrders
      BY <2>1 DEF Init, LateOrders
    <2>5. \A w \in Workers : Known(w)
      BY <2>1 DEF Init, Idle, Known
    <2>6. QED
      BY <2>2, <2>3, <2>4, <2>5 DEF PaymentInv
  <1>2. IInv /\ TypeOK' /\ PaymentInv /\ [Next]_vars => PaymentInv'
    BY StepPayments
  <1>3. QED
    BY <1>1, <1>2, TypeCorrect, Inductive, PTL DEF Spec

\* No payment of another order, of another price or without Toss's approval
\* completes an order, however stale the webhook that reports it.
THEOREM CompletedWerePaid == Spec => []CompletedOrdersWerePaid
  <1>1. PaymentInv => CompletedOrdersWerePaid
    BY DEF PaymentInv, OrderKeys, Taken, CompletedOrdersWerePaid, Settled
  <1>2. QED
    BY <1>1, PaymentInductive, PTL

\* No order is cancelled before its payment is cancelled at Toss.
THEOREM RefundsAreAtToss == Spec => []RefundsFollowToss
  <1>1. PaymentInv => RefundsFollowToss
    BY DEF PaymentInv, OrderKeys, RefundsFollowToss
  <1>2. QED
    BY <1>1, PaymentInductive, PTL

\* The money of an approved payment is on its completed order, on a pending
\* one, or on one that another payment of it failed or cancelled.
THEOREM ApprovedAccounted == Spec => []ApprovedPaymentAccounted
  <1>1. PaymentInv => ApprovedPaymentAccounted
    BY DEF PaymentInv
  <1>2. QED
    BY <1>1, PaymentInductive, PTL

\* Orders follow the documented status machine, and never change the payment
\* they have recorded.
THEOREM StatusMachine == Spec => OrderStatusMachine
  <1> DEFINE Step ==
        \A o \in Orders :
          LET before == orders[o].status
              after == orders'[o].status
          IN /\ after # before =>
                    <<before, after>> \in
                        {<<"NONE", "PENDING">>, <<"PENDING", "COMPLETED">>,
                         <<"PENDING", "FAILED">>, <<"PENDING", "CANCELLED">>,
                         <<"COMPLETED", "CANCELLED">>, <<"FAILED", "CANCELLED">>}
             /\ orders[o].paymentKey # None =>
                    orders'[o].paymentKey = orders[o].paymentKey
  <1>1. IInv /\ TypeOK' /\ PaymentInv /\ [Next]_vars => Step
    <2>1. SUFFICES ASSUME IInv, TypeOK', PaymentInv, [Next]_vars PROVE Step
      OBVIOUS
    <2>2. Moves
      BY <2>1, StepPayments
    <2>3. CASE UNCHANGED orders
      BY <2>3
    <2>4. ASSUME NEW o \in Orders, NEW status \in OrderStatus, NEW key \in Keys \union {None},
                 OrderMove(o, status, key)
          PROVE  Step
      <3>1. /\ orders'[o].status = status /\ orders'[o].paymentKey = key
            /\ \A p \in Orders \ {o} : orders'[p] = orders[p]
        BY <2>1, <2>4 DEF OrderMove, IInv, TypeOK
      <3>2. <<orders[o].status, status>> \in
                        {<<"NONE", "PENDING">>, <<"PENDING", "COMPLETED">>,
                         <<"PENDING", "FAILED">>, <<"PENDING", "CANCELLED">>,
                         <<"COMPLETED", "CANCELLED">>, <<"FAILED", "CANCELLED">>}
        BY <2>4 DEF OrderMove
      <3>3. orders[o].paymentKey # None => key = orders[o].paymentKey
        <4>1. orders[o].status \in {"NONE", "PENDING"} => orders[o].paymentKey = None
          BY <2>1 DEF PaymentInv, OrderKeys
        <4>2. QED
          BY <2>4, <4>1 DEF OrderMove
      <3>4. QED
        BY <3>1, <3>2, <3>3
    <2>5. QED
      BY <2>2, <2>3, <2>4 DEF Moves, TossMove
  <1>2. QED
    BY <1>1, TypeCorrect, Inductive, PaymentInductive, PTL DEF Spec, OrderStatusMachine
=============================================================================
