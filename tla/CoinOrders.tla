------------------------------ MODULE CoinOrders ------------------------------
(***************************************************************************)
(* Coin orders of the wallet service: creating an order, confirming it at  *)
(* Toss, cancelling it, and the Toss webhook that repairs what a lost      *)
(* answer or a crash left behind (wallet.service.ts).                      *)
(*                                                                         *)
(* A handler is a worker that runs one database transaction at a time.  A  *)
(* step of it ends where other handlers can get in between: before every   *)
(* row lock but the first (the order's, then its product's, then the       *)
(* wallet's), after Toss has processed the request, and at the commit.     *)
(* Everything between two such points happens under row locks and is one   *)
(* action.  Early returns and exceptions before the first row lock change  *)
(* nothing and have no action; those of a transaction that holds one do.   *)
(***************************************************************************)
EXTENDS WalletStore

CONSTANTS
    Orders,      \* coin_order rows that may come to exist
    Keys,        \* Toss payment keys
    Owner,       \* Owner[o]: memberId of the order
    Product,     \* Product[o]: coinProductId of the order
    CoinAmount,  \* CoinAmount[o]: coins of the product when ordered
    Amount,      \* Amount[o]: its price
    KeyOrder,    \* KeyOrder[k]: the order the payment was opened for
    KeyAmount,   \* KeyAmount[k]: the amount of the payment
    OtherMoves   \* ledger rows other services post for these members

ASSUME OrderAssumption ==
    /\ Orders \subseteq SourceIds
    /\ Owner \in [Orders -> Members]
    /\ CoinAmount \in [Orders -> Nat \ {0}]
    /\ DOMAIN Product = Orders
    /\ KeyOrder \in [Keys -> Orders]
    /\ None \notin Orders /\ None \notin Keys
    /\ OtherMoves \subseteq {e \in Entry : e.source # "COIN_ORDER"}

VARIABLES
    orders,  \* the coin_order table: status ("NONE": no row) and payment_key
    txn,     \* per worker: the handler it runs and its local variables
    toss,    \* Toss's status of each payment
    events,  \* whether Toss still has an event of the payment to deliver
    late     \* payments whose confirm request outlived the handler that sent it

orderVars == <<orders, txn, toss, events, late>>
vars == <<storeVars, orderVars>>

OrderStatus == {"NONE", "PENDING", "COMPLETED", "FAILED", "CANCELLED"}
TossStatus == {"IN_PROGRESS", "DONE", "CANCELED", "ABORTED", "EXPIRED"}

\* "due" until the service answers 200; "lost" when it did so without having
\* seen the payment.
Delivery == {"none", "due", "lost"}

Stages == {"idle",
           "confirmBegun",   \* order locked, the product row is next
           "confirming",     \* order and product locked, waiting for Toss to approve
           "approved",       \* Toss answered DONE, the wallet is next
           "cancelBegun",    \* order locked, the product row is next
           "cancelChecked",  \* order and product locked, the wallet is next
           "cancelling",     \* wallet locked too, waiting for Toss to cancel
           "cancelled",      \* Toss answered CANCELED
           "fetched",        \* webhook: the payment has been read from Toss
           "charging",       \* webhook: order locked, the CHARGE row looked up
           "refunding"}      \* webhook: order locked, the REFUND row looked up

\* snap: the wallet in the transaction's snapshot.  posted: the ledger row was
\* there.  gap: FOR UPDATE found no wallet and locked the gap in the index.
Idle == [stage |-> "idle", order |-> None, key |-> None, status |-> None,
         snap |-> NoSnapshot, posted |-> FALSE, gap |-> FALSE]

Transaction == [stage: Stages,
                order: Orders \union {None},
                key: Keys \union {None},
                status: TossStatus \union {None},
                snap: Int \union {NoWallet, NoSnapshot},
                posted: BOOLEAN,
                gap: BOOLEAN]

TypeOK ==
    /\ StoreTypeOK
    /\ orders \in [Orders -> [status: OrderStatus, paymentKey: Keys \union {None}]]
    /\ txn \in [Workers -> Transaction]
    /\ \A w \in Workers :
          /\ txn[w].stage # "idle" => txn[w].order # None
          /\ txn[w].stage \notin {"idle", "cancelBegun"} => txn[w].key # None
    /\ toss \in [Keys -> TossStatus]
    /\ events \in [Keys -> Delivery]
    /\ late \subseteq Keys

Init ==
    /\ StoreInit
    /\ orders = [o \in Orders |-> [status |-> "NONE", paymentKey |-> None]]
    /\ txn = [w \in Workers |-> Idle]
    /\ toss = [k \in Keys |-> "IN_PROGRESS"]
    /\ events = [k \in Keys |-> "none"]
    /\ late = {}

-----------------------------------------------------------------------------
\* Row locks.  Confirm and cancel read the order joined with its product, so
\* FOR UPDATE locks the order and then the product; the webhook locks the order
\* only.
ProductStages == {"confirming", "approved", "cancelChecked", "cancelling", "cancelled"}
OrderStages == Stages \ {"idle", "fetched"}

\* Mutant: the order is read without FOR UPDATE.
OrderFreeAlways(o) == TRUE

OrderFree(o) ==
    \A w \in Workers : txn[w].stage \in OrderStages => txn[w].order # o

ProductFree(o) ==
    \A w \in Workers :
        txn[w].stage \in ProductStages => Product[txn[w].order] # Product[o]

\* A gap lock conflicts with no other gap lock, only with the INSERT of a wallet.
Insertable(m) ==
    \A w \in Workers : txn[w].gap => Owner[txn[w].order] # m

\* Commit or rollback: the transaction's row locks go, the worker is free.
EndTxn(w) ==
    /\ txn' = [txn EXCEPT ![w] = Idle]
    /\ walletLock' = [m \in Members |->
                        IF walletLock[m] = w THEN None ELSE walletLock[m]]

\* Mutant: the catch block marks the order FAILED.
RollbackMarksFailed(w) ==
    /\ EndTxn(w)
    /\ orders' = [orders EXCEPT ![txn[w].order] =
                     IF @.status = "PENDING"
                     THEN [status |-> "FAILED", paymentKey |-> txn[w].key] ELSE @]
    /\ UNCHANGED <<balance, ledger, ledgerTotal>>

Rollback(w) ==
    /\ EndTxn(w)
    /\ UNCHANGED <<balance, ledger, ledgerTotal, orders>>

SetOrder(o, status, key) ==
    orders' = [orders EXCEPT ![o] = [status |-> status, paymentKey |-> key]]

OrderEntry(o, type) ==
    [member |-> Owner[o], type |-> type, source |-> "COIN_ORDER", id |-> o,
     coins |-> IF type = "CHARGE" THEN CoinAmount[o] ELSE -CoinAmount[o]]

HasTransaction(o, type) == Posted(Owner[o], type, "COIN_ORDER", o)

-----------------------------------------------------------------------------
\* createCoinOrder
Create(o) ==
    /\ orders[o].status = "NONE"
    /\ SetOrder(o, "PENDING", None)
    /\ UNCHANGED <<storeVars, txn, toss, events, late>>

\* Toss moves a payment and has an event of it to deliver.
SetToss(k, status) ==
    /\ toss' = [toss EXCEPT ![k] = status]
    /\ events' = [events EXCEPT ![k] = "due"]

\* confirmCoinOrder asks for the order joined with its product: the row lock of
\* the order comes first.
ConfirmBegin(w, o, k) ==
    /\ txn[w].stage = "idle"
    /\ orders[o].status # "NONE"
    /\ OrderFree(o)
    /\ txn' = [txn EXCEPT ![w] = [Idle EXCEPT !.stage = "confirmBegun",
                                              !.order = o, !.key = k]]
    /\ UNCHANGED <<storeVars, orders, toss, events, late>>

\* What the handler has to find before it asks Toss.
Confirmable(o, k) ==
    /\ orders[o].status = "PENDING"
    /\ \A p \in Orders \ {o} : orders[p].paymentKey # k

\* With the product row locked too, up to the Toss request.  The search for
\* another order with the key is the transaction's first plain SELECT.
ConfirmChecks(w) ==
    LET o == txn[w].order IN
    /\ txn[w].stage = "confirmBegun"
    /\ ProductFree(o)
    /\ Confirmable(o, txn[w].key)
    /\ txn' = [txn EXCEPT ![w].stage = "confirming", ![w].snap = balance[Owner[o]]]
    /\ UNCHANGED <<storeVars, orders, toss, events, late>>

\* The order is not pending (or this very payment completed it), or another
\* order has the key.
ConfirmRefused(w) ==
    /\ txn[w].stage = "confirmBegun"
    /\ ProductFree(txn[w].order)
    /\ ~Confirmable(txn[w].order, txn[w].key)
    /\ Rollback(w)
    /\ UNCHANGED <<toss, events, late>>

\* What Toss requires to approve payment k for order o.
Approvable(k, o) ==
    /\ toss[k] = "IN_PROGRESS"
    /\ KeyOrder[k] = o /\ KeyAmount[k] = Amount[o]
    /\ \A j \in Keys : KeyOrder[j] = o => toss[j] \notin {"DONE", "CANCELED"}

TossApproves(w) ==
    /\ txn[w].stage = "confirming"
    /\ Approvable(txn[w].key, txn[w].order)
    /\ SetToss(txn[w].key, "DONE")
    /\ txn' = [txn EXCEPT ![w].stage = "approved"]
    /\ UNCHANGED <<storeVars, orders, late>>

\* Toss answers 4xx: confirmPayment throws and the transaction rolls back.
TossRefuses(w) ==
    /\ txn[w].stage = "confirming"
    /\ ~Approvable(txn[w].key, txn[w].order)
    /\ Rollback(w)
    /\ UNCHANGED <<toss, events, late>>

\* The card company declines: Toss answers 4xx and the payment is ABORTED.
TossDeclines(w) ==
    /\ txn[w].stage = "confirming"
    /\ Approvable(txn[w].key, txn[w].order)
    /\ SetToss(txn[w].key, "ABORTED")
    /\ Rollback(w)
    /\ UNCHANGED late

\* The FOR UPDATE of a charge finds no wallet row.
LockGap(w) ==
    LET o == txn[w].order IN
    /\ \/ txn[w].stage = "approved"
       \/ txn[w].stage = "charging" /\ ~txn[w].posted
    /\ balance[Owner[o]] = NoWallet
    /\ ~txn[w].gap
    /\ txn' = [txn EXCEPT ![w].gap = TRUE]
    /\ UNCHANGED <<storeVars, orders, toss, events, late>>

\* The wallet a charge saves: a row nobody else has locked, or the one it
\* inserts into the gap it has locked and nobody else has.
WalletReady(w) ==
    LET m == Owner[txn[w].order] IN
    IF balance[m] = NoWallet
    THEN /\ txn[w].gap
         /\ \A v \in Workers \ {w} : txn[v].gap => Owner[txn[v].order] # m
    ELSE WalletFree(m)

ConfirmCommit(w) ==
    LET o == txn[w].order IN
    /\ txn[w].stage = "approved"
    /\ WalletReady(w)
    /\ Post(OrderEntry(o, "CHARGE"), txn[w].snap)
    /\ SetOrder(o, "COMPLETED", txn[w].key)
    /\ EndTxn(w)
    /\ UNCHANGED <<toss, events, late>>

-----------------------------------------------------------------------------
\* Mutant: the wallet is locked before the order and its product.
CancelBeginWalletFirst(w, o) ==
    /\ txn[w].stage = "idle"
    /\ orders[o].status # "NONE"
    /\ OrderFree(o) /\ WalletFree(Owner[o])
    /\ walletLock' = [walletLock EXCEPT ![Owner[o]] = w]
    /\ txn' = [txn EXCEPT ![w] = [Idle EXCEPT !.stage = "cancelBegun", !.order = o]]
    /\ UNCHANGED <<balance, ledger, ledgerTotal, orders, toss, events, late>>

\* cancelCoinOrder: the row lock of the order ...
CancelBegin(w, o) ==
    /\ txn[w].stage = "idle"
    /\ orders[o].status # "NONE"
    /\ OrderFree(o)
    /\ txn' = [txn EXCEPT ![w] = [Idle EXCEPT !.stage = "cancelBegun", !.order = o]]
    /\ UNCHANGED <<storeVars, orders, toss, events, late>>

Cancellable(o) == orders[o].status = "COMPLETED" /\ orders[o].paymentKey # None

\* ... the one of its product ...
CancelChecks(w) ==
    LET o == txn[w].order IN
    /\ txn[w].stage = "cancelBegun"
    /\ ProductFree(o)
    /\ Cancellable(o)
    /\ txn' = [txn EXCEPT ![w].stage = "cancelChecked",
                          ![w].key = orders[o].paymentKey]
    /\ UNCHANGED <<storeVars, orders, toss, events, late>>

CancelRefused(w) ==
    /\ txn[w].stage = "cancelBegun"
    /\ ProductFree(txn[w].order)
    /\ ~Cancellable(txn[w].order)
    /\ Rollback(w)
    /\ UNCHANGED <<toss, events, late>>

\* The coins of the order are no longer in the wallet.
Short(o) == balance[Owner[o]] = NoWallet \/ Coins(Owner[o]) < CoinAmount[o]

\* Mutant: the coins are taken back without Toss having cancelled.
CancelLocksWalletSkipsToss(w) ==
    LET m == Owner[txn[w].order] IN
    /\ txn[w].stage = "cancelChecked"
    /\ WalletFree(m) /\ ~Short(txn[w].order)
    /\ walletLock' = [walletLock EXCEPT ![m] = w]
    /\ txn' = [txn EXCEPT ![w].stage = "cancelled"]
    /\ UNCHANGED <<balance, ledger, ledgerTotal, orders, toss, events, late>>

\* ... and the one of the wallet, which it holds while it asks Toss.
CancelLocksWallet(w) ==
    LET m == Owner[txn[w].order] IN
    /\ txn[w].stage = "cancelChecked"
    /\ WalletFree(m) /\ ~Short(txn[w].order)
    /\ walletLock' = [walletLock EXCEPT ![m] = w]
    /\ txn' = [txn EXCEPT ![w].stage = "cancelling"]
    /\ UNCHANGED <<balance, ledger, ledgerTotal, orders, toss, events, late>>

TossCancels(w) ==
    /\ txn[w].stage = "cancelling"
    /\ toss[txn[w].key] = "DONE"
    /\ SetToss(txn[w].key, "CANCELED")
    /\ txn' = [txn EXCEPT ![w].stage = "cancelled"]
    /\ UNCHANGED <<storeVars, orders, late>>

\* The payment is cancelled already: cancelPayment throws on Toss's 4xx.
TossRefusesCancel(w) ==
    /\ txn[w].stage = "cancelling"
    /\ toss[txn[w].key] # "DONE"
    /\ Rollback(w)
    /\ UNCHANGED <<toss, events, late>>

CancelCommit(w) ==
    LET o == txn[w].order IN
    /\ txn[w].stage = "cancelled"
    /\ Post(OrderEntry(o, "REFUND"), NoSnapshot)
    /\ SetOrder(o, "CANCELLED", orders[o].paymentKey)
    /\ EndTxn(w)
    /\ UNCHANGED <<toss, events, late>>

-----------------------------------------------------------------------------
\* Mutant: the webhook believes the payload instead of asking Toss.
WebhookFetchTrustsPayload(w, k) ==
    /\ txn[w].stage = "idle"
    /\ orders[KeyOrder[k]].status # "NONE"
    /\ txn' = [txn EXCEPT ![w] = [Idle EXCEPT !.stage = "fetched", !.key = k,
                                              !.order = KeyOrder[k],
                                              !.status = "DONE"]]
    /\ UNCHANGED <<storeVars, orders, toss, events, late>>

\* handleTossWebhook: the payload only names a payment, whose state is read
\* from Toss before any row is locked, so it may be stale when it is used.
WebhookFetch(w, k) ==
    /\ txn[w].stage = "idle"
    /\ orders[KeyOrder[k]].status # "NONE"
    /\ txn' = [txn EXCEPT ![w] = [Idle EXCEPT !.stage = "fetched", !.key = k,
                                              !.order = KeyOrder[k],
                                              !.status = toss[k]]]
    /\ UNCHANGED <<storeVars, orders, toss, events, late>>

\* getPayment throws a BadRequestException when Toss answers 4xx: the webhook
\* swallows it and answers 200, and Toss delivers the event no more.
LookupRefused(k) ==
    /\ events[k] = "due"
    /\ events' = [events EXCEPT ![k] = "lost"]
    /\ UNCHANGED <<storeVars, orders, txn, toss, late>>

\* The webhook answers 200: what it read of the payment needs no other event.
Answered(w) ==
    LET k == txn[w].key IN
    events' = [events EXCEPT ![k] =
                  IF @ = "due" /\ txn[w].status = toss[k] THEN "none" ELSE @]

\* reconcileTossPaymentStatus once it holds the order lock: the checks on the
\* amount and on the key recorded earlier.
Reconcilable(o, k) ==
    /\ KeyAmount[k] = Amount[o]
    /\ orders[o].paymentKey \in {None, k}

\* Mutant: the webhook never charges.
RepairableNoCharge(status) ==
    CASE status = "CANCELED" -> {"PENDING", "COMPLETED", "FAILED"}
      [] status \in {"ABORTED", "EXPIRED"} -> {"PENDING"}
      [] OTHER -> {}


\* The order statuses that the webhook changes, by the status it fetched.
Repairable(status) ==
    CASE status = "DONE" -> {"PENDING", "COMPLETED"}
      [] status = "CANCELED" -> {"PENDING", "COMPLETED", "FAILED"}
      [] status \in {"ABORTED", "EXPIRED"} -> {"PENDING"}
      [] OTHER -> {}

WebhookHolds(w) ==
    /\ txn[w].stage = "fetched"
    /\ OrderFree(txn[w].order)

WebhookApplies(w) ==
    /\ WebhookHolds(w)
    /\ Reconcilable(txn[w].order, txn[w].key)
    /\ orders[txn[w].order].status \in Repairable(txn[w].status)

\* Mutant: an event that cannot be applied yet is held, and Toss asked again.
WebhookIgnoredWaits(w) ==
    /\ WebhookHolds(w)
    /\ ~WebhookApplies(w)
    /\ txn' = [txn EXCEPT ![w].status = toss[txn[w].key]]
    /\ UNCHANGED <<storeVars, orders, toss, events, late>>

\* Any other event is answered and changes nothing.
WebhookIgnored(w) ==
    /\ WebhookHolds(w)
    /\ ~WebhookApplies(w)
    /\ Rollback(w)
    /\ Answered(w)
    /\ UNCHANGED <<toss, late>>

\* Mutant: a completed order is cancelled without taking its coins back.
WebhookUpdateOnlyKeepsCoins(w) ==
    /\ WebhookApplies(w)
    /\ txn[w].status = "CANCELED"
    /\ SetOrder(txn[w].order, "CANCELLED", txn[w].key)
    /\ EndTxn(w)
    /\ Answered(w)
    /\ UNCHANGED <<balance, ledger, ledgerTotal, toss, late>>

\* The statuses reached without touching the wallet: a completed order keeps
\* the key, an aborted or expired payment fails it, and an order that was
\* never charged is cancelled.
WebhookUpdateOnly(w) ==
    LET o == txn[w].order
        k == txn[w].key
        now == orders[o].status
        fetched == txn[w].status
    IN
    /\ WebhookApplies(w)
    /\ \/ fetched = "DONE" /\ now = "COMPLETED" /\ SetOrder(o, "COMPLETED", k)
       \/ fetched \in {"ABORTED", "EXPIRED"} /\ SetOrder(o, "FAILED", k)
       \/ fetched = "CANCELED" /\ now # "COMPLETED" /\ SetOrder(o, "CANCELLED", k)
    /\ EndTxn(w)
    /\ Answered(w)
    /\ UNCHANGED <<balance, ledger, ledgerTotal, toss, late>>

\* hasCoinOrderWalletTransaction, the first plain SELECT of the transaction.
WebhookLookup(w, stage, type) ==
    LET o == txn[w].order IN
    /\ WebhookApplies(w)
    /\ txn' = [txn EXCEPT ![w].stage = stage,
                          ![w].snap = balance[Owner[o]],
                          ![w].posted = HasTransaction(o, type)]
    /\ UNCHANGED <<storeVars, orders, toss, events, late>>

WebhookChargeBegin(w) ==
    /\ txn[w].status = "DONE" /\ orders[txn[w].order].status = "PENDING"
    /\ WebhookLookup(w, "charging", "CHARGE")

WebhookRefundBegin(w) ==
    /\ txn[w].status = "CANCELED" /\ orders[txn[w].order].status = "COMPLETED"
    /\ WebhookLookup(w, "refunding", "REFUND")

\* The wallet part, skipped when the ledger row was there already.
PostUnlessPosted(w, type) ==
    LET o == txn[w].order IN
    IF txn[w].posted
    THEN UNCHANGED <<balance, ledger, ledgerTotal>>
    ELSE WalletReady(w) /\ Post(OrderEntry(o, type), txn[w].snap)

\* applyTossWebhookCompletedOrder
WebhookCharge(w) ==
    /\ txn[w].stage = "charging"
    /\ PostUnlessPosted(w, "CHARGE")
    /\ SetOrder(txn[w].order, "COMPLETED", txn[w].key)
    /\ EndTxn(w)
    /\ Answered(w)
    /\ UNCHANGED <<toss, late>>

\* applyTossWebhookCancelledOrder
WebhookRefund(w) ==
    /\ txn[w].stage = "refunding"
    /\ txn[w].posted \/ ~Short(txn[w].order)
    /\ PostUnlessPosted(w, "REFUND")
    /\ SetOrder(txn[w].order, "CANCELLED", txn[w].key)
    /\ EndTxn(w)
    /\ Answered(w)
    /\ UNCHANGED <<toss, late>>

\* Cancel and webhook throw when the wallet cannot pay; Toss delivers an event
\* that is not answered again.
RefundShort(w) ==
    /\ \/ txn[w].stage = "cancelChecked"
       \/ txn[w].stage = "refunding" /\ ~txn[w].posted
    /\ WalletFree(Owner[txn[w].order]) /\ Short(txn[w].order)
    /\ Rollback(w)
    /\ UNCHANGED <<toss, events, late>>

-----------------------------------------------------------------------------
\* A charge whose wallet was created after the transaction's snapshot: save()
\* fails on the duplicate key and the handler rolls back.
ChargeSaveFails(w) ==
    LET m == Owner[txn[w].order] IN
    /\ txn[w].stage \in {"approved", "charging"}
    /\ WalletFree(m)
    /\ SaveFails(m, txn[w].snap)
    /\ Rollback(w)
    /\ UNCHANGED <<toss, events, late>>

\* Two handlers have locked the gap and insert: InnoDB rolls one of them back.
\* (A gap reaches to the wallets next to it, so the other may be of any member.)
DeadlockVictim(w) ==
    /\ txn[w].gap
    /\ \E v \in Workers \ {w} : txn[v].gap
    /\ Rollback(w)
    /\ UNCHANGED <<toss, events, late>>

\* Database error, lock timeout, lost answer or process crash in a handler.
\* A confirm request under way may still reach Toss.  (A cancel request may
\* too: TossCancelled covers it, which needs no handler.)
Abort(w) ==
    /\ txn[w].stage # "idle"
    /\ Rollback(w)
    /\ late' = IF txn[w].stage = "confirming" /\ KeyOrder[txn[w].key] = txn[w].order
               THEN late \union {txn[w].key}
               ELSE late
    /\ UNCHANGED <<toss, events>>

\* Toss on its own: a late approval, an unconfirmed payment that expires, a
\* cancellation from outside the service (the merchant console), also of a
\* payment that was never approved (FAILED to CANCELLED in payment-ledger.md).
TossApprovesLate(k) ==
    /\ k \in late
    /\ Approvable(k, KeyOrder[k])
    /\ SetToss(k, "DONE")
    /\ late' = late \ {k}
    /\ UNCHANGED <<storeVars, orders, txn>>

TossExpires(k) ==
    /\ toss[k] = "IN_PROGRESS"
    /\ orders[KeyOrder[k]].status # "NONE"
    /\ SetToss(k, "EXPIRED")
    /\ UNCHANGED <<storeVars, orders, txn, late>>

TossCancelled(k) ==
    /\ toss[k] = "DONE"
    /\ SetToss(k, "CANCELED")
    /\ UNCHANGED <<storeVars, orders, txn, late>>

TossVoids(k) ==
    /\ toss[k] \in {"ABORTED", "EXPIRED"}
    /\ SetToss(k, "CANCELED")
    /\ UNCHANGED <<storeVars, orders, txn, late>>

\* The wallet API outside of orders: the wallet is opened on first sight, and
\* other services move coins with their own ledger rows.
GetWallet(m) == Insertable(m) /\ OpenWallet(m) /\ UNCHANGED orderVars

MoveElsewhere(e) ==
    /\ balance[e.member] = NoWallet => Insertable(e.member)
    /\ WalletFree(e.member)
    /\ Coins(e.member) + e.coins >= 0
    /\ Post(e, NoSnapshot)
    /\ UNCHANGED <<walletLock, orderVars>>

-----------------------------------------------------------------------------
\* Steps that carry a handler on once it has begun.
Advance(w) ==
    \/ ConfirmChecks(w) \/ ConfirmRefused(w)
    \/ TossApproves(w) \/ TossRefuses(w) \/ TossDeclines(w)
    \/ LockGap(w) \/ ConfirmCommit(w)
    \/ CancelChecks(w) \/ CancelRefused(w) \/ CancelLocksWallet(w)
    \/ TossCancels(w) \/ TossRefusesCancel(w) \/ CancelCommit(w)
    \/ WebhookIgnored(w) \/ WebhookUpdateOnly(w)
    \/ WebhookChargeBegin(w) \/ WebhookCharge(w)
    \/ WebhookRefundBegin(w) \/ WebhookRefund(w)
    \/ RefundShort(w) \/ ChargeSaveFails(w) \/ DeadlockVictim(w)

Begin(w) ==
    \/ \E o \in Orders, k \in Keys : ConfirmBegin(w, o, k)
    \/ \E o \in Orders : CancelBegin(w, o)
    \/ \E k \in Keys : WebhookFetch(w, k)

Environment ==
    \/ \E o \in Orders : Create(o)
    \/ \E k \in Keys : \/ TossApprovesLate(k) \/ TossExpires(k)
                      \/ TossCancelled(k) \/ TossVoids(k)
                      \/ LookupRefused(k)
    \/ \E m \in Members : GetWallet(m)
    \/ \E e \in OtherMoves : MoveElsewhere(e)

Next ==
    \/ \E w \in Workers : Begin(w) \/ Advance(w) \/ Abort(w)
    \/ Environment

Spec == Init /\ [][Next]_vars

\* A started handler goes on (lock queues are first come first served, and the
\* HTTP client gives up on a silent Toss); an INSERT that waits for gap locks is
\* granted when they go; and Toss delivers an event again until it is answered.
Fairness ==
    /\ \A w \in Workers : SF_vars(Advance(w))
    /\ SF_vars(\E w \in Workers : ConfirmCommit(w) \/ WebhookCharge(w))
    /\ \A k \in Keys : SF_vars(\E w \in Workers : events[k] = "due" /\ WebhookFetch(w, k))

FairSpec == Spec /\ Fairness

-----------------------------------------------------------------------------
\* Safety.

\* An order is COMPLETED exactly while its CHARGE row stands without a REFUND
\* row, and both rows exist only for an order that was charged and cancelled:
\* no path (API, webhook, retry) charges or refunds an order twice or half.
OrderMatchesLedger ==
    \A o \in Orders :
        LET charged == HasTransaction(o, "CHARGE")
            refunded == HasTransaction(o, "REFUND")
        IN /\ orders[o].status = "COMPLETED" <=> charged /\ ~refunded
           /\ refunded => charged /\ orders[o].status = "CANCELLED"

\* Coins are credited only for a payment of this order, of its price, that
\* Toss approved; so no payment completes two orders.
CompletedOrdersWerePaid ==
    \A o \in Orders : orders[o].status = "COMPLETED" =>
        \E k \in Keys : /\ orders[o].paymentKey = k
                        /\ KeyOrder[k] = o /\ KeyAmount[k] = Amount[o]
                        /\ toss[k] \in {"DONE", "CANCELED"}

\* Coins are taken back only for a payment Toss has cancelled, whoever asked
\* for it, and a cancelled order names that payment.
RefundsFollowToss ==
    \A o \in Orders : orders[o].status = "CANCELLED" =>
        \E k \in Keys : /\ orders[o].paymentKey = k
                        /\ KeyOrder[k] = o
                        /\ toss[k] = "CANCELED"

\* Where the money of an approved payment can be: on its completed order, on an
\* order still PENDING that a webhook will complete, or on an order that the
\* event of another, unapproved payment failed or cancelled first.
ApprovedPaymentAccounted ==
    \A k \in Keys : toss[k] = "DONE" =>
        LET order == orders[KeyOrder[k]] IN
        \/ order.status = "COMPLETED" /\ order.paymentKey = k
        \/ order.status = "PENDING"
        \/ /\ order.status \in {"FAILED", "CANCELLED"}
           /\ \E j \in Keys \ {k} : /\ order.paymentKey = j
                                    /\ KeyOrder[j] = KeyOrder[k]
                                    /\ toss[j] \in {"ABORTED", "EXPIRED", "CANCELED"}

\* No interleaving of charges, refunds and spends overdraws a wallet, although
\* the webhook takes back coins the member may have spent meanwhile.
NoOverdraft == \A m \in Members : Coins(m) >= 0

\* The audit query of the wallet service finds no mismatch: the balance of a
\* wallet is the sum of its ledger rows.
LedgerMatchesBalance == \A m \in Members : Coins(m) = ledgerTotal[m]

\* The balances of the member in the snapshots of transactions under way.
Snapshots(m) ==
    {txn[w].snap : w \in {v \in Workers : /\ txn[v].stage # "idle"
                                          /\ Owner[txn[v].order] = m
                                          /\ txn[v].snap # NoSnapshot}}

\* The service implements the abstract ledger: charges and refunds may hide
\* behind a snapshot of their own or another handler's, and in no other way.
Accounts == INSTANCE Ledger WITH rows <- ledger,
                                 read <- [m \in Members |-> Snapshots(m)]

LedgerRefined == Accounts!Spec

\* Every change of a balance is explained by a ledger row of that amount that
\* the same commit adds.
BalanceChangesAreLedgered ==
    [][\A m \in Members : Coins(m)' # Coins(m) =>
            \E e \in ledger' \ ledger :
                e.member = m /\ Coins(m)' = Coins(m) + e.coins]_vars

\* The transitions of payment-ledger.md: a completed order can only be cancelled,
\* a cancelled one stays so, and the payment an order has recorded is never
\* replaced by another.
OrderStatusMachine ==
    [][\A o \in Orders :
          LET before == orders[o].status
              after == orders'[o].status
          IN /\ after # before =>
                    <<before, after>> \in
                        {<<"NONE", "PENDING">>, <<"PENDING", "COMPLETED">>,
                         <<"PENDING", "FAILED">>, <<"PENDING", "CANCELLED">>,
                         <<"COMPLETED", "CANCELLED">>, <<"FAILED", "CANCELLED">>}
             /\ orders[o].paymentKey # None =>
                    orders'[o].paymentKey = orders[o].paymentKey]_vars

-----------------------------------------------------------------------------
\* Liveness, for behaviours in which handlers stop being aborted at some time
\* (an early return may end a transaction just like an abort, and goes on).
AbortsEnd == <>[][\A w \in Workers : Abort(w) => Advance(w)]_vars

\* The commit with a row of the order is refused neither by the primary key of
\* the wallet nor by the unique index of the ledger.
CanPost(o, type, snap) == ~SaveFails(Owner[o], snap) /\ ~HasTransaction(o, type)

\* The row a handler has to lock next is free, and its commit succeeds or fails
\* for good; Toss answers in any case, and a gap is locked, filled or given up
\* at once.
CanGoOn(w) ==
    LET t == txn[w]
        o == t.order
        m == Owner[o]
    IN
    \/ t.stage \in {"confirming", "cancelling"}
    \/ t.stage = "cancelled" /\ CanPost(o, "REFUND", NoSnapshot)
    \/ t.stage = "fetched" /\ OrderFree(o)
    \/ t.stage \in {"confirmBegun", "cancelBegun"} /\ ProductFree(o)
    \/ t.stage = "cancelChecked" /\ WalletFree(m)
    \/ t.stage \in {"charging", "refunding"} /\ t.posted
    \/ /\ t.stage \in {"approved", "charging"}
       /\ \/ balance[m] = NoWallet /\ (t.gap => ~HasTransaction(o, "CHARGE"))
          \/ /\ balance[m] # NoWallet /\ WalletFree(m)
             /\ SaveFails(m, t.snap) \/ CanPost(o, "CHARGE", t.snap)
    \/ t.stage = "refunding" /\ WalletFree(m) /\ (Short(o) \/ CanPost(o, "REFUND", t.snap))

\* The handler v holds the order, the product or the wallet that w needs next.
WaitsFor(w, v) ==
    \/ /\ txn[w].stage = "fetched"
       /\ txn[v].stage \in OrderStages /\ txn[v].order = txn[w].order
    \/ /\ txn[w].stage \in {"confirmBegun", "cancelBegun"}
       /\ txn[v].stage \in ProductStages
       /\ Product[txn[v].order] = Product[txn[w].order]
    \/ /\ txn[w].stage \in {"approved", "cancelChecked", "charging", "refunding"}
       /\ walletLock[Owner[txn[w].order]] = v

\* Confirm, cancel and webhook take their locks in one order, the order, its
\* product and the wallet: whoever waits for a row waits for a handler that can
\* go on, or for one that waits for such a handler, and nobody in a circle; and
\* no commit is refused again and again.
NobodyIsStuck ==
    \A w \in Workers : txn[w].stage # "idle" =>
        \/ CanGoOn(w)
        \/ \E v \in Workers : WaitsFor(w, v) /\ CanGoOn(v)
        \/ \E u, v \in Workers : WaitsFor(w, u) /\ WaitsFor(u, v) /\ CanGoOn(v)
        \/ \E t, u, v \in Workers :
               WaitsFor(w, t) /\ WaitsFor(t, u) /\ WaitsFor(u, v) /\ CanGoOn(v)

\* No handler waits for ever on a row lock or on Toss.
HandlersFinish ==
    /\ [](\A w \in Workers : CanGoOn(w) <=> ENABLED Advance(w))
    /\ AbortsEnd =>
           \A w \in Workers : txn[w].stage # "idle" ~> txn[w].stage = "idle"

\* The payment is of the price of its order.
Fits(k) == KeyAmount[k] = Amount[KeyOrder[k]]

\* A payment Toss approved is credited, even when the confirming handler lost
\* the answer or its commit, unless Toss cancels it again or the service has
\* answered its event without looking at it.  (Every payment of the run has an
\* order of its own.)
ApprovedPaymentsSettle ==
    AbortsEnd =>
        \A k \in Keys :
            toss[k] = "DONE" /\ Fits(k) ~>
                \/ orders[KeyOrder[k]].status \in {"COMPLETED", "CANCELLED"}
                \/ events[k] = "lost"

=============================================================================
