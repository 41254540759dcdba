----------------------------- MODULE WalletStore -----------------------------
(***************************************************************************)
(* The two tables every money-moving service shares: wallet (one row per   *)
(* member, created lazily) and wallet_transaction (the ledger), with the   *)
(* way a database transaction of the services touches them:                *)
(*                                                                         *)
(*   findOne({ where: { memberId }, lock: pessimistic_write })             *)
(*   wallet.balance += coins;  walletRepository.save(wallet)               *)
(*   walletTransactionRepository.save(...)                                 *)
(*                                                                         *)
(* TypeORM's save() first reads the row with a plain SELECT and writes     *)
(* only the columns that differ from what it read.  The transactions run   *)
(* at REPEATABLE READ, MySQL's default, which no code of the repository    *)
(* overrides: a plain SELECT sees the snapshot taken by the first plain    *)
(* SELECT of the transaction, while FOR UPDATE sees the latest committed   *)
(* row.                                                                    *)
(***************************************************************************)
EXTENDS Integers

CONSTANTS
    Members,     \* rows of the member table
    Workers,     \* request handlers running concurrently, over all processes
    SourceIds,   \* ids a ledger row may name as its source
    NoWallet,    \* the member has no wallet row yet
    NoSnapshot,  \* the transaction has done no plain SELECT yet
    None         \* SQL NULL, an absent field

ASSUME NullAssumption ==
    /\ NoWallet \notin Int /\ NoSnapshot \notin Int
    /\ NoWallet # NoSnapshot
    /\ None \notin Workers

VARIABLES
    balance,     \* wallet.balance per member, or NoWallet
    walletLock,  \* the handler whose transaction holds the row lock over a step
    ledger,      \* the rows of wallet_transaction
    ledgerTotal  \* history: the sum of coin_amount over the rows of a member

storeVars == <<balance, walletLock, ledger, ledgerTotal>>

TxTypes == {"CHARGE", "REFUND", "USE", "EARN",
            "WITHDRAW_REQUEST", "WITHDRAW_CANCEL", "WITHDRAW_COMPLETE"}

SourceTypes == {"COIN_ORDER", "CHAT_PAYMENT", "WITHDRAW_REQUEST"}

\* A ledger row; every row the services write has status COMPLETED.
Entry == [member: Members, type: TxTypes, source: SourceTypes,
          id: SourceIds, coins: Int]

\* The columns of IDX_wallet_transaction_source_dedup.
DedupKey(e) == <<e.member, e.type, e.source, e.id>>

Posted(m, type, source, id) ==
    \E e \in ledger : DedupKey(e) = <<m, type, source, id>>

StoreTypeOK ==
    /\ balance \in [Members -> Int \union {NoWallet}]
    /\ walletLock \in [Members -> Workers \union {None}]
    /\ ledger \subseteq Entry
    /\ ledgerTotal \in [Members -> Int]

StoreInit ==
    /\ balance = [m \in Members |-> NoWallet]
    /\ walletLock = [m \in Members |-> None]
    /\ ledger = {}
    /\ ledgerTotal = [m \in Members |-> 0]

-----------------------------------------------------------------------------
Coins(m) == IF balance[m] = NoWallet THEN 0 ELSE balance[m]

WalletFree(m) == walletLock[m] = None

\* The balance a plain SELECT of the transaction returns.
Seen(m, snap) == IF snap # NoSnapshot THEN snap ELSE balance[m]

\* save() of a loaded wallet whose row its own SELECT does not see turns into
\* an INSERT of an existing primary key: the transaction fails.
SaveFails(m, snap) == balance[m] # NoWallet /\ Seen(m, snap) = NoWallet

\* save() with the new balance: an INSERT when there is no row, otherwise an
\* UPDATE unless the SELECT saw that very balance already.
SaveBalance(m, snap, new) ==
    /\ ~SaveFails(m, snap)
    /\ balance' = IF balance[m] # NoWallet /\ Seen(m, snap) = new
                  THEN balance
                  ELSE [balance EXCEPT ![m] = new]

\* INSERT of a ledger row, refused by the unique index when its key is taken.
InsertEntry(e) ==
    /\ ~Posted(e.member, e.type, e.source, e.id)
    /\ ledger' = ledger \union {e}
    /\ ledgerTotal' = [ledgerTotal EXCEPT ![e.member] = @ + e.coins]

\* Mutant: the wallet is read without FOR UPDATE.
PostFromSnapshot(e, snap) ==
    LET seen == Seen(e.member, snap) IN
    /\ SaveBalance(e.member, snap, (IF seen = NoWallet THEN 0 ELSE seen) + e.coins)
    /\ InsertEntry(e)

\* Balance change and ledger row, committed by one transaction.
Post(e, snap) ==
    /\ SaveBalance(e.member, snap, Coins(e.member) + e.coins)
    /\ InsertEntry(e)

\* getOrCreateWallet: read, then insert an empty wallet.  The unique index on
\* member_id lets only one of two racing inserts through.
OpenWallet(m) ==
    /\ balance[m] = NoWallet
    /\ WalletFree(m)
    /\ balance' = [balance EXCEPT ![m] = 0]
    /\ UNCHANGED <<walletLock, ledger, ledgerTotal>>
=============================================================================
