----------------------------- MODULE Withdrawals -----------------------------
(***************************************************************************)
(* Withdraw requests (withdraw.service.ts): a member turns coins into      *)
(* cash, an administrator approves, rejects or completes the request.      *)
(* create() reads the member and the account with plain SELECTs, which     *)
(* opens the transaction's snapshot, before it locks the wallet; so it is  *)
(* two steps.  updateByAdmin() takes its row locks first and commits with  *)
(* nothing in between, so it is one.                                       *)
(***************************************************************************)
EXTENDS WalletStore

CONSTANTS
    Requests,      \* withdraw_request rows that may come to exist
    Requester,     \* Requester[r]: the member
    RequestCoins,  \* RequestCoins[r]: dto.coinAmount
    MinimumCoins, CoinUnit, CashPerCoin, FlatFee,  \* getWithdrawPolicy
    OtherMoves     \* ledger rows other services post for these members

ASSUME RequestAssumption ==
    /\ Requests \subseteq SourceIds
    /\ None \notin Requests
    /\ Requester \in [Requests -> Members]
    /\ RequestCoins \in [Requests -> Nat]
    /\ MinimumCoins \in Nat \ {0} /\ CoinUnit \in Nat \ {0}
    /\ CashPerCoin \in Nat /\ FlatFee \in Nat
    /\ OtherMoves \subseteq {e \in Entry : e.source # "WITHDRAW_REQUEST"}

VARIABLES
    requests,  \* status per request ("NONE": no row)
    txn        \* per worker: the request it is creating and its snapshot

requestVars == <<requests, txn>>
vars == <<storeVars, requestVars>>

RequestStatus == {"NONE", "REQUESTED", "APPROVED", "REJECTED", "COMPLETED"}
Final == {"REJECTED", "COMPLETED"}

Idle == [request |-> None, snap |-> NoSnapshot]

TypeOK ==
    /\ StoreTypeOK
    /\ requests \in [Requests -> RequestStatus]
    /\ txn \in [Workers -> [request: Requests \union {None},
                            snap: Int \union {NoWallet, NoSnapshot}]]

Init ==
    /\ StoreInit
    /\ requests = [r \in Requests |-> "NONE"]
    /\ txn = [w \in Workers |-> Idle]

-----------------------------------------------------------------------------
\* The amounts the policy lets through.
Allowed(coins) ==
    /\ coins >= MinimumCoins
    /\ coins % CoinUnit = 0
    /\ coins * CashPerCoin - FlatFee > 0

RequestEntry(r, type, coins) ==
    [member |-> Requester[r], type |-> type, source |-> "WITHDRAW_REQUEST",
     id |-> r, coins |-> coins]

HasTransaction(r, type) == Posted(Requester[r], type, "WITHDRAW_REQUEST", r)

SetRequest(r, status) == requests' = [requests EXCEPT ![r] = status]

EndTxn(w) == txn' = [txn EXCEPT ![w] = Idle]

\* create() up to the wallet lock.  That the account is active and verified is
\* taken for granted here.  Two workers never name the same new row.
RequestBegin(w, r) ==
    /\ txn[w].request = None
    /\ requests[r] = "NONE"
    /\ \A v \in Workers : txn[v].request # r
    /\ txn' = [txn EXCEPT ![w] = [request |-> r, snap |-> balance[Requester[r]]]]
    /\ UNCHANGED <<storeVars, requests>>

\* Mutant: the coins stay in the wallet until the request is completed.
RequestCommitKeepsCoins(w) ==
    LET r == txn[w].request IN
    /\ r # None
    /\ Coins(Requester[r]) >= RequestCoins[r]
    /\ InsertEntry(RequestEntry(r, "WITHDRAW_REQUEST", 0))
    /\ SetRequest(r, "REQUESTED")
    /\ EndTxn(w)
    /\ UNCHANGED <<balance, walletLock>>

\* ... from the wallet lock to the commit.
RequestCommit(w) ==
    LET r == txn[w].request IN
    /\ r # None
    /\ WalletFree(Requester[r])
    /\ balance[Requester[r]] # NoWallet
    /\ balance[Requester[r]] >= RequestCoins[r]
    /\ Allowed(RequestCoins[r])
    /\ Post(RequestEntry(r, "WITHDRAW_REQUEST", -RequestCoins[r]), txn[w].snap)
    /\ SetRequest(r, "REQUESTED")
    /\ EndTxn(w)
    /\ UNCHANGED walletLock

\* ... or a rollback: not enough coins, a refused amount, a database error, a
\* crash, or the failing save of a wallet newer than the snapshot.
RequestRollback(w) ==
    /\ txn[w].request # None
    /\ EndTxn(w)
    /\ UNCHANGED <<storeVars, requests>>

\* Mutant: final requests can be updated.
OpenAlways(r) == requests[r] # "NONE"

\* updateByAdmin, per status asked for.
Open(r) == requests[r] \notin {"NONE"} \union Final

\* Mutant: a rejection returns the coins without a ledger row.
RejectUnledgered(r) ==
    /\ Open(r)
    /\ WalletFree(Requester[r])
    /\ balance[Requester[r]] # NoWallet
    /\ SaveBalance(Requester[r], NoSnapshot, Coins(Requester[r]) + RequestCoins[r])
    /\ SetRequest(r, "REJECTED")
    /\ UNCHANGED <<walletLock, ledger, ledgerTotal, txn>>

Reject(r) ==
    /\ Open(r)
    /\ WalletFree(Requester[r])
    /\ balance[Requester[r]] # NoWallet
    /\ Post(RequestEntry(r, "WITHDRAW_CANCEL", RequestCoins[r]), NoSnapshot)
    /\ SetRequest(r, "REJECTED")
    /\ UNCHANGED <<walletLock, txn>>

Approve(r) ==
    /\ Open(r)
    /\ SetRequest(r, "APPROVED")
    /\ UNCHANGED <<storeVars, txn>>

Complete(r) ==
    /\ Open(r)
    /\ InsertEntry(RequestEntry(r, "WITHDRAW_COMPLETE", 0))
    /\ SetRequest(r, "COMPLETED")
    /\ UNCHANGED <<balance, walletLock, txn>>

GetWallet(m) == OpenWallet(m) /\ UNCHANGED requestVars

MoveElsewhere(e) ==
    /\ WalletFree(e.member)
    /\ Coins(e.member) + e.coins >= 0
    /\ Post(e, NoSnapshot)
    /\ UNCHANGED <<walletLock, requestVars>>

Next ==
    \/ \E w \in Workers : \/ \E r \in Requests : RequestBegin(w, r)
                          \/ RequestCommit(w)
                          \/ RequestRollback(w)
    \/ \E r \in Requests : Reject(r) \/ Approve(r) \/ Complete(r)
    \/ \E m \in Members : GetWallet(m)
    \/ \E e \in OtherMoves : MoveElsewhere(e)

Spec == Init /\ [][Next]_vars

-----------------------------------------------------------------------------
\* The ledger tells the status of a request: one WITHDRAW_REQUEST row for every
\* request, and exactly one of WITHDRAW_CANCEL (coins back) and
\* WITHDRAW_COMPLETE (coins gone) once it is final, never both.
RequestsMatchLedger ==
    \A r \in Requests :
        /\ HasTransaction(r, "WITHDRAW_REQUEST") <=> requests[r] # "NONE"
        /\ HasTransaction(r, "WITHDRAW_CANCEL") <=> requests[r] = "REJECTED"
        /\ HasTransaction(r, "WITHDRAW_COMPLETE") <=> requests[r] = "COMPLETED"

\* Concurrent requests cannot withdraw the same coins twice.
NoOverdraft == \A m \in Members : Coins(m) >= 0

\* The balances of the member in the snapshots of requests under way.
Snapshots(m) ==
    {txn[w].snap : w \in {v \in Workers : /\ txn[v].request # None
                                          /\ Requester[txn[v].request] = m}}

\* The service implements the abstract ledger: rows have sources of their own,
\* each moves its balance by its amount, and only the row of a request may hide
\* behind a snapshot taken before it locked the wallet.
Accounts == INSTANCE Ledger WITH rows <- ledger,
                                 read <- [m \in Members |-> Snapshots(m)]

LedgerRefined == Accounts!Spec

\* A final request is never reopened, and an accepted one never unrequested.
RequestStatusMachine ==
    [][\A r \in Requests :
          requests'[r] # requests[r] =>
             <<requests[r], requests'[r]>> \in
                {<<"NONE", "REQUESTED">>, <<"REQUESTED", "APPROVED">>}
                \union ({"REQUESTED", "APPROVED"} \X Final)]_vars

\* payment-ledger.md, withdraw ledger: a request takes its coins out of the
\* wallet before anything else happens to it.
CoinsLeaveWithRequest ==
    [][\A r \in Requests :
          requests[r] = "NONE" /\ requests'[r] # "NONE" =>
             Coins(Requester[r])' = Coins(Requester[r]) - RequestCoins[r]]_vars
=============================================================================
