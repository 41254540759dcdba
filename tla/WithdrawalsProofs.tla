-------------------------- MODULE WithdrawalsProofs --------------------------
(***************************************************************************)
(* Theorems about Withdrawals, for any members, requests and handlers; and *)
(* in the second half about WithdrawAccounts (instance Bank), for any      *)
(* members, numbers and bound on the rows: whatever overlaps for the       *)
(* verification of what is paid to, one handler at a time for the rest.    *)
(***************************************************************************)
EXTENDS PayoutAccounts, WalletStoreProofs, SequenceTheorems, FiniteSetTheorems,
        WellFoundedInduction

\* A member who has requested a withdrawal has a wallet.
RequestersHaveWallets ==
    \A r \in Requests : requests[r] # "NONE" => balance[Requester[r]] # NoWallet

IInv == TypeOK /\ RequestsMatchLedger /\ NoOverdraft /\ RequestersHaveWallets

-----------------------------------------------------------------------------
\* The rows of a request.
LEMMA RequestEntryType ==
    ASSUME NEW r \in Requests,
           NEW type \in {"WITHDRAW_REQUEST", "WITHDRAW_CANCEL", "WITHDRAW_COMPLETE"},
           NEW coins \in Int
    PROVE  RequestEntry(r, type, coins) \in Entry
  BY RequestAssumption DEF RequestEntry, Entry, TxTypes, SourceTypes

\* A row of one request changes what is posted for that request only.
LEMMA RequestEntryPosts ==
    ASSUME NEW r, NEW type, NEW coins, InsertEntry(RequestEntry(r, type, coins)),
           NEW q \in Requests, NEW other
    PROVE  HasTransaction(q, other)' <=>
              HasTransaction(q, other) \/ (q = r /\ other = type)
  <1>1. Requester' = Requester
    OBVIOUS
  <1>2. DedupKey(RequestEntry(r, type, coins)) = <<Requester[r], type, "WITHDRAW_REQUEST", r>>
    BY DEF DedupKey, RequestEntry
  <1>3. QED
    BY <1>2, InsertEntryPosts DEF HasTransaction

\* Other services post nothing for a request.
LEMMA OtherEntryPosts ==
    ASSUME NEW e \in OtherMoves, InsertEntry(e), NEW q \in Requests, NEW other
    PROVE  HasTransaction(q, other)' <=> HasTransaction(q, other)
  <1>1. e.source # "WITHDRAW_REQUEST"
    BY RequestAssumption
  <1>2. QED
    BY <1>1, InsertEntryPosts DEF HasTransaction, DedupKey

\* A step of a request that posts a row: create, reject, or complete.
Posts(r, type, coins, status) ==
    /\ InsertEntry(RequestEntry(r, type, coins))
    /\ SetRequest(r, status)
    /\ \/ /\ type = "WITHDRAW_REQUEST" /\ status = "REQUESTED"
          /\ coins = -RequestCoins[r]
          /\ balance[Requester[r]] # NoWallet
          /\ balance[Requester[r]] >= RequestCoins[r]
          /\ \E snap \in Snapshots(Requester[r]) \union {NoSnapshot} :
                Post(RequestEntry(r, type, coins), snap)
       \/ /\ type = "WITHDRAW_CANCEL" /\ status = "REJECTED"
          /\ Open(r)
          /\ coins = RequestCoins[r]
          /\ \E snap \in Snapshots(Requester[r]) \union {NoSnapshot} :
                Post(RequestEntry(r, type, coins), snap)
       \/ /\ type = "WITHDRAW_COMPLETE" /\ status = "COMPLETED"
          /\ Open(r)
          /\ coins = 0
          /\ UNCHANGED balance

\* What a step does to the requests, the wallets and the ledger.
QuietStep ==
    /\ UNCHANGED <<ledger, ledgerTotal>>
    /\ \/ UNCHANGED <<balance, requests>>
       \/ \E r \in Requests : Approve(r)
       \/ \E m \in Members : OpenWallet(m) /\ UNCHANGED requests

PostingStep ==
    \E r \in Requests,
       type \in {"WITHDRAW_REQUEST", "WITHDRAW_CANCEL", "WITHDRAW_COMPLETE"},
       coins \in Int, status \in RequestStatus :
       Posts(r, type, coins, status)

OtherStep == \E e \in OtherMoves : MoveElsewhere(e)

\* Every step is of one of the three kinds.
LEMMA StepKinds ==
    ASSUME TypeOK, [Next]_vars
    PROVE  QuietStep \/ PostingStep \/ OtherStep
  <1>1. ASSUME NEW w \in Workers, NEW r \in Requests, RequestBegin(w, r)
        PROVE  QuietStep
    BY <1>1 DEF RequestBegin, QuietStep, storeVars
  <1>2. ASSUME NEW w \in Workers, RequestCommit(w)
        PROVE  PostingStep
    <2> DEFINE r == txn[w].request
    <2>1. r \in Requests
      BY <1>2 DEF RequestCommit, TypeOK
    <2>2. RequestCoins[r] \in Nat /\ -RequestCoins[r] \in Int
      BY <2>1, RequestAssumption
    <2>5. txn[w].snap \in Snapshots(Requester[r])
      BY <1>2 DEF RequestCommit, Snapshots
    <2>3. Posts(r, "WITHDRAW_REQUEST", -RequestCoins[r], "REQUESTED")
      BY <1>2, <2>5 DEF RequestCommit, Posts, Post
    <2>4. QED
      BY <2>1, <2>2, <2>3 DEF PostingStep, RequestStatus
  <1>3. ASSUME NEW w \in Workers, RequestRollback(w)
        PROVE  QuietStep
    BY <1>3 DEF RequestRollback, QuietStep, storeVars
  <1>4. ASSUME NEW r \in Requests, Reject(r)
        PROVE  PostingStep
    <2>1. RequestCoins[r] \in Int
      BY RequestAssumption
    <2>2. Posts(r, "WITHDRAW_CANCEL", RequestCoins[r], "REJECTED")
      BY <1>4 DEF Reject, Posts, Post
    <2>3. QED
      BY <2>1, <2>2 DEF PostingStep, RequestStatus
  <1>5. ASSUME NEW r \in Requests, Approve(r)
        PROVE  QuietStep
    BY <1>5 DEF Approve, QuietStep, storeVars
  <1>6. ASSUME NEW r \in Requests, Complete(r)
        PROVE  PostingStep
    <2>1. Posts(r, "WITHDRAW_COMPLETE", 0, "COMPLETED")
      BY <1>6 DEF Complete, Posts
    <2>2. QED
      BY <2>1 DEF PostingStep, RequestStatus
  <1>7. ASSUME NEW m \in Members, GetWallet(m)
        PROVE  QuietStep
    BY <1>7 DEF GetWallet, OpenWallet, QuietStep, requestVars
  <1>8. CASE UNCHANGED vars
    BY <1>8 DEF vars, storeVars, requestVars, QuietStep
  <1>9. QED
    BY <1>1, <1>2, <1>3, <1>4, <1>5, <1>6, <1>7, <1>8 DEF Next, OtherStep

-----------------------------------------------------------------------------
\* The types hold in every next state.
LEMMA TypesKeep ==
    ASSUME TypeOK, [Next]_vars
    PROVE  TypeOK'
  <1>1. CASE \E w \in Workers, r \in Requests : RequestBegin(w, r)
    BY <1>1, RequestAssumption
       DEF RequestBegin, TypeOK, StoreTypeOK, storeVars
  <1>2. ASSUME NEW w \in Workers, RequestCommit(w)
        PROVE  TypeOK'
    <2>1. txn[w].request \in Requests
      BY <1>2 DEF RequestCommit, TypeOK
    <2>2. RequestEntry(txn[w].request, "WITHDRAW_REQUEST", -RequestCoins[txn[w].request]) \in Entry
      BY <2>1, RequestEntryType, RequestAssumption
    <2>3. StoreTypeOK'
      BY <1>2, <2>2, PostTypes DEF RequestCommit, TypeOK, StoreTypeOK
    <2>4. QED
      BY <1>2, <2>3 DEF RequestCommit, SetRequest, EndTxn, Idle, TypeOK, RequestStatus
  <1>3. CASE \E w \in Workers : RequestRollback(w)
    BY <1>3 DEF RequestRollback, EndTxn, Idle, TypeOK, StoreTypeOK, storeVars
  <1>4. ASSUME NEW r \in Requests, Reject(r)
        PROVE  TypeOK'
    <2>1. RequestEntry(r, "WITHDRAW_CANCEL", RequestCoins[r]) \in Entry
      BY RequestEntryType, RequestAssumption
    <2>2. StoreTypeOK'
      BY <1>4, <2>1, PostTypes DEF Reject, TypeOK, StoreTypeOK
    <2>3. QED
      BY <1>4, <2>2 DEF Reject, SetRequest, TypeOK, RequestStatus
  <1>5. CASE \E r \in Requests : Approve(r)
    BY <1>5 DEF Approve, SetRequest, TypeOK, StoreTypeOK, storeVars, RequestStatus
  <1>6. ASSUME NEW r \in Requests, Complete(r)
        PROVE  TypeOK'
    <2> DEFINE e == RequestEntry(r, "WITHDRAW_COMPLETE", 0)
    <2>1. e \in Entry /\ e.member \in Members /\ e.coins \in Int
      BY RequestEntryType DEF Entry
    <2> HIDE DEF e
    <2>2. StoreTypeOK'
      BY <1>6, <2>1 DEF Complete, InsertEntry, TypeOK, StoreTypeOK, e
    <2>3. QED
      BY <1>6, <2>2 DEF Complete, SetRequest, TypeOK, RequestStatus
  <1>7. CASE \E m \in Members : GetWallet(m)
    BY <1>7 DEF GetWallet, OpenWallet, requestVars, TypeOK, StoreTypeOK
  <1>8. ASSUME NEW e \in OtherMoves, MoveElsewhere(e)
        PROVE  TypeOK'
    <2>1. e \in Entry
      BY RequestAssumption
    <2>2. StoreTypeOK'
      BY <1>8, <2>1, PostTypes DEF MoveElsewhere, TypeOK, StoreTypeOK
    <2>3. QED
      BY <1>8, <2>2 DEF MoveElsewhere, requestVars, TypeOK
  <1>9. CASE UNCHANGED vars
    BY <1>9 DEF vars, storeVars, requestVars, TypeOK, StoreTypeOK
  <1>10. QED
    BY <1>1, <1>2, <1>3, <1>4, <1>5, <1>6, <1>7, <1>8, <1>9 DEF Next

\* A request that is created has no row, and its rows follow its status.  It is
\* the unique index that refuses a second creation, the status that refuses a
\* second decision.
LEMMA MatchKeeps ==
    ASSUME TypeOK, RequestsMatchLedger, [Next]_vars
    PROVE  RequestsMatchLedger'
  <1>1. CASE QuietStep
    <2>1. \A q \in Requests, type \in TxTypes :
              HasTransaction(q, type)' <=> HasTransaction(q, type)
      BY <1>1 DEF QuietStep, HasTransaction, Posted
    <2>2. ASSUME NEW q \in Requests
          PROVE  \/ requests'[q] = requests[q]
                 \/ Open(q) /\ requests'[q] = "APPROVED"
      BY <1>1 DEF QuietStep, Approve, SetRequest, TypeOK
    <2>3. QED
      BY <2>1, <2>2 DEF RequestsMatchLedger, TxTypes, Open, Final
  <1>2. CASE PostingStep
    <2>1. PICK r \in Requests,
               type \in {"WITHDRAW_REQUEST", "WITHDRAW_CANCEL", "WITHDRAW_COMPLETE"},
               coins \in Int, status \in RequestStatus :
               Posts(r, type, coins, status)
      BY <1>2 DEF PostingStep
    <2>2. InsertEntry(RequestEntry(r, type, coins)) /\ SetRequest(r, status)
      BY <2>1 DEF Posts
    <2>3. \A q \in Requests, other \in TxTypes :
              HasTransaction(q, other)' <=> HasTransaction(q, other) \/ (q = r /\ other = type)
      BY <2>2, RequestEntryPosts
    <2>4. ~HasTransaction(r, type)
      BY <2>2 DEF InsertEntry, RequestEntry, HasTransaction
    <2>5. \A q \in Requests : requests'[q] = IF q = r THEN status ELSE requests[q]
      BY <2>2 DEF SetRequest, TypeOK
    <2>6. \/ type = "WITHDRAW_REQUEST" /\ status = "REQUESTED"
          \/ type = "WITHDRAW_CANCEL" /\ status = "REJECTED" /\ Open(r)
          \/ type = "WITHDRAW_COMPLETE" /\ status = "COMPLETED" /\ Open(r)
      BY <2>1 DEF Posts
    <2>7. QED
      BY <2>3, <2>4, <2>5, <2>6 DEF RequestsMatchLedger, TxTypes, Open, Final
  <1>3. CASE OtherStep
    <2>1. PICK e \in OtherMoves : MoveElsewhere(e)
      BY <1>3 DEF OtherStep
    <2>2. \A q \in Requests, other \in TxTypes :
              HasTransaction(q, other)' <=> HasTransaction(q, other)
      BY <2>1, OtherEntryPosts DEF MoveElsewhere, Post
    <2>3. QED
      BY <2>1, <2>2 DEF MoveElsewhere, requestVars, RequestsMatchLedger, TxTypes
  <1>4. QED
    BY <1>1, <1>2, <1>3, StepKinds

\* What a posting step does to the wallet of the request's member.
LEMMA PostingBalance ==
    ASSUME TypeOK, NoOverdraft, NEW r \in Requests,
           NEW type \in {"WITHDRAW_REQUEST", "WITHDRAW_CANCEL", "WITHDRAW_COMPLETE"},
           NEW coins \in Int, NEW status, Posts(r, type, coins, status)
    PROVE  /\ Coins(Requester[r])' >= 0
           /\ \A m \in Members \ {Requester[r]} : balance'[m] = balance[m]
  <1> DEFINE e == RequestEntry(r, type, coins)
  <1>1. /\ e \in Entry /\ e.member = Requester[r] /\ e.coins = coins
        /\ Requester[r] \in Members /\ RequestCoins[r] \in Nat
    BY RequestEntryType, RequestAssumption DEF RequestEntry
  <1>2. Coins(Requester[r]) \in Int /\ Coins(Requester[r]) >= 0
    BY <1>1 DEF TypeOK, StoreTypeOK, NoOverdraft, Coins
  <1> HIDE DEF e
  <1>3. CASE type = "WITHDRAW_COMPLETE"
    BY <1>1, <1>2, <1>3 DEF Posts, Coins
  <1>4. CASE type # "WITHDRAW_COMPLETE"
    <2>1. PICK snap : Post(e, snap)
      BY <1>4 DEF Posts, e
    <2>2. /\ Coins(Requester[r])' \in {Coins(Requester[r]), Coins(Requester[r]) + coins}
          /\ \A m \in Members \ {Requester[r]} : balance'[m] = balance[m]
      BY <1>1, <2>1, PostBalance, NullAssumption DEF TypeOK
    <2>3. Coins(Requester[r]) + coins >= 0
      BY <1>1, <1>2, <1>4 DEF Posts, Coins
    <2>4. QED
      BY <1>2, <2>2, <2>3
  <1>5. QED
    BY <1>3, <1>4

\* No step overdraws a wallet.
LEMMA NoOverdraftKeeps ==
    ASSUME TypeOK, NoOverdraft, [Next]_vars
    PROVE  NoOverdraft'
  <1> SUFFICES ASSUME NEW m \in Members PROVE Coins(m)' >= 0
    BY DEF NoOverdraft
  <1>1. Coins(m) \in Int /\ Coins(m) >= 0
    BY DEF TypeOK, StoreTypeOK, NoOverdraft, Coins
  <1>2. CASE QuietStep
    BY <1>1, <1>2, NullAssumption
       DEF QuietStep, Approve, storeVars, OpenWallet, Coins, TypeOK, StoreTypeOK
  <1>3. CASE PostingStep
    BY <1>1, <1>3, PostingBalance DEF PostingStep, Coins
  <1>4. CASE OtherStep
    <2>1. PICK e \in OtherMoves : MoveElsewhere(e)
      BY <1>4 DEF OtherStep
    <2>2. e \in Entry /\ e.member \in Members /\ e.coins \in Int
      BY RequestAssumption DEF Entry
    <2>3. Post(e, NoSnapshot) /\ Coins(e.member) + e.coins >= 0
      BY <2>1 DEF MoveElsewhere
    <2>4. /\ Coins(e.member)' \in {Coins(e.member), Coins(e.member) + e.coins}
          /\ \A n \in Members \ {e.member} : balance'[n] = balance[n]
      BY <2>2, <2>3, PostBalance, NullAssumption DEF TypeOK
    <2>5. QED
      BY <1>1, <2>3, <2>4 DEF Coins
  <1>5. QED
    BY <1>2, <1>3, <1>4, StepKinds

\* Wallets stay.
LEMMA WalletsStay ==
    ASSUME TypeOK, [Next]_vars, NEW m \in Members, balance[m] # NoWallet
    PROVE  balance'[m] # NoWallet
  <1>1. ASSUME NEW e \in Entry, NEW snap, Post(e, snap)
        PROVE  balance'[m] # NoWallet
    <2>1. e.member \in Members /\ e.coins \in Int
      BY DEF Entry
    <2>2. Coins(e.member) + e.coins \in Int
      BY <2>1 DEF TypeOK, StoreTypeOK, Coins
    <2>3. QED
      BY <1>1, <2>1, <2>2, NullAssumption DEF Post, SaveBalance, TypeOK, StoreTypeOK
  <1>2. CASE QuietStep
    BY <1>2, NullAssumption
       DEF QuietStep, Approve, storeVars, OpenWallet, TypeOK, StoreTypeOK
  <1>3. CASE PostingStep
    BY <1>1, <1>3, RequestEntryType DEF PostingStep, Posts
  <1>4. CASE OtherStep
    BY <1>1, <1>4, RequestAssumption DEF OtherStep, MoveElsewhere
  <1>5. QED
    BY <1>2, <1>3, <1>4, StepKinds

\* Only a member with a wallet gets a request.
LEMMA RequestersKeep ==
    ASSUME TypeOK, RequestersHaveWallets, [Next]_vars
    PROVE  RequestersHaveWallets'
  <1> SUFFICES ASSUME NEW q \in Requests, requests'[q] # "NONE"
               PROVE  balance'[Requester[q]] # NoWallet
    BY DEF RequestersHaveWallets
  <1>1. Requester[q] \in Members
    BY RequestAssumption
  <1>2. CASE requests[q] # "NONE"
    BY <1>1, <1>2, WalletsStay DEF RequestersHaveWallets
  <1>3. CASE requests[q] = "NONE"
    <2>1. ~QuietStep
      BY <1>3 DEF QuietStep, Approve, SetRequest, TypeOK, Open
    <2>2. ~OtherStep
      BY <1>3 DEF OtherStep, MoveElsewhere, requestVars
    <2>3. PICK r \in Requests,
               type \in {"WITHDRAW_REQUEST", "WITHDRAW_CANCEL", "WITHDRAW_COMPLETE"},
               coins \in Int, status \in RequestStatus :
               Posts(r, type, coins, status)
      BY <2>1, <2>2, StepKinds DEF PostingStep
    <2>4. q = r
      BY <1>3, <2>3 DEF Posts, SetRequest, TypeOK
    <2>5. balance[Requester[q]] # NoWallet
      BY <1>3, <2>3, <2>4 DEF Posts, Open
    <2>6. QED
      BY <1>1, <2>5, WalletsStay
  <1>4. QED
    BY <1>2, <1>3

\* IInv is inductive.
LEMMA Inductive == Spec => []IInv
  <1>1. Init => IInv
    <2> SUFFICES ASSUME Init PROVE IInv
      OBVIOUS
    <2>1. TypeOK
      BY DEF Init, StoreInit, TypeOK, StoreTypeOK, RequestStatus, Idle
    <2>2. RequestsMatchLedger
      BY DEF Init, StoreInit, RequestsMatchLedger, HasTransaction, Posted
    <2>3. NoOverdraft
      <3>1. \A m \in Members : Coins(m) = 0
        BY DEF Init, StoreInit, Coins
      <3>2. 0 >= 0
        OBVIOUS
      <3>3. QED
        BY <3>1, <3>2, Zenon DEF NoOverdraft
    <2>4. RequestersHaveWallets
      BY DEF Init, RequestersHaveWallets
    <2>5. QED
      BY <2>1, <2>2, <2>3, <2>4 DEF IInv
  <1>2. IInv /\ [Next]_vars => IInv'
    BY TypesKeep, MatchKeeps, NoOverdraftKeeps, RequestersKeep DEF IInv
  <1>3. QED
    BY <1>1, <1>2, PTL DEF Spec

-----------------------------------------------------------------------------
\* Requests, transactions in progress and the store keep their types.
THEOREM TypeCorrect == Spec => []TypeOK
  <1>1. IInv => TypeOK
    BY DEF IInv
  <1>2. QED
    BY <1>1, Inductive, PTL

\* The ledger tells the status of every request: coins are given back at most
\* once, and never for a request that was paid out.
THEOREM RequestsAgreeWithLedger == Spec => []RequestsMatchLedger
  <1>1. IInv => RequestsMatchLedger
    BY DEF IInv
  <1>2. QED
    BY <1>1, Inductive, PTL

\* Concurrent requests cannot withdraw the same coins: the check after the wallet
\* lock decides, not the snapshot.
THEOREM NeverOverdrawn == Spec => []NoOverdraft
  <1>1. IInv => NoOverdraft
    BY DEF IInv
  <1>2. QED
    BY <1>1, Inductive, PTL

\* Decisions are final: nothing reopens a rejected or completed request.
THEOREM DecisionsAreFinal == Spec => RequestStatusMachine
  <1> DEFINE Moves ==
        \A r \in Requests :
          requests'[r] # requests[r] =>
             <<requests[r], requests'[r]>> \in
                {<<"NONE", "REQUESTED">>, <<"REQUESTED", "APPROVED">>}
                \union ({"REQUESTED", "APPROVED"} \X Final)
  <1>1. IInv /\ [Next]_vars => [Moves]_vars
    <2>1. SUFFICES ASSUME IInv, [Next]_vars, NEW q \in Requests, requests'[q] # requests[q]
                   PROVE  <<requests[q], requests'[q]>> \in
                             {<<"NONE", "REQUESTED">>, <<"REQUESTED", "APPROVED">>}
                             \union ({"REQUESTED", "APPROVED"} \X Final)
      OBVIOUS
    <2>2. requests[q] \in RequestStatus
      BY <2>1 DEF IInv, TypeOK
    <2>3. CASE QuietStep
      <3>1. Open(q) /\ requests'[q] = "APPROVED"
        BY <2>1, <2>3 DEF QuietStep, Approve, SetRequest, IInv, TypeOK
      <3>2. QED
        BY <2>1, <2>2, <3>1 DEF Open, RequestStatus, Final
    <2>4. CASE PostingStep
      <3>1. PICK r \in Requests,
                 type \in {"WITHDRAW_REQUEST", "WITHDRAW_CANCEL", "WITHDRAW_COMPLETE"},
                 coins \in Int, status \in RequestStatus :
                 Posts(r, type, coins, status)
        BY <2>4 DEF PostingStep
      <3>2. q = r /\ requests'[q] = status
        BY <2>1, <3>1 DEF Posts, SetRequest, IInv, TypeOK
      <3>3. CASE type = "WITHDRAW_REQUEST"
        <4>1. ~HasTransaction(q, "WITHDRAW_REQUEST") /\ status = "REQUESTED"
          BY <3>1, <3>2, <3>3 DEF Posts, InsertEntry, RequestEntry, HasTransaction
        <4>2. requests[q] = "NONE"
          BY <2>1, <4>1 DEF IInv, RequestsMatchLedger
        <4>3. QED
          BY <3>2, <4>1, <4>2
      <3>4. CASE type # "WITHDRAW_REQUEST"
        <4>1. Open(q) /\ status \in Final
          BY <3>1, <3>2, <3>4 DEF Posts, Final
        <4>2. QED
          BY <2>2, <3>2, <4>1 DEF Open, RequestStatus, Final
      <3>5. QED
        BY <3>3, <3>4
    <2>5. CASE OtherStep
      BY <2>1, <2>5 DEF OtherStep, MoveElsewhere, requestVars
    <2>6. QED
      BY <2>1, <2>3, <2>4, <2>5, StepKinds DEF IInv
  <1>2. QED
    BY <1>1, Inductive, PTL DEF Spec, RequestStatusMachine

\* Requests begin and end: their snapshots show what is there, or what they had
\* shown before.
LEMMA SnapshotsRead ==
    ASSUME IInv, [Next]_vars, NEW m \in Members
    PROVE  Snapshots(m)' \subseteq Snapshots(m) \union {balance[m]}
  <1> SUFFICES ASSUME NEW w \in Workers, txn'[w].request # None,
                      Requester[txn'[w].request] = m
               PROVE  txn'[w].snap \in Snapshots(m) \union {balance[m]}
    BY DEF Snapshots
  <1>1. txn \in [Workers -> [request: Requests \union {None},
                             snap: Int \union {NoWallet, NoSnapshot}]]
    BY DEF IInv, TypeOK
  <1>2. CASE txn'[w] = txn[w]
    BY <1>2 DEF Snapshots
  <1>3. ASSUME NEW v \in Workers, NEW r \in Requests, RequestBegin(v, r)
        PROVE  txn'[w] = txn[w] \/ txn'[w].snap = balance[m]
    BY <1>1, <1>3 DEF RequestBegin
  <1>4. ASSUME NEW v \in Workers, RequestCommit(v) \/ RequestRollback(v)
        PROVE  txn'[w] = txn[w]
    BY <1>1, <1>4 DEF RequestCommit, RequestRollback, EndTxn, Idle
  <1>5. CASE \/ \E r \in Requests : Reject(r) \/ Approve(r) \/ Complete(r)
             \/ \E n \in Members : GetWallet(n)
             \/ OtherStep \/ UNCHANGED vars
    BY <1>2, <1>5 DEF Reject, Approve, Complete, GetWallet, OtherStep, MoveElsewhere,
                      requestVars, vars
  <1>6. QED
    BY <1>2, <1>3, <1>4, <1>5 DEF Next, OtherStep

\* Withdraw requests implement the abstract ledger: every row moves its balance
\* by its amount, save that of a request behind whose snapshot it is hidden, and
\* no other (create and updateByAdmin under REPEATABLE READ).
THEOREM ImplementsLedger == Spec => LedgerRefined
  <1> DEFINE read == [m \in Members |-> Snapshots(m)]
  <1>1. Init => Accounts!Init
    <2>1. ASSUME Init, NEW m \in Members PROVE Snapshots(m) = {}
      BY <2>1 DEF Init, Idle, Snapshots
    <2>2. QED
      BY <2>1 DEF Init, StoreInit, Accounts!Init
  <1>2. IInv /\ [Next]_vars => [Accounts!Next]_<<balance, ledger, read>>
    <2>1. SUFFICES ASSUME IInv, [Next]_vars
                   PROVE  Accounts!Next
      OBVIOUS
    <2>2. /\ TypeOK /\ StoreTypeOK
          /\ \A m \in Members : Accounts!Held(m) = Coins(m) /\ Coins(m) \in Int /\ Coins(m) >= 0
      BY <2>1 DEF IInv, TypeOK, StoreTypeOK, NoOverdraft, Accounts!Held, Coins
    <2>9. Accounts!Reads
      BY <2>1, SnapshotsRead DEF Accounts!Reads
    <2>3. ASSUME NEW e \in Entry, InsertEntry(e), Coins(e.member) + e.coins >= 0,
                 DOMAIN balance' = Members,
                 \A m \in Members \ {e.member} : balance'[m] = balance[m],
                 \/ balance'[e.member] = Coins(e.member) + e.coins
                 \/ /\ balance[e.member] # NoWallet /\ balance' = balance
                    /\ Coins(e.member) + e.coins \in Snapshots(e.member)
          PROVE  Accounts!Next
      <3>1. e.member \in Members /\ e.coins \in Int
        BY DEF Entry
      <3>2. Accounts!Moves(e)
        BY <2>2, <2>3, <3>1 DEF Accounts!Moves
      <3>4. \A f \in ledger : Accounts!Source(f) # Accounts!Source(e)
        BY <2>3 DEF InsertEntry, Posted, DedupKey, Accounts!Source
      <3>5. ledger' = ledger \union {e} /\ ledger' \ ledger = {e}
        BY <2>3, <3>4 DEF InsertEntry
      <3>6. Accounts!Commit({e})
        BY <2>3, <3>2, <3>4, <3>5 DEF Accounts!Commit
      <3>7. QED
        BY <2>9, <3>5, <3>6 DEF Accounts!Next
    <2>4. ASSUME NEW e \in Entry, NEW snap \in Snapshots(e.member) \union {NoSnapshot},
                 Post(e, snap), Coins(e.member) + e.coins >= 0
          PROVE  Accounts!Next
      <3>1. \/ balance'[e.member] = Coins(e.member) + e.coins
            \/ /\ balance[e.member] # NoWallet /\ balance' = balance
               /\ snap # NoSnapshot /\ snap = Coins(e.member) + e.coins
        BY <2>2, <2>4, PostExact, NullAssumption
      <3>2. /\ InsertEntry(e) /\ DOMAIN balance' = Members
            /\ \A m \in Members \ {e.member} : balance'[m] = balance[m]
        BY <2>2, <2>4, PostBalance, NullAssumption DEF Post, SaveBalance, StoreTypeOK
      <3>3. QED
        BY <2>3, <2>4, <3>1, <3>2
    <2>5. CASE QuietStep
      BY <2>5, <2>9 DEF QuietStep, Approve, storeVars, OpenWallet, Accounts!Next, Accounts!Open
    <2>6. CASE PostingStep
      <3>1. PICK r \in Requests,
                 type \in {"WITHDRAW_REQUEST", "WITHDRAW_CANCEL", "WITHDRAW_COMPLETE"},
                 coins \in Int, status \in RequestStatus :
                 Posts(r, type, coins, status)
        BY <2>6 DEF PostingStep
      <3> DEFINE e == RequestEntry(r, type, coins)
      <3>2. /\ e \in Entry /\ e.member = Requester[r] /\ e.coins = coins
            /\ Requester[r] \in Members /\ RequestCoins[r] \in Nat
        BY RequestEntryType, RequestAssumption DEF RequestEntry
      <3>3. Coins(e.member) + e.coins >= 0
        BY <2>2, <3>1, <3>2 DEF Posts, Coins
      <3>4. CASE type = "WITHDRAW_COMPLETE"
        <4>1. InsertEntry(e) /\ UNCHANGED balance /\ e.coins = 0 /\ Open(r)
          BY <3>1, <3>2, <3>4 DEF Posts
        <4>2. balance[Requester[r]] # NoWallet
          BY <2>1, <4>1 DEF IInv, RequestersHaveWallets, Open
        <4>3. balance'[e.member] = Coins(e.member) + e.coins /\ DOMAIN balance' = Members
          BY <2>2, <3>2, <4>1, <4>2 DEF Coins, StoreTypeOK
        <4>4. QED
          BY <2>3, <3>2, <3>3, <4>1, <4>3
      <3>5. CASE type # "WITHDRAW_COMPLETE"
        <4>1. PICK snap \in Snapshots(Requester[r]) \union {NoSnapshot} : Post(e, snap)
          BY <3>1, <3>5 DEF Posts
        <4>2. QED
          BY <2>4, <3>2, <3>3, <4>1
      <3>6. QED
        BY <3>4, <3>5
    <2>7. CASE OtherStep
      BY <2>4, <2>7, RequestAssumption DEF OtherStep, MoveElsewhere
    <2>8. QED
      BY <2>1, <2>5, <2>6, <2>7, StepKinds DEF IInv
  <1>3. QED
    BY <1>1, <1>2, Inductive, PTL DEF Spec, LedgerRefined, Accounts!Spec

-----------------------------------------------------------------------------
\* The accounts that requests are paid to.

\* A handler whose entity was loaded as a row.
HoldsRow(h) ==
    \/ accountTxn[h].stage \in {"saving", "updating"}
    \/ accountTxn[h].stage = "resetting" /\ accountTxn[h].op = "setPrimary"

\* What a handler holds is an account, and a row where it will be written.
SameAccount(e, row) == e.member = row.member /\ e.number = row.number

BankTypeInv ==
    /\ Bank!TypeOK
    /\ \A h \in Handlers :
          LET t == accountTxn[h] IN
          /\ t.stage # "idle" => t.entity \in Bank!Account
          /\ HoldsRow(h) => t.id \in DOMAIN accounts /\ SameAccount(t.entity, accounts[t.id])
          /\ t.stage = "resetting" => t.op \in {"create", "setPrimary"}
          /\ t.stage = "inserting" => t.op = "create"

\* The mark of a verification is in the rows, and in the entities of handlers,
\* of verified accounts only: a new account comes without it, and nobody but
\* verifyByAdmin sets it.
EarnedMark(t) ==
    /\ t.op = "create" /\ t.stage # "idle" => ~t.entity.verified
    /\ t.stage \in {"resetting", "saving", "updating"} /\ t.entity.verified =>
          t.op = "verify" \/ t.id \in verified

MarksAreEarned ==
    /\ \A a \in DOMAIN accounts : accounts[a].verified => a \in verified
    /\ \A h \in Handlers : EarnedMark(accountTxn[h])

BankInv == BankTypeInv /\ MarksAreEarned /\ Bank!PayoutsAreVerified

\* What the one handler under way is about to write.

\* create: an account under a number that no active account of the member has;
\* the first one is the primary one, and a primary one comes after the reset.
NewAccount(t) ==
    LET e == t.entity IN
    /\ e.status = "ACTIVE"
    /\ \A a \in Bank!ActiveOf(e.member) : accounts[a].number.number # e.number.number
    /\ t.stage = "resetting" => e.isPrimary
    /\ t.stage = "inserting" /\ e.isPrimary => Bank!PrimaryOf(e.member) = {}
    /\ t.stage = "inserting" /\ ~e.isPrimary => Bank!ActiveOf(e.member) # {}

\* The others: the row as it is, but for the columns the handler changes.
ChangedRow(t) ==
    LET e == t.entity
        row == accounts[t.id] IN
    /\ t.id \in DOMAIN accounts
    /\ row.status = "ACTIVE"
    /\ t.stage = "updating" => t.columns = Bank!Changed(e, row)
    /\ \/ /\ e = [row EXCEPT !.isPrimary = TRUE]
          /\ t.stage # "resetting" => Bank!PrimaryOf(e.member) = {}
          /\ ~t.promote
       \/ /\ e = [row EXCEPT !.status = "INACTIVE", !.isPrimary = FALSE]
          /\ t.promote = row.isPrimary
          /\ t.stage # "resetting"
       \/ /\ e = [row EXCEPT !.verified = TRUE]
          /\ ~t.promote
          /\ t.stage # "resetting"

\* The member whose primary account the handler is about to name: it has none.
Naming(t, m) ==
    /\ t.stage # "idle" /\ t.entity.member = m
    /\ \/ t.stage = "promoting"
       \/ t.stage \in {"inserting", "saving", "updating"} /\ t.entity.isPrimary

OnePrimary ==
    \A a, b \in DOMAIN accounts :
        (accounts[a].isPrimary /\ accounts[b].isPrimary
          /\ accounts[a].member = accounts[b].member) => a = b

PrimaryComes ==
    ~interrupted =>
        \A m \in Holders :
            Bank!ActiveOf(m) # {} =>
                Bank!PrimaryOf(m) # {} \/ \E h \in Handlers : Naming(accountTxn[h], m)

HandlerOrderly(h) ==
    LET t == accountTxn[h] IN
    /\ t.stage \in {"resetting", "inserting"} /\ t.op = "create" => NewAccount(t)
    /\ HoldsRow(h) => ChangedRow(t)
    /\ t.stage = "promoting" => Bank!PrimaryOf(t.entity.member) = {}

OrderlyInv ==
    /\ OnePrimary
    /\ Bank!PrimaryIsActive
    /\ Bank!NoDuplicateNumber
    /\ PrimaryComes
    /\ \A h \in Handlers : HandlerOrderly(h)
-----------------------------------------------------------------------------
\* Functions on 1..n are the sequences of length n.
LEMMA SequenceOfRows ==
    ASSUME NEW S, NEW n \in Nat, NEW f \in [1..n -> S]
    PROVE  f \in Seq(S) /\ Len(f) = n /\ DOMAIN f = 1..n
  <1>1. f \in Seq(S)
    BY SeqDef
  <1>2. QED
    BY <1>1, LenProperties

\* A handler that holds an entity from now on.
LEMMA HoldingTypes ==
    ASSUME NEW stage \in {"resetting", "inserting", "saving", "promoting"},
           NEW op \in {"create", "setPrimary", "remove", "verify"},
           NEW id \in Bank!Ids \union {None}, NEW e \in Bank!Account
    PROVE  LET next == Bank!Holding(stage, op, id, e) IN
           /\ next \in Bank!Transaction
           /\ next.stage = stage /\ next.op = op /\ next.id = id /\ next.entity = e
           /\ ~next.promote
  BY DEF Bank!Holding, Bank!Idle, Bank!Transaction

LEMMA HoldingPromote ==
    ASSUME NEW a \in Bank!Ids, NEW e \in Bank!Account, NEW p \in BOOLEAN
    PROVE  LET next == [Bank!Holding("saving", "remove", a, e) EXCEPT !.promote = p] IN
           /\ next \in Bank!Transaction
           /\ next.stage = "saving" /\ next.op = "remove" /\ next.id = a /\ next.entity = e
           /\ next.promote = p
  <1> DEFINE t == Bank!Holding("saving", "remove", a, e)
  <1>1. /\ t \in Bank!Transaction
        /\ t.stage = "saving" /\ t.op = "remove" /\ t.id = a /\ t.entity = e
    BY HoldingTypes
  <1> HIDE DEF t
  <1>2. [t EXCEPT !.promote = p] \in Bank!Transaction
    BY <1>1 DEF Bank!Transaction
  <1>3. QED
    BY <1>1, <1>2 DEF t, Bank!Transaction

\* The oldest of some accounts is one of them.
LEMMA OldestIsOne ==
    ASSUME NEW n \in Nat, NEW S \in SUBSET (1..n), S # {}
    PROVE  Bank!Oldest(S) \in S
  <1> DEFINE Older(a) == {b \in S : b < a}
             T == {Older(a) : a \in S}
  <1>1. IsFiniteSet(S)
    <2>1. IsFiniteSet(1..n)
      BY FS_Interval
    <2>2. QED
      BY <2>1, FS_Subset
  <1>2. IsWellFoundedOn(StrictSubsetOrdering(S), FiniteSubsetsOf(S))
    BY <1>1, FS_StrictSubsetOrderingWellFounded
  <1>3. T \subseteq FiniteSubsetsOf(S) /\ T # {}
    <2>1. ASSUME NEW a \in S
          PROVE  Older(a) \in FiniteSubsetsOf(S)
      BY <1>1, FS_Subset DEF FiniteSubsetsOf
    <2>2. QED
      BY <2>1
  <1>4. PICK A \in T : \A B \in T : <<B, A>> \notin StrictSubsetOrdering(S)
    <2> HIDE DEF T
    <2> QED
      BY <1>2, <1>3, WFMin
  <1>5. PICK a \in S : A = Older(a)
    BY <1>4
  <1>6. ASSUME NEW b \in S, b < a
        PROVE  FALSE
    <2>1. /\ Older(b) \in T
          /\ \A c \in S : c < b => c < a
          /\ ~(b < b)
      <3>1. a \in Nat /\ b \in Nat /\ S \subseteq Nat
        OBVIOUS
      <3>2. QED
        BY <1>6, <3>1
    <2>2. Older(b) \in T /\ Older(b) \subseteq Older(a) /\ b \in Older(a) /\ b \notin Older(b)
      BY <1>6, <2>1
    <2>3. <<Older(b), A>> \in StrictSubsetOrdering(S)
      BY <1>5, <2>2 DEF StrictSubsetOrdering
    <2>4. QED
      BY <1>4, <2>2, <2>3
  <1>7. \A b \in S : a <= b
    BY <1>6
  <1>8. QED
    BY <1>7 DEF Bank!Oldest

LEMMA IdleType == Bank!Idle \in Bank!Transaction /\ Bank!Idle.stage = "idle"
  <1>1. FALSE \in BOOLEAN
    OBVIOUS
  <1>2. QED
    BY <1>1 DEF Bank!Idle, Bank!Transaction

\* A step after which one handler holds something else.
LEMMA BankGotoTypes ==
    ASSUME BankTypeInv, NEW h \in Handlers, NEW next \in Bank!Transaction,
           accountTxn' = [accountTxn EXCEPT ![h] = next],
           accounts' \in Seq(Bank!Account), Len(accounts') <= MaxAccounts,
           \A a \in DOMAIN accounts :
               a \in DOMAIN accounts' /\ SameAccount(accounts'[a], accounts[a]),
           verified' \subseteq Bank!Ids, payouts' \subseteq Bank!Ids, interrupted' \in BOOLEAN,
           next.stage = "idle" \/ next.entity \in Bank!Account,
           next.stage = "resetting" => next.op \in {"create", "setPrimary"},
           next.stage = "inserting" => next.op = "create",
           next.stage \in {"saving", "updating"} \/ (next.stage = "resetting" /\ next.op = "setPrimary") =>
               next.id \in DOMAIN accounts /\ SameAccount(next.entity, accounts[next.id])
    PROVE  BankTypeInv'
  <1>1. accountTxn \in [Handlers -> Bank!Transaction]
    BY DEF BankTypeInv, Bank!TypeOK
  <1>2. accountTxn' \in [Handlers -> Bank!Transaction]
    BY <1>1
  <1>3. \A g \in Handlers : accountTxn'[g] = IF g = h THEN next ELSE accountTxn[g]
    BY <1>1
  <1>4. /\ \A g \in Handlers : accountTxn'[g].stage # "idle" => accountTxn'[g].entity \in Bank!Account
        /\ \A g \in Handlers : accountTxn'[g].stage \in {"saving", "updating"} =>
              accountTxn'[g].id \in DOMAIN accounts' /\ accountTxn'[g].entity \in Bank!Account
    BY <1>3 DEF BankTypeInv, HoldsRow
  <1>5. Bank!TypeOK'
    BY <1>2, <1>4 DEF Bank!TypeOK, Bank!Account, Bank!Ids, Bank!Transaction
  <1>6. QED
    BY <1>3, <1>4, <1>5 DEF BankTypeInv, HoldsRow, SameAccount, Bank!Account

LEMMA BankStartTypes ==
    ASSUME BankTypeInv, NEW h \in Handlers, NEW next \in Bank!Transaction,
           Bank!Start(h, next), next.entity \in Bank!Account,
           next.stage = "resetting" => next.op \in {"create", "setPrimary"},
           next.stage = "inserting" => next.op = "create",
           next.stage = "saving" \/ next.op = "setPrimary" =>
               next.id \in DOMAIN accounts /\ SameAccount(next.entity, accounts[next.id]),
           next.stage # "updating"
    PROVE  BankTypeInv'
  BY BankGotoTypes DEF Bank!Start, BankTypeInv, Bank!TypeOK, SameAccount

\* Account rows and handlers keep their types.
LEMMA BankTypes ==
    ASSUME MaxAccounts \in Nat \ {0}, BankTypeInv, [Bank!Next]_Bank!vars
    PROVE  BankTypeInv'
  <1> DEFINE n == Len(accounts)
  <1>1. /\ n \in 0..MaxAccounts
        /\ accounts \in [1..n -> Bank!Account]
        /\ DOMAIN accounts = 1..n
        /\ DOMAIN accounts \subseteq Bank!Ids
    BY LenProperties DEF BankTypeInv, Bank!TypeOK, Bank!Ids
  <1>2. /\ accounts \in Seq(Bank!Account) /\ n <= MaxAccounts
        /\ accountTxn \in [Handlers -> Bank!Transaction]
        /\ verified \subseteq Bank!Ids /\ payouts \subseteq Bank!Ids /\ interrupted \in BOOLEAN
    BY DEF BankTypeInv, Bank!TypeOK
  <1>3. ASSUME NEW h \in Handlers, NEW m \in Holders, NEW number \in Numbers,
               NEW p \in BOOLEAN, Bank!CreateFind(h, m, number, p)
        PROVE  BankTypeInv'
    <2> DEFINE e == [member |-> m, number |-> Bank!Encrypted(number), status |-> "ACTIVE",
                     isPrimary |-> p \/ Bank!ActiveOf(m) = {}, verified |-> FALSE]
    <2>1. e \in Bank!Account
      BY DEF Bank!Account, Bank!Stored, Bank!Encrypted
    <2>2. PICK stage \in {"resetting", "inserting"} :
             Bank!Start(h, Bank!Holding(stage, "create", None, e))
      BY <1>3 DEF Bank!CreateFind
    <2>3. QED
      BY <2>1, <2>2, HoldingTypes, BankStartTypes
  <1>4. ASSUME NEW h \in Handlers, NEW a \in DOMAIN accounts,
               Bank!SetPrimaryFind(h, a) \/ Bank!RemoveFind(h, a) \/ Bank!VerifyFind(h, a)
        PROVE  BankTypeInv'
    <2>1. /\ a \in Bank!Ids
          /\ [accounts[a] EXCEPT !.isPrimary = TRUE] \in Bank!Account
          /\ [accounts[a] EXCEPT !.verified = TRUE] \in Bank!Account
          /\ [accounts[a] EXCEPT !.status = "INACTIVE", !.isPrimary = FALSE] \in Bank!Account
          /\ accounts[a].isPrimary \in BOOLEAN
          /\ SameAccount([accounts[a] EXCEPT !.isPrimary = TRUE], accounts[a])
          /\ SameAccount([accounts[a] EXCEPT !.verified = TRUE], accounts[a])
          /\ SameAccount([accounts[a] EXCEPT !.status = "INACTIVE", !.isPrimary = FALSE], accounts[a])
      BY <1>1 DEF Bank!Account, SameAccount
    <2>2. CASE Bank!SetPrimaryFind(h, a)
      BY <2>1, <2>2, HoldingTypes, BankStartTypes DEF Bank!SetPrimaryFind
    <2>3. CASE Bank!RemoveFind(h, a)
      <3> DEFINE e == [accounts[a] EXCEPT !.status = "INACTIVE", !.isPrimary = FALSE]
                 next == [Bank!Holding("saving", "remove", a, e)
                            EXCEPT !.promote = accounts[a].isPrimary]
      <3>1. Bank!Start(h, next)
        BY <2>3 DEF Bank!RemoveFind
      <3>2. /\ next \in Bank!Transaction /\ next.entity \in Bank!Account
            /\ next.stage = "saving" /\ next.op = "remove" /\ next.id = a
            /\ SameAccount(next.entity, accounts[a])
        <4> HIDE DEF e
        <4>1. e \in Bank!Account /\ SameAccount(e, accounts[a])
          BY <2>1 DEF e
        <4>2. QED
          BY <2>1, <4>1, HoldingPromote
      <3> HIDE DEF next
      <3>3. QED
        BY <3>1, <3>2, BankStartTypes
    <2>4. CASE Bank!VerifyFind(h, a)
      BY <2>1, <2>4, HoldingTypes, BankStartTypes DEF Bank!VerifyFind
    <2>5. QED
      BY <1>4, <2>2, <2>3, <2>4
  <1>5. ASSUME NEW h \in Handlers, Bank!Reset(h)
        PROVE  BankTypeInv'
    <2> DEFINE t == accountTxn[h]
               next == [t EXCEPT !.stage = IF t.op = "create" THEN "inserting" ELSE "saving"]
    <2>1. accounts' \in [1..n -> Bank!Account]
      BY <1>1, <1>5 DEF Bank!Reset, Bank!Account
    <2>2. accounts' \in Seq(Bank!Account) /\ Len(accounts') = n /\ DOMAIN accounts' = 1..n
      BY <1>1, <2>1, SequenceOfRows
    <2>3. next \in Bank!Transaction /\ accountTxn' = [accountTxn EXCEPT ![h] = next]
      BY <1>2, <1>5 DEF Bank!Reset, Bank!Transaction
    <2>4. /\ t.entity \in Bank!Account /\ t.op \in {"create", "setPrimary"}
          /\ t.op = "setPrimary" =>
                t.id \in DOMAIN accounts /\ SameAccount(t.entity, accounts[t.id])
      BY <1>5 DEF Bank!Reset, BankTypeInv, HoldsRow
    <2>5. next.entity = t.entity /\ next.op = t.op /\ next.id = t.id
          /\ next.stage = IF t.op = "create" THEN "inserting" ELSE "saving"
      BY <1>2 DEF Bank!Transaction
    <2>6. UNCHANGED <<verified, payouts, interrupted>>
      BY <1>5 DEF Bank!Reset
    <2>7. /\ n <= MaxAccounts
          /\ \A a \in DOMAIN accounts :
                a \in DOMAIN accounts' /\ SameAccount(accounts'[a], accounts[a])
      BY <1>1, <1>5, <2>2 DEF Bank!Reset, SameAccount, Bank!Account
    <2> HIDE DEF n, next
    <2>8. QED
      BY <1>2, <2>2, <2>3, <2>4, <2>5, <2>6, <2>7, BankGotoTypes
  <1>6. ASSUME NEW h \in Handlers, Bank!Insert(h)
        PROVE  BankTypeInv'
    <2>1. accounts' = Append(accounts, accountTxn[h].entity) /\ accountTxn[h].entity \in Bank!Account
      BY <1>6 DEF Bank!Insert, BankTypeInv
    <2>2. accounts' \in Seq(Bank!Account) /\ Len(accounts') = n + 1 /\ DOMAIN accounts' = 1..(n+1)
      BY <1>2, <2>1, LenProperties
    <2>3. n + 1 <= MaxAccounts
      BY <1>1, <1>6 DEF Bank!Insert
    <2>4. \A a \in DOMAIN accounts :
             a \in DOMAIN accounts' /\ SameAccount(accounts'[a], accounts[a])
      BY <1>1, <1>2, <2>1, <2>2 DEF SameAccount
    <2>5. accountTxn' = [accountTxn EXCEPT ![h] = Bank!Idle]
          /\ UNCHANGED <<verified, payouts, interrupted>>
      BY <1>6 DEF Bank!Insert
    <2>6. QED
      BY <1>2, <2>2, <2>3, <2>4, <2>5, IdleType, BankGotoTypes
  <1>7. ASSUME NEW h \in Handlers, Bank!PromoteFind(h)
        PROVE  BankTypeInv'
    <2> DEFINE m == accountTxn[h].entity.member
               a == Bank!Oldest(Bank!ActiveOf(m))
    <2>1. CASE Bank!ActiveOf(m) = {}
      <3>1. accountTxn' = [accountTxn EXCEPT ![h] = Bank!Idle]
            /\ UNCHANGED <<accounts, verified, payouts, interrupted>>
        BY <1>7, <2>1 DEF Bank!PromoteFind
      <3>2. \A b \in DOMAIN accounts : SameAccount(accounts[b], accounts[b])
        BY DEF SameAccount
      <3>3. QED
        BY <1>2, <3>1, <3>2, IdleType, BankGotoTypes
    <2>2. CASE Bank!ActiveOf(m) # {}
      <3>1. a \in Bank!ActiveOf(m)
        <4>1. n \in Nat /\ Bank!ActiveOf(m) \in SUBSET (1..n)
          BY <1>1 DEF Bank!ActiveOf
        <4>2. QED
          BY <2>2, <4>1, OldestIsOne
      <3>2. /\ a \in DOMAIN accounts
            /\ [accounts[a] EXCEPT !.isPrimary = TRUE] \in Bank!Account
            /\ SameAccount([accounts[a] EXCEPT !.isPrimary = TRUE], accounts[a])
            /\ \A b \in DOMAIN accounts : SameAccount(accounts[b], accounts[b])
        BY <1>1, <3>1 DEF Bank!ActiveOf, Bank!Account, SameAccount
      <3>3. accountTxn' = [accountTxn EXCEPT ![h] =
               Bank!Holding("saving", "remove", a, [accounts[a] EXCEPT !.isPrimary = TRUE])]
            /\ UNCHANGED <<accounts, verified, payouts, interrupted>>
        BY <1>7, <2>2 DEF Bank!PromoteFind
      <3> DEFINE next == Bank!Holding("saving", "remove", a, [accounts[a] EXCEPT !.isPrimary = TRUE])
      <3>4. /\ next \in Bank!Transaction /\ next.entity \in Bank!Account
            /\ next.stage = "saving" /\ next.id = a /\ SameAccount(next.entity, accounts[a])
        BY <1>1, <3>2, HoldingTypes
      <3> HIDE DEF next, a
      <3>5. QED
        BY <1>2, <3>2, <3>3, <3>4, BankGotoTypes DEF next
    <2>3. QED
      BY <2>1, <2>2
  <1>8. ASSUME NEW h \in Handlers, Bank!SaveSelect(h)
        PROVE  BankTypeInv'
    <2> DEFINE t == accountTxn[h]
               next == [t EXCEPT !.stage = "updating",
                                 !.columns = Bank!Changed(t.entity, accounts[t.id])]
    <2>1. /\ t.id \in DOMAIN accounts /\ t.entity \in Bank!Account /\ t \in Bank!Transaction
          /\ accounts[t.id] \in Bank!Account
          /\ SameAccount(t.entity, accounts[t.id])
      BY <1>1, <1>2, <1>8 DEF Bank!SaveSelect, BankTypeInv, HoldsRow
    <2>2. Bank!Changed(t.entity, accounts[t.id]) \subseteq {"status", "isPrimary", "verified"}
      BY <2>1 DEF Bank!Changed, Bank!Account, SameAccount
    <2>3. /\ next \in Bank!Transaction
          /\ next.stage = "updating" /\ next.id = t.id /\ next.entity = t.entity
      BY <2>1, <2>2 DEF Bank!Transaction
    <2>4. accountTxn' = [accountTxn EXCEPT ![h] = next]
          /\ UNCHANGED <<accounts, verified, payouts, interrupted>>
      BY <1>2, <1>8 DEF Bank!SaveSelect
    <2>5. \A b \in DOMAIN accounts : SameAccount(accounts[b], accounts[b])
      BY DEF SameAccount
    <2> HIDE DEF next
    <2>6. QED
      BY <1>2, <2>1, <2>3, <2>4, <2>5, BankGotoTypes
  <1>9. ASSUME NEW h \in Handlers, Bank!SaveUpdate(h)
        PROVE  BankTypeInv'
    <2> DEFINE t == accountTxn[h]
               row == Bank!Written(t.entity, accounts[t.id], t.columns)
               next == IF t.promote THEN Bank!Holding("promoting", "remove", None, t.entity)
                       ELSE Bank!Idle
    <2>1. /\ t.id \in 1..n /\ t.entity \in Bank!Account /\ t \in Bank!Transaction
          /\ accounts[t.id] \in Bank!Account
      BY <1>1, <1>2, <1>9 DEF Bank!SaveUpdate, BankTypeInv, HoldsRow
    <2>2. row \in Bank!Account /\ SameAccount(row, accounts[t.id])
      BY <2>1 DEF Bank!Written, Bank!Account, Bank!Transaction, SameAccount
    <2>3. /\ accounts' = [accounts EXCEPT ![t.id] = row]
          /\ accountTxn' = [accountTxn EXCEPT ![h] = next]
          /\ verified' = IF t.op = "verify" THEN verified \union {t.id} ELSE verified
          /\ UNCHANGED <<payouts, interrupted>>
      BY <1>9 DEF Bank!SaveUpdate
    <2>4. accounts' \in [1..n -> Bank!Account]
      <3> HIDE DEF row
      <3> QED BY <1>1, <2>1, <2>2, <2>3
    <2>5. accounts' \in Seq(Bank!Account) /\ Len(accounts') = n /\ DOMAIN accounts' = 1..n
      BY <1>1, <2>4, SequenceOfRows
    <2>6. \A b \in DOMAIN accounts :
             b \in DOMAIN accounts' /\ SameAccount(accounts'[b], accounts[b])
      <3> HIDE DEF row
      <3>1. \A b \in DOMAIN accounts : SameAccount(accounts[b], accounts[b])
        BY DEF SameAccount
      <3>2. \A b \in DOMAIN accounts : accounts'[b] = IF b = t.id THEN row ELSE accounts[b]
        BY <2>3
      <3> QED BY <1>1, <2>2, <2>5, <3>1, <3>2
    <2>7. next \in Bank!Transaction /\ (next.stage = "idle" \/ next.entity \in Bank!Account)
          /\ next.stage \in {"idle", "promoting"}
      BY <2>1, HoldingTypes, IdleType
    <2>8. verified' \subseteq Bank!Ids
      BY <1>1, <1>2, <2>1, <2>3
    <2> HIDE DEF next
    <2>9. QED
      BY <1>1, <1>2, <2>3, <2>5, <2>6, <2>7, <2>8, BankGotoTypes
  <1>10. ASSUME NEW h \in Handlers, Bank!Interrupt(h)
         PROVE  BankTypeInv'
    <2>1. accountTxn' = [accountTxn EXCEPT ![h] = Bank!Idle]
          /\ interrupted' \in BOOLEAN /\ UNCHANGED <<accounts, verified, payouts>>
      BY <1>10 DEF Bank!Interrupt
    <2>2. \A b \in DOMAIN accounts : SameAccount(accounts[b], accounts[b])
      BY DEF SameAccount
    <2>3. QED
      BY <1>2, <2>1, <2>2, IdleType, BankGotoTypes
  <1>11. ASSUME NEW m \in Holders, NEW a \in DOMAIN accounts, Bank!Payout(m, a)
         PROVE  BankTypeInv'
    <2>1. a \in Bank!Ids /\ payouts' = payouts \union {a}
          /\ UNCHANGED <<accounts, accountTxn, verified, interrupted>>
      BY <1>1, <1>11 DEF Bank!Payout
    <2>2. payouts' \subseteq Bank!Ids
      BY <1>2, <2>1
    <2>3. QED
      BY <2>1, <2>2 DEF BankTypeInv, Bank!TypeOK, HoldsRow, Bank!Ids, Bank!Account
  <1>12. CASE UNCHANGED Bank!vars
    BY <1>12 DEF Bank!vars, BankTypeInv, Bank!TypeOK, HoldsRow, Bank!Ids, Bank!Account
  <1>13. QED
    BY <1>3, <1>4, <1>5, <1>6, <1>7, <1>8, <1>9, <1>10, <1>11, <1>12 DEF Bank!Next

\* A mark of a verification is earned, and so is every payout.
LEMMA MarksStep ==
    ASSUME MaxAccounts \in Nat \ {0},
           BankTypeInv, MarksAreEarned, Bank!PayoutsAreVerified, [Bank!Next]_Bank!vars
    PROVE  MarksAreEarned' /\ Bank!PayoutsAreVerified'
  <1>1. /\ accounts \in Seq(Bank!Account)
        /\ DOMAIN accounts = 1..Len(accounts)
        /\ DOMAIN accounts \subseteq Bank!Ids
        /\ \A a \in DOMAIN accounts : accounts[a] \in Bank!Account
        /\ accountTxn \in [Handlers -> Bank!Transaction]
        /\ \A h \in Handlers : accountTxn[h].stage # "idle" => accountTxn[h].entity \in Bank!Account
        /\ \A h \in Handlers : HoldsRow(h) => accountTxn[h].id \in DOMAIN accounts
    BY LenProperties DEF BankTypeInv, Bank!TypeOK, Bank!Ids
  <1>2. /\ \A a \in DOMAIN accounts : accounts[a].verified => a \in verified
        /\ \A h \in Handlers : EarnedMark(accountTxn[h])
        /\ payouts \subseteq verified
    BY DEF MarksAreEarned, Bank!PayoutsAreVerified
  <1>3. ASSUME NEW h \in Handlers, NEW next \in Bank!Transaction,
               accountTxn' = [accountTxn EXCEPT ![h] = next], UNCHANGED payouts,
               verified \subseteq verified', EarnedMark(next),
               \A a \in DOMAIN accounts' : accounts'[a].verified => a \in verified'
        PROVE  MarksAreEarned' /\ Bank!PayoutsAreVerified'
    <2>1. \A g \in Handlers : accountTxn'[g] = IF g = h THEN next ELSE accountTxn[g]
      BY <1>1, <1>3
    <2>2. \A g \in Handlers : EarnedMark(accountTxn[g])'
      BY <1>2, <1>3, <2>1 DEF EarnedMark
    <2>3. QED
      BY <1>2, <1>3, <2>2 DEF MarksAreEarned, Bank!PayoutsAreVerified
  <1>4. EarnedMark(Bank!Idle)
    BY IdleType DEF EarnedMark
  <1>5. ASSUME NEW h \in Handlers, NEW m \in Holders, NEW number \in Numbers,
               NEW p \in BOOLEAN, Bank!CreateFind(h, m, number, p)
        PROVE  MarksAreEarned' /\ Bank!PayoutsAreVerified'
    <2> DEFINE e == [member |-> m, number |-> Bank!Encrypted(number), status |-> "ACTIVE",
                     isPrimary |-> p \/ Bank!ActiveOf(m) = {}, verified |-> FALSE]
    <2>1. e \in Bank!Account /\ ~e.verified
      BY DEF Bank!Account, Bank!Stored, Bank!Encrypted
    <2>2. PICK stage \in {"resetting", "inserting"} :
             Bank!Start(h, Bank!Holding(stage, "create", None, e))
      BY <1>5 DEF Bank!CreateFind
    <2> DEFINE next == Bank!Holding(stage, "create", None, e)
    <2>3. /\ next \in Bank!Transaction /\ next.stage = stage
          /\ next.op = "create" /\ next.entity = e
      BY <2>1, HoldingTypes
    <2>4. Bank!Start(h, next)
      BY <2>2
    <2> HIDE DEF next, e
    <2>5. EarnedMark(next)
      BY <2>1, <2>3 DEF EarnedMark
    <2>6. QED
      BY <1>2, <1>3, <2>3, <2>4, <2>5 DEF Bank!Start
  <1>6. ASSUME NEW h \in Handlers, NEW a \in DOMAIN accounts,
               Bank!SetPrimaryFind(h, a) \/ Bank!RemoveFind(h, a) \/ Bank!VerifyFind(h, a)
        PROVE  MarksAreEarned' /\ Bank!PayoutsAreVerified'
    <2> DEFINE row == accounts[a]
    <2>1. /\ a \in Bank!Ids /\ row \in Bank!Account
          /\ row.verified => a \in verified
      BY <1>1, <1>2
    <2> HIDE DEF row
    <2> DEFINE e1 == [row EXCEPT !.isPrimary = TRUE]
               e2 == [row EXCEPT !.status = "INACTIVE", !.isPrimary = FALSE]
               e3 == [row EXCEPT !.verified = TRUE]
    <2>2. /\ e1 \in Bank!Account /\ e2 \in Bank!Account /\ e3 \in Bank!Account
          /\ e1.verified = row.verified /\ e2.verified = row.verified
          /\ row.isPrimary \in BOOLEAN
      BY <2>1 DEF Bank!Account
    <2> HIDE DEF e1, e2, e3
    <2>3. CASE Bank!SetPrimaryFind(h, a)
      <3> DEFINE next == Bank!Holding("resetting", "setPrimary", a, e1)
      <3>1. Bank!Start(h, next)
        BY <2>3 DEF Bank!SetPrimaryFind, e1, row
      <3>2. next \in Bank!Transaction /\ EarnedMark(next)
        BY <2>1, <2>2, HoldingTypes DEF EarnedMark
      <3> HIDE DEF next
      <3>3. QED
        BY <1>2, <1>3, <3>1, <3>2 DEF Bank!Start
    <2>4. CASE Bank!RemoveFind(h, a)
      <3> DEFINE next == [Bank!Holding("saving", "remove", a, e2) EXCEPT !.promote = row.isPrimary]
      <3>1. Bank!Start(h, next)
        BY <2>4 DEF Bank!RemoveFind, e2, row
      <3>2. next \in Bank!Transaction /\ EarnedMark(next)
        BY <2>1, <2>2, HoldingPromote DEF EarnedMark
      <3> HIDE DEF next
      <3>3. QED
        BY <1>2, <1>3, <3>1, <3>2 DEF Bank!Start
    <2>5. CASE Bank!VerifyFind(h, a)
      <3> DEFINE next == Bank!Holding("saving", "verify", a, e3)
      <3>1. Bank!Start(h, next)
        BY <2>5 DEF Bank!VerifyFind, e3, row
      <3>2. next \in Bank!Transaction /\ EarnedMark(next)
        BY <2>1, <2>2, HoldingTypes DEF EarnedMark
      <3> HIDE DEF next
      <3>3. QED
        BY <1>2, <1>3, <3>1, <3>2 DEF Bank!Start
    <2>6. QED
      BY <1>6, <2>3, <2>4, <2>5
  <1>7. ASSUME NEW h \in Handlers, Bank!Reset(h)
        PROVE  MarksAreEarned' /\ Bank!PayoutsAreVerified'
    <2> DEFINE t == accountTxn[h]
               next == [t EXCEPT !.stage = IF t.op = "create" THEN "inserting" ELSE "saving"]
    <2>1. /\ next \in Bank!Transaction /\ accountTxn' = [accountTxn EXCEPT ![h] = next]
          /\ UNCHANGED <<verified, payouts>>
      BY <1>1, <1>7 DEF Bank!Reset, Bank!Transaction
    <2>2. /\ next.stage # "idle" /\ next.op = t.op /\ next.id = t.id /\ next.entity = t.entity
          /\ t.stage = "resetting" /\ EarnedMark(t)
      BY <1>1, <1>2, <1>7 DEF Bank!Reset, Bank!Transaction
    <2>3. EarnedMark(next)
      <3> HIDE DEF next
      <3> QED BY <2>2 DEF EarnedMark
    <2>4. \A a \in DOMAIN accounts' : a \in DOMAIN accounts /\ accounts'[a].verified = accounts[a].verified
      BY <1>1, <1>7 DEF Bank!Reset, Bank!Account
    <2> HIDE DEF next
    <2>5. QED
      BY <1>2, <1>3, <2>1, <2>3, <2>4
  <1>8. ASSUME NEW h \in Handlers, Bank!Insert(h)
        PROVE  MarksAreEarned' /\ Bank!PayoutsAreVerified'
    <2>1. /\ ~accountTxn[h].entity.verified /\ accountTxn[h].entity \in Bank!Account
          /\ accounts' = Append(accounts, accountTxn[h].entity)
          /\ accountTxn' = [accountTxn EXCEPT ![h] = Bank!Idle]
          /\ UNCHANGED <<verified, payouts>>
      BY <1>1, <1>2, <1>8 DEF Bank!Insert, BankTypeInv, EarnedMark
    <2>2. \A a \in DOMAIN accounts' : accounts'[a].verified => a \in verified
      BY <1>1, <1>2, <2>1
    <2>3. QED
      BY <1>3, <1>4, <2>1, <2>2, IdleType
  <1>9. ASSUME NEW h \in Handlers, Bank!PromoteFind(h)
        PROVE  MarksAreEarned' /\ Bank!PayoutsAreVerified'
    <2> DEFINE m == accountTxn[h].entity.member
               a == Bank!Oldest(Bank!ActiveOf(m))
               e == [accounts[a] EXCEPT !.isPrimary = TRUE]
               next == IF Bank!ActiveOf(m) = {} THEN Bank!Idle
                       ELSE Bank!Holding("saving", "remove", a, e)
    <2>1. /\ accountTxn' = [accountTxn EXCEPT ![h] = next]
          /\ UNCHANGED <<accounts, verified, payouts>>
      BY <1>9 DEF Bank!PromoteFind
    <2>2. CASE Bank!ActiveOf(m) = {}
      BY <1>2, <1>3, <1>4, <2>1, <2>2, IdleType
    <2>3. CASE Bank!ActiveOf(m) # {}
      <3>1. a \in Bank!ActiveOf(m)
        <4>1. Len(accounts) \in Nat /\ Bank!ActiveOf(m) \in SUBSET (1..Len(accounts))
          BY <1>1, LenProperties DEF Bank!ActiveOf
        <4>2. QED
          BY <2>3, <4>1, OldestIsOne
      <3>2. a \in DOMAIN accounts /\ a \in Bank!Ids
        BY <1>1, <3>1 DEF Bank!ActiveOf
      <3> HIDE DEF a
      <3>3. e \in Bank!Account /\ (e.verified => a \in verified)
        BY <1>1, <1>2, <3>2 DEF Bank!Account
      <3> HIDE DEF e
      <3>4. next \in Bank!Transaction /\ EarnedMark(next)
        BY <2>3, <3>2, <3>3, HoldingTypes DEF EarnedMark
      <3> HIDE DEF next
      <3>5. QED
        BY <1>2, <1>3, <2>1, <3>4
    <2>4. QED
      BY <2>2, <2>3
  <1>10. ASSUME NEW h \in Handlers, Bank!SaveSelect(h)
         PROVE  MarksAreEarned' /\ Bank!PayoutsAreVerified'
    <2> DEFINE t == accountTxn[h]
               next == accountTxn'[h]
    <2>1. /\ t.stage = "saving" /\ UNCHANGED <<accounts, verified, payouts>>
          /\ next.stage = "updating" /\ next.op = t.op /\ next.id = t.id /\ next.entity = t.entity
          /\ accountTxn' = [accountTxn EXCEPT ![h] = next]
          /\ EarnedMark(t)
      BY <1>1, <1>2, <1>10 DEF Bank!SaveSelect, Bank!Transaction
    <2>2. EarnedMark(next)
      BY <2>1 DEF EarnedMark
    <2>3. next \in Bank!Transaction
      BY <1>10, BankTypes DEF BankTypeInv, Bank!TypeOK
    <2>4. QED
      BY <1>2, <1>3, <2>1, <2>2, <2>3
  <1>11. ASSUME NEW h \in Handlers, Bank!SaveUpdate(h)
         PROVE  MarksAreEarned' /\ Bank!PayoutsAreVerified'
    <2> DEFINE t == accountTxn[h]
               row == Bank!Written(t.entity, accounts[t.id], t.columns)
               next == IF t.promote THEN Bank!Holding("promoting", "remove", None, t.entity)
                       ELSE Bank!Idle
    <2>1. /\ t.stage = "updating" /\ t.id \in DOMAIN accounts /\ t.entity \in Bank!Account
          /\ accounts[t.id] \in Bank!Account /\ EarnedMark(t)
      BY <1>1, <1>2, <1>11 DEF Bank!SaveUpdate, HoldsRow
    <2>2. row.verified \in {t.entity.verified, accounts[t.id].verified}
      BY <2>1 DEF Bank!Written, Bank!Account
    <2>3. /\ accounts' = [accounts EXCEPT ![t.id] = row]
          /\ accountTxn' = [accountTxn EXCEPT ![h] = next]
          /\ verified' = IF t.op = "verify" THEN verified \union {t.id} ELSE verified
          /\ UNCHANGED payouts
      BY <1>11 DEF Bank!SaveUpdate
    <2>4. next \in Bank!Transaction /\ EarnedMark(next)
      <3>1. CASE t.promote
        BY <2>1, <3>1, HoldingTypes DEF EarnedMark
      <3>2. CASE ~t.promote
        BY <1>4, <3>2, IdleType
      <3>3. QED
        BY <3>1, <3>2
    <2>5. row.verified => t.id \in verified'
      BY <1>2, <2>1, <2>2, <2>3 DEF EarnedMark
    <2> HIDE DEF row, next
    <2>6. \A a \in DOMAIN accounts' : accounts'[a].verified => a \in verified'
      BY <1>2, <2>1, <2>3, <2>5
    <2>7. QED
      BY <1>3, <2>3, <2>4, <2>6
  <1>12. ASSUME NEW h \in Handlers, Bank!Interrupt(h)
         PROVE  MarksAreEarned' /\ Bank!PayoutsAreVerified'
    BY <1>2, <1>3, <1>4, <1>12, IdleType DEF Bank!Interrupt
  <1>13. ASSUME NEW m \in Holders, NEW a \in DOMAIN accounts, Bank!Payout(m, a)
         PROVE  MarksAreEarned' /\ Bank!PayoutsAreVerified'
    <2>1. payouts' = payouts \union {a} /\ a \in verified
          /\ UNCHANGED <<accounts, accountTxn, verified>>
      BY <1>2, <1>13 DEF Bank!Payout
    <2>2. QED
      BY <1>2, <2>1 DEF MarksAreEarned, EarnedMark, Bank!PayoutsAreVerified
  <1>14. CASE UNCHANGED Bank!vars
    BY <1>14 DEF Bank!vars, MarksAreEarned, EarnedMark, Bank!PayoutsAreVerified
  <1>15. QED
    BY <1>5, <1>6, <1>7, <1>8, <1>9, <1>10, <1>11, <1>12, <1>13, <1>14 DEF Bank!Next

LEMMA BankInit ==
    ASSUME MaxAccounts \in Nat \ {0}, Bank!Init
    PROVE  BankInv /\ OrderlyInv
  <1>1. /\ accountTxn = [h \in Handlers |-> Bank!Idle]
        /\ verified = {} /\ payouts = {} /\ interrupted = FALSE
        /\ \/ accounts = <<>>
           \/ \E m \in Holders, n \in Numbers : accounts = <<Bank!Earlier(m, n)>>
    BY DEF Bank!Init
  <1>2. \A h \in Handlers : accountTxn[h] = Bank!Idle /\ accountTxn[h].stage = "idle"
    BY <1>1, IdleType
  <1>3. /\ accountTxn \in [Handlers -> Bank!Transaction]
        /\ verified \subseteq Bank!Ids /\ payouts \subseteq Bank!Ids /\ interrupted \in BOOLEAN
        /\ \A h \in Handlers : ~HoldsRow(h) /\ EarnedMark(accountTxn[h])
        /\ Bank!PayoutsAreVerified
    BY <1>1, <1>2, IdleType DEF HoldsRow, EarnedMark, Bank!PayoutsAreVerified
  <1>4. ASSUME accounts \in Seq(Bank!Account), Len(accounts) \in {0, 1},
               \A a \in DOMAIN accounts : ~accounts[a].verified
        PROVE  BankInv
    <2>1. Bank!TypeOK
      BY <1>2, <1>3, <1>4 DEF Bank!TypeOK
    <2>2. BankTypeInv
      BY <1>2, <1>3, <2>1 DEF BankTypeInv
    <2>3. QED
      BY <1>3, <1>4, <2>2 DEF BankInv, MarksAreEarned
  <1>5. CASE accounts = <<>>
    <2>1. accounts \in Seq(Bank!Account) /\ Len(accounts) = 0 /\ DOMAIN accounts = {}
      BY <1>5, EmptySeq, LenProperties
    <2>2. BankInv
      BY <1>4, <2>1
    <2>3. OrderlyInv
      BY <1>1, <1>2, <2>1 DEF OrderlyInv, OnePrimary, Bank!PrimaryIsActive, Bank!NoDuplicateNumber,
         PrimaryComes, HandlerOrderly, HoldsRow, Bank!ActiveOf
    <2>4. QED
      BY <2>2, <2>3
  <1>6. ASSUME NEW m \in Holders, NEW n \in Numbers, accounts = <<Bank!Earlier(m, n)>>
        PROVE  BankInv /\ OrderlyInv
    <2> DEFINE e == Bank!Earlier(m, n)
    <2>1. e \in Bank!Account /\ e.status = "ACTIVE" /\ e.isPrimary /\ ~e.verified
          /\ e.member = m
      BY DEF Bank!Earlier, Bank!Account, Bank!Stored
    <2> HIDE DEF e
    <2>2. /\ accounts \in Seq(Bank!Account) /\ Len(accounts) = 1
          /\ DOMAIN accounts = {1} /\ accounts[1] = e
      BY <1>6, <2>1 DEF e
    <2>3. BankInv
      BY <1>4, <2>1, <2>2
    <2>4. \A k \in Holders : Bank!ActiveOf(k) # {} => Bank!PrimaryOf(k) # {}
      BY <2>1, <2>2 DEF Bank!ActiveOf, Bank!PrimaryOf, Bank!IsActive
    <2>5. OrderlyInv
      BY <1>1, <1>2, <2>1, <2>2, <2>4 DEF OrderlyInv, OnePrimary, Bank!PrimaryIsActive,
         Bank!NoDuplicateNumber, PrimaryComes, HandlerOrderly, HoldsRow, Bank!IsActive
    <2>6. QED
      BY <2>3, <2>5
  <1>7. QED
    BY <1>1, <1>5, <1>6

\* The invariant of the accounts, in every behaviour of the handlers.
THEOREM BankInvariant == ASSUME MaxAccounts \in Nat \ {0} PROVE Bank!Spec => []BankInv
  <1>1. Bank!Init => BankInv
    BY BankInit
  <1>2. BankInv /\ [Bank!Next]_Bank!vars => BankInv'
    BY BankTypes, MarksStep DEF BankInv
  <1>3. QED
    BY <1>1, <1>2, PTL DEF Bank!Spec

\* Whatever overlaps, for any members, numbers and handlers: coins are paid out
\* to an account only after an administrator has verified this very row.
THEOREM PayoutsVerified ==
    ASSUME MaxAccounts \in Nat \ {0} PROVE Bank!Spec => []PayoutsAreVerified
  <1>1. BankInv => PayoutsAreVerified
    BY DEF BankInv, PayoutsAreVerified
  <1>2. QED
    BY <1>1, BankInvariant, PTL

-----------------------------------------------------------------------------
\* One handler of accounts at a time.

\* The rows an operation looks at depend on the table only.
LEMMA SameRows ==
    ASSUME UNCHANGED accounts
    PROVE  /\ \A m : Bank!ActiveOf(m)' = Bank!ActiveOf(m) /\ Bank!PrimaryOf(m)' = Bank!PrimaryOf(m)
           /\ OnePrimary' <=> OnePrimary
           /\ Bank!PrimaryIsActive' <=> Bank!PrimaryIsActive
           /\ Bank!NoDuplicateNumber' <=> Bank!NoDuplicateNumber
  BY DEF Bank!ActiveOf, Bank!PrimaryOf, Bank!IsActive, OnePrimary, Bank!PrimaryIsActive,
         Bank!NoDuplicateNumber

\* The invariant after a step of the one handler, which holds next from then on.
LEMMA HandlerStep ==
    ASSUME OneUnderWay, OneUnderWay', BankTypeInv, NEW h \in Handlers, NEW next,
           accountTxn[h].stage # "idle" \/ next.stage # "idle",
           accountTxn' = [accountTxn EXCEPT ![h] = next],
           OnePrimary', Bank!PrimaryIsActive', Bank!NoDuplicateNumber',
           ~interrupted' => \A m \in Holders :
               Bank!ActiveOf(m)' # {} => Bank!PrimaryOf(m)' # {} \/ Naming(next, m),
           next.stage \in {"resetting", "inserting"} /\ next.op = "create" => NewAccount(next)',
           next.stage \in {"saving", "updating"} \/ (next.stage = "resetting" /\ next.op = "setPrimary") =>
               ChangedRow(next)',
           next.stage = "promoting" => Bank!PrimaryOf(next.entity.member)' = {}
    PROVE  OrderlyInv'
  <1>1. accountTxn \in [Handlers -> Bank!Transaction]
    BY DEF BankTypeInv, Bank!TypeOK
  <1>2. /\ accountTxn'[h] = next
        /\ \A g \in Handlers : g # h => accountTxn'[g] = accountTxn[g] /\ accountTxn'[g].stage = "idle"
    BY <1>1 DEF OneUnderWay
  <1>3. PrimaryComes'
    BY <1>2 DEF PrimaryComes, Naming
  <1>4. HandlerOrderly(h)'
    <2>1. accountTxn'[h] = next
      BY <1>2
    <2>2. NewAccount(accountTxn[h])' <=> NewAccount(next)'
      BY <2>1 DEF NewAccount
    <2>3. ChangedRow(accountTxn[h])' <=> ChangedRow(next)'
      BY <2>1 DEF ChangedRow
    <2>4. QED
      BY <2>1, <2>2, <2>3 DEF HandlerOrderly, HoldsRow
  <1>5. \A g \in Handlers : g # h => HandlerOrderly(g)'
    BY <1>2 DEF HandlerOrderly, HoldsRow
  <1>6. QED
    BY <1>4, <1>3, <1>5 DEF OrderlyInv

\* What the handlers hold and the table say, as far as the steps need it.
LEMMA BankFacts ==
    ASSUME BankTypeInv
    PROVE  /\ accounts \in Seq(Bank!Account)
           /\ DOMAIN accounts = 1..Len(accounts) /\ Len(accounts) \in Nat
           /\ \A a \in DOMAIN accounts : accounts[a] \in Bank!Account
           /\ accountTxn \in [Handlers -> Bank!Transaction]
           /\ \A h \in Handlers : accountTxn[h].stage # "idle" => accountTxn[h].entity \in Bank!Account
  BY LenProperties DEF BankTypeInv, Bank!TypeOK

\* The handler that starts is the only one: none was naming anything.
LEMMA StartOrderly ==
    ASSUME OneUnderWay, OneUnderWay', BankTypeInv, OrderlyInv, NEW h \in Handlers,
           NEW next \in Bank!Transaction, Bank!Start(h, next),
           next.stage \in {"resetting", "inserting"} /\ next.op = "create" => NewAccount(next),
           next.stage = "saving" \/ (next.stage = "resetting" /\ next.op = "setPrimary") => ChangedRow(next),
           next.stage \notin {"idle", "updating", "promoting"}
    PROVE  OrderlyInv'
  <1>1. /\ accountTxn[h].stage = "idle"
        /\ accountTxn' = [accountTxn EXCEPT ![h] = next]
        /\ UNCHANGED <<accounts, interrupted>>
    BY DEF Bank!Start
  <1>2. \A g \in Handlers, m \in Holders : ~Naming(accountTxn[g], m)
    <2>1. /\ accountTxn'[h] = next
          /\ \A g \in Handlers : g # h => accountTxn'[g] = accountTxn[g]
      BY <1>1, BankFacts
    <2>2. QED
      BY <1>1, <2>1 DEF OneUnderWay, Naming
  <1>3. ~interrupted' => \A m \in Holders : Bank!ActiveOf(m)' # {} => Bank!PrimaryOf(m)' # {}
    BY <1>1, <1>2, SameRows DEF OrderlyInv, PrimaryComes
  <1>4. NewAccount(next)' <=> NewAccount(next)
    BY <1>1, SameRows DEF NewAccount
  <1>5. ChangedRow(next)' <=> ChangedRow(next)
    BY <1>1, SameRows DEF ChangedRow
  <1>6. QED
    BY <1>1, <1>3, <1>4, <1>5, SameRows, HandlerStep DEF OrderlyInv

\* Two accounts with the same columns are the same.
LEMMA SameFields ==
    ASSUME NEW e \in Bank!Account, NEW f \in Bank!Account,
           e.member = f.member, e.number = f.number, e.status = f.status,
           e.isPrimary = f.isPrimary, e.verified = f.verified
    PROVE  e = f
  BY DEF Bank!Account

\* Every step of the one handler keeps the invariant.
LEMMA OrderlyStep ==
    ASSUME MaxAccounts \in Nat \ {0}, OneUnderWay, OneUnderWay', BankTypeInv, OrderlyInv,
           [Bank!Next]_Bank!vars
    PROVE  OrderlyInv'
  <1>1. ASSUME NEW h \in Handlers, NEW m \in Holders, NEW number \in Numbers,
               NEW p \in BOOLEAN, Bank!CreateFind(h, m, number, p)
        PROVE  OrderlyInv'
    <2> DEFINE primary == p \/ Bank!ActiveOf(m) = {}
               e == [member |-> m, number |-> Bank!Encrypted(number), status |-> "ACTIVE",
                     isPrimary |-> primary, verified |-> FALSE]
               stage == IF primary /\ Bank!ActiveOf(m) # {} THEN "resetting" ELSE "inserting"
               next == Bank!Holding(stage, "create", None, e)
    <2>1. e \in Bank!Account /\ e.status = "ACTIVE" /\ e.member = m
          /\ e.number.number = number /\ (e.isPrimary <=> primary)
      BY DEF Bank!Account, Bank!Stored, Bank!Encrypted
    <2>2. /\ Bank!Start(h, next)
          /\ \A a \in Bank!ActiveOf(m) : accounts[a].number.number # number
      BY <1>1 DEF Bank!CreateFind, Bank!Decrypted
    <2>3. Bank!PrimaryOf(m) \subseteq Bank!ActiveOf(m)
      BY DEF Bank!PrimaryOf
    <2> HIDE DEF e
    <2>4. /\ next \in Bank!Transaction /\ next.stage = stage
          /\ next.op = "create" /\ next.entity = e
      BY <2>1, HoldingTypes
    <2> HIDE DEF next
    <2>5. NewAccount(next)
      BY <2>1, <2>2, <2>3, <2>4 DEF NewAccount
    <2>6. QED
      BY <2>2, <2>4, <2>5, StartOrderly
  <1>2. ASSUME NEW h \in Handlers, NEW a \in DOMAIN accounts,
               Bank!SetPrimaryFind(h, a) \/ Bank!RemoveFind(h, a) \/ Bank!VerifyFind(h, a)
        PROVE  OrderlyInv'
    <2> DEFINE row == accounts[a]
               e1 == [row EXCEPT !.isPrimary = TRUE]
               e2 == [row EXCEPT !.status = "INACTIVE", !.isPrimary = FALSE]
               e3 == [row EXCEPT !.verified = TRUE]
    <2>1. /\ a \in Bank!Ids /\ row \in Bank!Account /\ row.status = "ACTIVE"
      BY <1>2, BankFacts DEF BankTypeInv, Bank!TypeOK, Bank!Ids, Bank!IsActive,
         Bank!SetPrimaryFind, Bank!RemoveFind, Bank!VerifyFind
    <2>2. /\ e1 \in Bank!Account /\ e2 \in Bank!Account /\ e3 \in Bank!Account
          /\ row.isPrimary \in BOOLEAN
      <3> HIDE DEF row
      <3> QED BY <2>1 DEF Bank!Account
    <2>3. CASE Bank!SetPrimaryFind(h, a)
      <3> DEFINE next == Bank!Holding("resetting", "setPrimary", a, e1)
      <3>1. Bank!Start(h, next)
        BY <2>3 DEF Bank!SetPrimaryFind
      <3> HIDE DEF e1
      <3>2. /\ next \in Bank!Transaction /\ next.stage = "resetting" /\ next.op = "setPrimary"
            /\ next.id = a /\ next.entity = e1 /\ ~next.promote
        BY <2>1, <2>2, HoldingTypes
      <3> HIDE DEF next
      <3>3. ChangedRow(next)
        BY <2>1, <3>2 DEF ChangedRow, e1
      <3>4. QED
        BY <3>1, <3>2, <3>3, StartOrderly
    <2>4. CASE Bank!RemoveFind(h, a)
      <3> DEFINE next == [Bank!Holding("saving", "remove", a, e2) EXCEPT !.promote = row.isPrimary]
      <3>1. Bank!Start(h, next)
        BY <2>4 DEF Bank!RemoveFind
      <3> HIDE DEF e2
      <3>2. /\ next \in Bank!Transaction /\ next.stage = "saving" /\ next.op = "remove"
            /\ next.id = a /\ next.entity = e2 /\ next.promote = row.isPrimary
        BY <2>1, <2>2, HoldingPromote
      <3> HIDE DEF next
      <3>3. ChangedRow(next)
        BY <2>1, <3>2 DEF ChangedRow, e2
      <3>4. QED
        BY <3>1, <3>2, <3>3, StartOrderly
    <2>5. CASE Bank!VerifyFind(h, a)
      <3> DEFINE next == Bank!Holding("saving", "verify", a, e3)
      <3>1. Bank!Start(h, next)
        BY <2>5 DEF Bank!VerifyFind
      <3> HIDE DEF e3
      <3>2. /\ next \in Bank!Transaction /\ next.stage = "saving" /\ next.op = "verify"
            /\ next.id = a /\ next.entity = e3 /\ ~next.promote
        BY <2>1, <2>2, HoldingTypes
      <3> HIDE DEF next
      <3>3. ChangedRow(next)
        BY <2>1, <3>2 DEF ChangedRow, e3
      <3>4. QED
        BY <3>1, <3>2, <3>3, StartOrderly
    <2>6. QED
      BY <1>2, <2>3, <2>4, <2>5
  <1>3. ASSUME NEW h \in Handlers, Bank!Reset(h)
        PROVE  OrderlyInv'
    <2> DEFINE t == accountTxn[h]
    <2>0. PICK m \in Holders : m = t.entity.member
      BY <1>3, BankFacts DEF Bank!Reset, Bank!Account
    <2>1. /\ t.stage = "resetting" /\ t \in Bank!Transaction /\ t.entity \in Bank!Account
          /\ t.op \in {"create", "setPrimary"}
          /\ UNCHANGED interrupted
      BY <1>3, BankFacts DEF Bank!Reset, BankTypeInv, Bank!Account
    <2>2. PICK next \in Bank!Transaction :
             /\ accountTxn' = [accountTxn EXCEPT ![h] = next]
             /\ next.entity = t.entity /\ next.id = t.id /\ next.op = t.op /\ next.promote = t.promote
             /\ next.stage = IF t.op = "create" THEN "inserting" ELSE "saving"
      <3> DEFINE new == [t EXCEPT !.stage = IF t.op = "create" THEN "inserting" ELSE "saving"]
      <3>1. /\ new \in Bank!Transaction
            /\ new.entity = t.entity /\ new.id = t.id /\ new.op = t.op /\ new.promote = t.promote
            /\ new.stage = IF t.op = "create" THEN "inserting" ELSE "saving"
        BY <2>1 DEF Bank!Transaction
      <3>2. accountTxn' = [accountTxn EXCEPT ![h] = new]
        BY <1>3, BankFacts DEF Bank!Reset
      <3> HIDE DEF new
      <3>3. QED
        BY <3>1, <3>2
    <2>3. /\ DOMAIN accounts' = DOMAIN accounts
          /\ \A a \in DOMAIN accounts :
                accounts'[a] = [accounts[a] EXCEPT !.isPrimary = @ /\ a \notin Bank!PrimaryOf(m)]
      BY <1>3, <2>0 DEF Bank!Reset
    <2>4. \A a \in DOMAIN accounts :
             /\ accounts'[a] \in Bank!Account
             /\ accounts'[a].member = accounts[a].member /\ accounts'[a].number = accounts[a].number
             /\ accounts'[a].status = accounts[a].status /\ accounts'[a].verified = accounts[a].verified
             /\ accounts'[a].isPrimary <=> accounts[a].isPrimary /\ a \notin Bank!PrimaryOf(m)
      <3> SUFFICES ASSUME NEW a \in DOMAIN accounts
                   PROVE  /\ accounts'[a] \in Bank!Account
                          /\ accounts'[a].member = accounts[a].member
                          /\ accounts'[a].number = accounts[a].number
                          /\ accounts'[a].status = accounts[a].status
                          /\ accounts'[a].verified = accounts[a].verified
                          /\ accounts'[a].isPrimary <=>
                                accounts[a].isPrimary /\ a \notin Bank!PrimaryOf(m)
        OBVIOUS
      <3> DEFINE row == accounts[a]
                 b == row.isPrimary /\ a \notin Bank!PrimaryOf(m)
      <3>1. row \in Bank!Account /\ accounts'[a] = [row EXCEPT !.isPrimary = b] /\ b \in BOOLEAN
        BY <2>3, BankFacts
      <3> HIDE DEF row, b
      <3>2. /\ accounts'[a] \in Bank!Account
            /\ accounts'[a].member = row.member /\ accounts'[a].number = row.number
            /\ accounts'[a].status = row.status /\ accounts'[a].verified = row.verified
            /\ accounts'[a].isPrimary = b
        BY <3>1 DEF Bank!Account
      <3>3. QED
        BY <3>2 DEF row, b
    <2>5. \A k : Bank!ActiveOf(k)' = Bank!ActiveOf(k)
      BY <2>3, <2>4 DEF Bank!ActiveOf, Bank!IsActive
    <2>6. /\ Bank!PrimaryOf(m)' = {}
          /\ \A k : k # m => Bank!PrimaryOf(k)' = Bank!PrimaryOf(k)
      <3>1. \A k : Bank!ActiveOf(k) \subseteq {a \in DOMAIN accounts : accounts[a].member = k}
        BY DEF Bank!ActiveOf
      <3>2. \A k : Bank!PrimaryOf(k)' =
                      {a \in Bank!ActiveOf(k) : accounts[a].isPrimary /\ a \notin Bank!PrimaryOf(m)}
        BY <2>4, <2>5, <3>1 DEF Bank!PrimaryOf
      <3>3. Bank!PrimaryOf(m)' = {}
        <4>1. \A a \in Bank!ActiveOf(m) : accounts[a].isPrimary => a \in Bank!PrimaryOf(m)
          BY DEF Bank!PrimaryOf
        <4>2. QED
          BY <3>2, <4>1
      <3>4. ASSUME NEW k, k # m
            PROVE  Bank!PrimaryOf(k)' = Bank!PrimaryOf(k)
        <4>1. Bank!ActiveOf(k) \cap Bank!PrimaryOf(m) = {}
          BY <3>1, <3>4 DEF Bank!PrimaryOf
        <4>2. QED
          BY <3>2, <4>1 DEF Bank!PrimaryOf
      <3>5. QED
        BY <3>3, <3>4
    <2>7. /\ t.op = "create" => NewAccount(t)
          /\ t.op = "setPrimary" => ChangedRow(t)
      BY <2>1 DEF OrderlyInv, HandlerOrderly, HoldsRow
    <2>8. OnePrimary' /\ Bank!PrimaryIsActive' /\ Bank!NoDuplicateNumber'
      BY <2>3, <2>4 DEF OrderlyInv, OnePrimary, Bank!PrimaryIsActive, Bank!NoDuplicateNumber, Bank!IsActive
    <2>9. t.entity.isPrimary
      BY <2>1, <2>7 DEF NewAccount, ChangedRow, Bank!Account
    <2>10. ASSUME ~interrupted', NEW k \in Holders, Bank!ActiveOf(k)' # {}
           PROVE  Bank!PrimaryOf(k)' # {} \/ Naming(next, k)
      <3>1. CASE k = m
        BY <2>0, <2>1, <2>2, <2>9, <3>1 DEF Naming
      <3>2. CASE k # m
        <4>1. \A g \in Handlers : ~Naming(accountTxn[g], k)
          BY <2>0, <2>1, <3>2 DEF OneUnderWay, Naming
        <4>2. QED
          BY <2>1, <2>5, <2>6, <2>10, <3>2, <4>1 DEF OrderlyInv, PrimaryComes
      <3>3. QED
        BY <3>1, <3>2
    <2>11. t.op = "create" => NewAccount(next)'
      <3>1. \A a \in Bank!ActiveOf(m) : accounts'[a].number = accounts[a].number
        BY <2>4 DEF Bank!ActiveOf
      <3>2. QED
        BY <2>0, <2>2, <2>5, <2>6, <2>7, <2>9, <3>1 DEF NewAccount
    <2>12. t.op = "setPrimary" => ChangedRow(next)'
      <3> SUFFICES ASSUME t.op = "setPrimary"
                   PROVE  ChangedRow(next)'
        OBVIOUS
      <3> DEFINE row == accounts[t.id]
      <3>1. /\ t.id \in DOMAIN accounts /\ row \in Bank!Account
            /\ row.status = "ACTIVE" /\ t.entity = [row EXCEPT !.isPrimary = TRUE] /\ ~t.promote
        BY <2>1, <2>7, BankFacts DEF ChangedRow
      <3> DEFINE after == accounts'[t.id]
      <3>2. /\ after \in Bank!Account /\ after.member = row.member /\ after.number = row.number
            /\ after.status = row.status /\ after.verified = row.verified
        BY <2>4, <3>1
      <3> HIDE DEF row, after
      <3>3. t.entity = [after EXCEPT !.isPrimary = TRUE]
        <4>1. /\ [after EXCEPT !.isPrimary = TRUE] \in Bank!Account
              /\ [row EXCEPT !.isPrimary = TRUE] \in Bank!Account
          BY <3>1, <3>2 DEF Bank!Account
        <4>2. QED
          BY <3>1, <3>2, <4>1, SameFields DEF Bank!Account
      <3>4. /\ next.id \in DOMAIN accounts' /\ after = accounts'[next.id]
            /\ after.status = "ACTIVE" /\ ~next.promote /\ next.stage = "saving"
            /\ next.entity = [after EXCEPT !.isPrimary = TRUE]
            /\ Bank!PrimaryOf(next.entity.member)' = {}
        BY <2>0, <2>2, <2>3, <2>6, <3>1, <3>2, <3>3 DEF after
      <3>5. QED
        BY <3>4 DEF ChangedRow
    <2>13. QED
      BY <2>1, <2>2, <2>8, <2>10, <2>11, <2>12, HandlerStep
  <1>4. ASSUME NEW h \in Handlers, Bank!Insert(h)
        PROVE  OrderlyInv'
    <2> DEFINE e == accountTxn[h].entity
               m == e.member
               new == Len(accounts) + 1
    <2>1. /\ accountTxn[h].stage = "inserting" /\ accountTxn[h].op = "create"
          /\ e \in Bank!Account /\ NewAccount(accountTxn[h])
          /\ accounts' = Append(accounts, e) /\ UNCHANGED interrupted
          /\ accountTxn' = [accountTxn EXCEPT ![h] = Bank!Idle]
      BY <1>4 DEF Bank!Insert, BankTypeInv, OrderlyInv, HandlerOrderly
    <2>2. /\ e.status = "ACTIVE"
          /\ \A a \in Bank!ActiveOf(m) : accounts[a].number.number # e.number.number
          /\ e.isPrimary => Bank!PrimaryOf(m) = {}
          /\ ~e.isPrimary => Bank!ActiveOf(m) # {}
      BY <2>1 DEF NewAccount
    <2>3. /\ DOMAIN accounts' = DOMAIN accounts \union {new}
          /\ new \notin DOMAIN accounts /\ accounts'[new] = e
          /\ \A a \in DOMAIN accounts : accounts'[a] = accounts[a]
      BY <2>1, BankFacts
    <2> HIDE DEF new, e
    <2>4. /\ \A k : Bank!ActiveOf(k)' = IF k = m THEN Bank!ActiveOf(k) \union {new} ELSE Bank!ActiveOf(k)
          /\ \A k : Bank!PrimaryOf(k)' = IF k = m /\ e.isPrimary THEN Bank!PrimaryOf(k) \union {new}
                                           ELSE Bank!PrimaryOf(k)
      <3>1. \A k : Bank!ActiveOf(k)' = IF k = m THEN Bank!ActiveOf(k) \union {new} ELSE Bank!ActiveOf(k)
        BY <2>2, <2>3 DEF Bank!ActiveOf, Bank!IsActive
      <3>2. \A k : Bank!ActiveOf(k) \subseteq DOMAIN accounts
        BY DEF Bank!ActiveOf
      <3>3. QED
        BY <2>3, <3>1, <3>2 DEF Bank!PrimaryOf
    <2>5. \A a \in DOMAIN accounts : accounts[a].isPrimary /\ accounts[a].member = m => a \in Bank!PrimaryOf(m)
      BY DEF OrderlyInv, Bank!PrimaryIsActive, Bank!PrimaryOf, Bank!ActiveOf
    <2>6. OnePrimary'
      BY <2>2, <2>3, <2>5 DEF OrderlyInv, OnePrimary
    <2>7. Bank!PrimaryIsActive'
      BY <2>2, <2>3 DEF OrderlyInv, Bank!PrimaryIsActive, Bank!IsActive
    <2>8. Bank!NoDuplicateNumber'
      BY <2>2, <2>3 DEF OrderlyInv, Bank!NoDuplicateNumber, Bank!IsActive, Bank!ActiveOf
    <2>9. ASSUME ~interrupted', NEW k \in Holders, Bank!ActiveOf(k)' # {}
          PROVE  Bank!PrimaryOf(k)' # {}
      <3>1. CASE k = m /\ e.isPrimary
        BY <2>4, <3>1
      <3>2. CASE ~(k = m /\ e.isPrimary)
        <4>1. \A g \in Handlers : ~Naming(accountTxn[g], k)
          BY <2>1, <3>2 DEF OneUnderWay, Naming, e
        <4>2. Bank!ActiveOf(k) # {}
          BY <2>2, <2>4, <2>9, <3>2
        <4>3. QED
          BY <2>1, <2>4, <2>9, <3>2, <4>1, <4>2 DEF OrderlyInv, PrimaryComes
      <3>3. QED
        BY <3>1, <3>2
    <2>10. QED
      BY <2>1, <2>6, <2>7, <2>8, <2>9, IdleType, HandlerStep
  <1>5. ASSUME NEW h \in Handlers, Bank!PromoteFind(h)
        PROVE  OrderlyInv'
    <2> DEFINE m == accountTxn[h].entity.member
               a == Bank!Oldest(Bank!ActiveOf(m))
    <2>1. /\ accountTxn[h].stage = "promoting" /\ Bank!PrimaryOf(m) = {}
          /\ UNCHANGED <<accounts, interrupted>>
      BY <1>5 DEF Bank!PromoteFind, OrderlyInv, HandlerOrderly
    <2>2. \A k \in Holders, g \in Handlers : Naming(accountTxn[g], k) => k = m
      BY <2>1 DEF OneUnderWay, Naming
    <2>3. CASE Bank!ActiveOf(m) = {}
      <3>1. accountTxn' = [accountTxn EXCEPT ![h] = Bank!Idle]
        BY <1>5, <2>3 DEF Bank!PromoteFind
      <3>2. ASSUME ~interrupted', NEW k \in Holders, Bank!ActiveOf(k)' # {}
            PROVE  Bank!PrimaryOf(k)' # {}
        BY <2>1, <2>2, <2>3, <3>2, SameRows DEF OrderlyInv, PrimaryComes
      <3>3. QED
        BY <2>1, <3>1, <3>2, IdleType, SameRows, HandlerStep DEF OrderlyInv
    <2>4. CASE Bank!ActiveOf(m) # {}
      <3>1. a \in Bank!ActiveOf(m)
        <4>1. Len(accounts) \in Nat /\ Bank!ActiveOf(m) \in SUBSET (1..Len(accounts))
          BY BankFacts DEF Bank!ActiveOf
        <4>2. QED
          BY <2>4, <4>1, OldestIsOne
      <3> DEFINE row == accounts[a]
                 e == [row EXCEPT !.isPrimary = TRUE]
                 next == Bank!Holding("saving", "remove", a, e)
      <3>2. accountTxn' = [accountTxn EXCEPT ![h] = next]
        BY <1>5, <2>4 DEF Bank!PromoteFind
      <3> HIDE DEF a
      <3>3. /\ a \in DOMAIN accounts /\ a \in Bank!Ids /\ row \in Bank!Account
            /\ row.status = "ACTIVE" /\ row.member = m
        BY <3>1, BankFacts DEF Bank!ActiveOf, Bank!IsActive, BankTypeInv, Bank!TypeOK, Bank!Ids
      <3> HIDE DEF row
      <3>4. e \in Bank!Account /\ e.member = m /\ e.isPrimary
        BY <3>3 DEF Bank!Account
      <3> HIDE DEF e
      <3>5. /\ next \in Bank!Transaction /\ next.stage = "saving" /\ next.op = "remove"
            /\ next.id = a /\ next.entity = e /\ ~next.promote
        BY <3>3, <3>4, HoldingTypes
      <3> HIDE DEF next
      <3>6. PICK held \in Bank!Transaction : held = next
        BY <3>5
      <3>7. ChangedRow(held)
        BY <2>1, <3>3, <3>4, <3>5, <3>6 DEF ChangedRow, e, row
      <3>8. ChangedRow(held)'
        BY <2>1, <3>7, SameRows DEF ChangedRow
      <3>9. ASSUME ~interrupted', NEW k \in Holders, Bank!ActiveOf(k)' # {}
            PROVE  Bank!PrimaryOf(k)' # {} \/ Naming(held, k)
        <4>1. Naming(held, m)
          BY <3>4, <3>5, <3>6 DEF Naming
        <4>2. QED
          BY <2>1, <2>2, <3>9, <4>1, SameRows DEF OrderlyInv, PrimaryComes
      <3>10. QED
        BY <2>1, <3>2, <3>5, <3>6, <3>8, <3>9, SameRows, HandlerStep DEF OrderlyInv
    <2>5. QED
      BY <2>3, <2>4
  <1>6. ASSUME NEW h \in Handlers, Bank!SaveSelect(h)
        PROVE  OrderlyInv'
    <2> DEFINE t == accountTxn[h]
    <2>1. /\ t.stage = "saving" /\ t \in Bank!Transaction /\ ChangedRow(t)
          /\ UNCHANGED <<accounts, interrupted>>
      BY <1>6, BankFacts DEF Bank!SaveSelect, OrderlyInv, HandlerOrderly, HoldsRow
    <2>2. PICK next \in Bank!Transaction :
             /\ accountTxn' = [accountTxn EXCEPT ![h] = next]
             /\ next.entity = t.entity /\ next.id = t.id /\ next.op = t.op /\ next.promote = t.promote
             /\ next.stage = "updating" /\ next.columns = Bank!Changed(t.entity, accounts[t.id])
      <3> DEFINE new == [t EXCEPT !.stage = "updating",
                                  !.columns = Bank!Changed(t.entity, accounts[t.id])]
      <3>1. accountTxn' = [accountTxn EXCEPT ![h] = new]
        BY <1>6, BankFacts DEF Bank!SaveSelect
      <3>2. /\ new.entity = t.entity /\ new.id = t.id /\ new.op = t.op /\ new.promote = t.promote
            /\ new.stage = "updating" /\ new.columns = Bank!Changed(t.entity, accounts[t.id])
        BY <2>1 DEF Bank!Transaction
      <3>3. accountTxn' \in [Handlers -> Bank!Transaction]
        BY BankTypes DEF BankTypeInv, Bank!TypeOK
      <3> HIDE DEF new
      <3>4. new \in Bank!Transaction
        BY <3>1, <3>3, BankFacts
      <3>5. QED
        BY <3>1, <3>2, <3>4
    <2>3. ChangedRow(next)
      BY <2>1, <2>2 DEF ChangedRow
    <2>4. ChangedRow(next)'
      BY <2>1, <2>3, SameRows DEF ChangedRow
    <2>5. ASSUME ~interrupted', NEW k \in Holders, Bank!ActiveOf(k)' # {}
          PROVE  Bank!PrimaryOf(k)' # {} \/ Naming(next, k)
      <3>1. \A g \in Handlers : Naming(accountTxn[g], k) => Naming(next, k)
        BY <2>1, <2>2 DEF OneUnderWay, Naming
      <3>2. QED
        BY <2>1, <2>5, <3>1, SameRows DEF OrderlyInv, PrimaryComes
    <2>6. QED
      BY <2>1, <2>2, <2>4, <2>5, SameRows, HandlerStep DEF OrderlyInv
  <1>7. ASSUME NEW h \in Handlers, Bank!SaveUpdate(h)
        PROVE  OrderlyInv'
    <2> DEFINE t == accountTxn[h]
    <2>1. /\ t.stage = "updating" /\ t.entity \in Bank!Account /\ ChangedRow(t)
          /\ UNCHANGED interrupted
      BY <1>7, BankFacts DEF Bank!SaveUpdate, OrderlyInv, HandlerOrderly, HoldsRow
    <2>2. PICK e \in Bank!Account, row \in Bank!Account, a \in DOMAIN accounts, m \in Holders :
             e = t.entity /\ a = t.id /\ row = accounts[a] /\ m = e.member
      BY <2>1, BankFacts DEF ChangedRow, Bank!Account
    <2>3. /\ row.status = "ACTIVE" /\ t.columns = Bank!Changed(e, row)
          /\ row.member = m /\ e.number = row.number
          /\ \/ /\ e.isPrimary /\ e.status = "ACTIVE"
                /\ Bank!PrimaryOf(m) = {} /\ ~t.promote
             \/ /\ ~e.isPrimary /\ e.status = "INACTIVE" /\ t.promote = row.isPrimary
             \/ /\ e.isPrimary = row.isPrimary /\ e.status = "ACTIVE" /\ ~t.promote
      BY <2>1, <2>2 DEF ChangedRow, Bank!Account
    <2>4. Bank!Written(e, row, t.columns) = e
      BY <2>3 DEF Bank!Written, Bank!Changed, Bank!Account
    <2>5. accounts' = [accounts EXCEPT ![a] = e]
      BY <1>7, <2>2, <2>4 DEF Bank!SaveUpdate
    <2>6. PICK next \in Bank!Transaction :
             /\ accountTxn' = [accountTxn EXCEPT ![h] = next]
             /\ IF t.promote THEN next.stage = "promoting" /\ next.entity = e ELSE next.stage = "idle"
      <3> DEFINE new == IF t.promote THEN Bank!Holding("promoting", "remove", None, e) ELSE Bank!Idle
      <3>1. accountTxn' = [accountTxn EXCEPT ![h] = new]
        BY <1>7, <2>2 DEF Bank!SaveUpdate
      <3>2. /\ new \in Bank!Transaction
            /\ IF t.promote THEN new.stage = "promoting" /\ new.entity = e ELSE new.stage = "idle"
        BY HoldingTypes, IdleType
      <3> HIDE DEF new
      <3>3. QED
        BY <3>1, <3>2
    <2>7. /\ DOMAIN accounts' = DOMAIN accounts /\ accounts'[a] = e
          /\ \A b \in DOMAIN accounts : b # a => accounts'[b] = accounts[b]
      BY <2>5
    <2>8. \A b \in DOMAIN accounts : accounts[b].isPrimary /\ accounts[b].member = m => b \in Bank!PrimaryOf(m)
      BY DEF OrderlyInv, Bank!PrimaryIsActive, Bank!PrimaryOf, Bank!ActiveOf
    <2>9. OnePrimary'
      BY <2>2, <2>3, <2>7, <2>8 DEF OrderlyInv, OnePrimary
    <2>10. Bank!PrimaryIsActive' /\ Bank!NoDuplicateNumber'
      BY <2>2, <2>3, <2>7 DEF OrderlyInv, Bank!PrimaryIsActive, Bank!NoDuplicateNumber, Bank!IsActive
    <2>11. \A k : /\ Bank!ActiveOf(k)' \subseteq Bank!ActiveOf(k)
                  /\ k # m => Bank!PrimaryOf(k)' = Bank!PrimaryOf(k)
      BY <2>2, <2>3, <2>7 DEF Bank!ActiveOf, Bank!PrimaryOf, Bank!IsActive
    <2>12. e.isPrimary => a \in Bank!PrimaryOf(m)'
      <3>1. e.isPrimary => e.status = "ACTIVE"
        BY <2>3
      <3>2. QED
        BY <2>2, <2>7, <3>1 DEF Bank!ActiveOf, Bank!PrimaryOf, Bank!IsActive
    <2>13. ~e.isPrimary /\ ~row.isPrimary => Bank!PrimaryOf(m)' = Bank!PrimaryOf(m)
      BY <2>2, <2>7 DEF Bank!ActiveOf, Bank!PrimaryOf, Bank!IsActive
    <2>14. t.promote => Bank!PrimaryOf(m)' = {}
      BY <2>2, <2>3, <2>7 DEF OrderlyInv, OnePrimary, Bank!ActiveOf, Bank!PrimaryOf, Bank!IsActive
    <2>15. ASSUME ~interrupted', NEW k \in Holders, Bank!ActiveOf(k)' # {}
           PROVE  Bank!PrimaryOf(k)' # {} \/ Naming(next, k)
      <3>1. \A g \in Handlers : Naming(accountTxn[g], k) => k = m /\ e.isPrimary
        BY <2>1, <2>2 DEF OneUnderWay, Naming
      <3>2. Bank!PrimaryOf(k) # {} \/ (k = m /\ e.isPrimary)
        BY <2>1, <2>11, <2>15, <3>1 DEF OrderlyInv, PrimaryComes
      <3>3. CASE k # m
        BY <2>11, <3>2, <3>3
      <3>4. CASE k = m /\ e.isPrimary
        BY <2>12, <3>4
      <3>5. CASE k = m /\ ~e.isPrimary /\ t.promote
        BY <2>2, <2>6, <3>5 DEF Naming
      <3>6. CASE k = m /\ ~e.isPrimary /\ ~t.promote
        BY <2>3, <2>13, <3>2, <3>6
      <3>7. QED
        BY <3>3, <3>4, <3>5, <3>6
    <2>16. next.stage = "promoting" => Bank!PrimaryOf(next.entity.member)' = {}
      BY <2>2, <2>6, <2>14
    <2>17. next.stage \in {"promoting", "idle"}
      BY <2>6
    <2>18. QED
      BY <2>1, <2>6, <2>9, <2>10, <2>15, <2>16, <2>17, HandlerStep
  <1>8. ASSUME NEW h \in Handlers, Bank!Interrupt(h)
        PROVE  OrderlyInv'
    BY <1>8, IdleType, SameRows, HandlerStep DEF Bank!Interrupt, OrderlyInv
  <1>9. CASE UNCHANGED <<accounts, accountTxn, interrupted>>
    <2>1. \A h \in Handlers : HandlerOrderly(h)' <=> HandlerOrderly(h)
      BY <1>9, SameRows DEF HandlerOrderly, HoldsRow, NewAccount, ChangedRow
    <2>2. PrimaryComes' <=> PrimaryComes
      BY <1>9, SameRows DEF PrimaryComes, Naming
    <2>3. QED
      BY <1>9, <2>1, <2>2, SameRows DEF OrderlyInv
  <1>10. (\E m \in Holders, a \in DOMAIN accounts : Bank!Payout(m, a)) \/ UNCHANGED Bank!vars
            => UNCHANGED <<accounts, accountTxn, interrupted>>
    BY DEF Bank!Payout, Bank!vars
  <1>11. QED
    BY <1>1, <1>2, <1>3, <1>4, <1>5, <1>6, <1>7, <1>8, <1>9, <1>10 DEF Bank!Next

\* What the invariant says at any moment.
LEMMA OrderlyIsConsistent ==
    ASSUME OrderlyInv
    PROVE  Bank!AccountsConsistent
  <1>1. Bank!AtMostOnePrimary
    BY DEF OrderlyInv, OnePrimary, Bank!AtMostOnePrimary, Bank!PrimaryOf, Bank!ActiveOf
  <1>2. Bank!PrimaryChosen
    BY DEF OrderlyInv, PrimaryComes, Naming, Bank!PrimaryChosen
  <1>3. QED
    BY <1>1, <1>2 DEF OrderlyInv, Bank!AccountsConsistent

\* One handler of accounts at a time, ended after any statement, for any
\* members and numbers: one primary account per member, never a removed one;
\* one as soon as there are accounts, unless a handler was cut short; and no
\* number twice among the active accounts of a member.
THEOREM PrimaryAccounts ==
    ASSUME MaxAccounts \in Nat \ {0}
    PROVE  AccountsSpec => []AccountsConsistent
  <1> DEFINE Inv == BankTypeInv /\ (inTurn => OneUnderWay /\ OrderlyInv)
  <1>1. AccountsInit => Inv
    <2> SUFFICES ASSUME AccountsInit PROVE Inv
      OBVIOUS
    <2>1. BankTypeInv /\ OrderlyInv
      BY BankInit DEF BankInv, AccountsInit
    <2>2. OneUnderWay
      BY IdleType DEF AccountsInit, Bank!Init, OneUnderWay
    <2>3. QED
      BY <2>1, <2>2
  <1>2. Inv /\ [AccountsNext]_<<accountVars, inTurn>> => Inv'
    <2> SUFFICES ASSUME Inv, [AccountsNext]_<<accountVars, inTurn>> PROVE Inv'
      OBVIOUS
    <2>1. [Bank!Next]_Bank!vars /\ inTurn' = inTurn /\ (inTurn /\ OneUnderWay => OneUnderWay')
      BY DEF AccountsNext, accountVars, Bank!vars, OneUnderWay
    <2>2. BankTypeInv'
      BY <2>1, BankTypes
    <2>3. inTurn' => OneUnderWay' /\ OrderlyInv'
      BY <2>1, OrderlyStep
    <2>4. QED
      BY <2>2, <2>3
  <1>3. Inv => AccountsConsistent
    BY OrderlyIsConsistent DEF BankTypeInv, AccountsConsistent
  <1>4. QED
    BY <1>1, <1>2, <1>3, PTL DEF AccountsSpec
=============================================================================
