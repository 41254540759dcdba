-------------------------- MODULE WalletStoreProofs --------------------------
(***************************************************************************)
(* Lemmas about the shared wallet and ledger operations, for the proofs of *)
(* the services built on them.                                             *)
(***************************************************************************)
EXTENDS WalletStore, TLAPS

\* The effect of an INSERT on what is posted.
LEMMA InsertEntryPosts ==
    ASSUME NEW e, InsertEntry(e), NEW m, NEW type, NEW source, NEW id
    PROVE  Posted(m, type, source, id)' <=>
               Posted(m, type, source, id) \/ DedupKey(e) = <<m, type, source, id>>
  BY DEF InsertEntry, Posted

\* A posting keeps the types of the store.
LEMMA PostTypes ==
    ASSUME StoreTypeOK, NEW e \in Entry, NEW snap, Post(e, snap)
    PROVE  /\ balance' \in [Members -> Int \union {NoWallet}]
           /\ ledger' \subseteq Entry
           /\ ledgerTotal' \in [Members -> Int]
  BY DEF StoreTypeOK, Post, SaveBalance, InsertEntry, Coins, Entry

\* A posting moves the balance of its member by the amount of the row or not at
\* all, and no other balance.
LEMMA PostBalance ==
    ASSUME StoreTypeOK, NullAssumption, NEW e \in Entry, NEW snap, Post(e, snap)
    PROVE  /\ Coins(e.member)' \in {Coins(e.member), Coins(e.member) + e.coins}
           /\ \A m \in Members \ {e.member} : balance'[m] = balance[m]
  BY DEF StoreTypeOK, NullAssumption, Post, SaveBalance, Coins, Entry

\* It leaves its balance alone only when the snapshot shows the new one already.
LEMMA PostExact ==
    ASSUME StoreTypeOK, NullAssumption, NEW e \in Entry, NEW snap, Post(e, snap)
    PROVE  \/ balance'[e.member] = Coins(e.member) + e.coins
           \/ /\ balance[e.member] # NoWallet /\ balance' = balance
              /\ snap # NoSnapshot /\ snap = Coins(e.member) + e.coins
  <1> DEFINE m == e.member
             new == Coins(m) + e.coins
  <1>1. m \in Members /\ balance \in [Members -> Int \union {NoWallet}]
    BY DEF Entry, StoreTypeOK
  <1>2. balance' = IF balance[m] # NoWallet /\ Seen(m, snap) = new
                   THEN balance ELSE [balance EXCEPT ![m] = new]
    BY DEF Post, SaveBalance
  <1>3. CASE balance[m] # NoWallet /\ Seen(m, snap) = new
    BY <1>1, <1>2, <1>3 DEF Seen
  <1>4. CASE ~(balance[m] # NoWallet /\ Seen(m, snap) = new)
    BY <1>1, <1>2, <1>4
  <1>5. QED
    BY <1>3, <1>4

\* A posted row is new.
LEMMA PostAddsOne ==
    ASSUME NEW e, NEW snap, Post(e, snap)
    PROVE  ledger' = ledger \union {e} /\ ledger' \ ledger = {e}
  BY DEF Post, InsertEntry, Posted, DedupKey
=============================================================================
