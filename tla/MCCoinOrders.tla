---------------------------- MODULE MCCoinOrders ----------------------------
(***************************************************************************)
(* Small instances of CoinOrders.  Two orders of 2 coins of one member, a  *)
(* chat payment of 2 coins, and payments k1, k2 (order o1) and k3 (order   *)
(* o2); a run takes as many of each as it needs.  k2 is of a wrong amount  *)
(* where MCWrongAmount is the amounts.  Workers are interchangeable.       *)
(***************************************************************************)
EXTENDS CoinOrders, FiniteSets, TLC

CONSTANTS m1, o1, o2, p1, p2, k1, k2, k3, room

MCSourceIds == {o1, o2, room}

MCOwner == [o \in Orders |-> m1]
MCCoinAmount == [o \in Orders |-> 2]
MCAmount == [o \in Orders |-> 10]
MCProduct == o1 :> p1 @@ o2 :> p2
MCSameProduct == o1 :> p1 @@ o2 :> p1
MCKeyOrder == [k \in Keys |-> IF k = k3 THEN o2 ELSE o1]
MCKeyAmount == [k \in Keys |-> 10]
MCWrongAmount == [k \in Keys |-> IF k = k2 THEN 11 ELSE 10]

\* payChatRoom by the member: 2 coins leave the wallet.
MCSpend == {[member |-> m1, type |-> "USE", source |-> "CHAT_PAYMENT",
             id |-> room, coins |-> -2]}

Symmetry == Permutations(Workers)

Busy == {w \in Workers : txn[w].stage # "idle"}

\* One order: three handlers at a time, three payments, coins are spent.  Two
\* orders: two handlers, and the payment of the wrong amount is left alone.
MCNext ==
    /\ Next
    /\ \/ orders'[o2].status = "NONE"
       \/ /\ Cardinality(Busy') <= 2
          /\ \A w \in Busy' : txn'[w].key # k2
          /\ toss'[k2] = "IN_PROGRESS"
          /\ orders[o2].status # "NONE" =>
                \A k \in Keys : toss'[k] # toss[k] => "DONE" \in {toss[k], toss'[k]}

\* What the safety properties are about: the deliveries of Toss are not.
MCView == <<storeVars, orders, txn, toss, late>>

MCSpec == Init /\ [][MCNext]_vars

\* For the liveness run: of the steps that no fairness is about, only those that
\* get something done.  A second order comes with no spends, no voids and no lost events.
LiveBegin(w) ==
    \/ \E k \in Keys : orders[KeyOrder[k]].status = "PENDING" /\ ConfirmBegin(w, KeyOrder[k], k)
    \/ \E o \in Orders : orders[o].status = "COMPLETED" /\ CancelBegin(w, o)
    \/ \E k \in Keys : (events[k] = "due" \/ Busy = {}) /\ WebhookFetch(w, k)

LiveNext ==
    /\ \/ \E w \in Workers : LiveBegin(w) \/ Advance(w)
       \/ \E w \in Workers : Busy = {w} /\ Abort(w)
       \/ Environment
    /\ \/ orders'[o2].status = "NONE"
       \/ /\ \A e \in ledger' : e.source = "COIN_ORDER"
          /\ \A k \in Keys : events'[k] # "lost"
          /\ orders[o2].status # "NONE" =>
                \A k \in Keys : toss'[k] # toss[k] => "DONE" \in {toss[k], toss'[k]}

LiveSpec == Init /\ [][LiveNext]_vars /\ Fairness
=============================================================================
