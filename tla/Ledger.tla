------------------------------- MODULE Ledger -------------------------------
(***************************************************************************)
(* What the wallet promises, whoever moves the coins (payment-ledger.md,   *)
(* core principles): wallet_transaction explains every balance.  A commit  *)
(* adds ledger rows, at most one per member and none whose source was      *)
(* posted before, and moves each balance by exactly the amount of its row, *)
(* never below zero.                                                       *)
(*                                                                         *)
(* There is one exception, as narrow as REPEATABLE READ and save() leave   *)
(* it: a row that takes a wallet back to a balance which a transaction     *)
(* under way has read earlier may leave the wallet as it is.               *)
(***************************************************************************)
EXTENDS Integers

CONSTANTS Members, NoWallet

VARIABLES
    balance,
    rows,
    read     \* read[m]: the balances of m that transactions under way have read

Held(m) == IF balance[m] = NoWallet THEN 0 ELSE balance[m]

Source(e) == <<e.member, e.type, e.source, e.id>>

Init ==
    /\ balance = [m \in Members |-> NoWallet]
    /\ rows = {}
    /\ read = [m \in Members |-> {}]

\* Transactions begin to read, and end.
Reads == /\ DOMAIN read' = Members
         /\ \A m \in Members : read'[m] \subseteq read[m] \union {balance[m]}

Open(m) ==
    /\ balance[m] = NoWallet
    /\ balance' = [balance EXCEPT ![m] = 0]
    /\ UNCHANGED rows

\* The row e moves its balance, or hides behind an earlier read of the sum.
Moves(e) ==
    LET sum == Held(e.member) + e.coins IN
    /\ sum >= 0
    /\ \/ balance'[e.member] = sum
       \/ /\ balance[e.member] # NoWallet /\ sum \in read[e.member]
          /\ balance'[e.member] = balance[e.member]

\* One transaction posts the rows of S.
Commit(S) ==
    /\ S # {}
    /\ \A e, f \in S : e.member = f.member => e = f
    /\ \A e \in S : Moves(e) /\ \A f \in rows : Source(f) # Source(e)
    /\ DOMAIN balance' = Members
    /\ \A m \in Members : (\A e \in S : e.member # m) => balance'[m] = balance[m]
    /\ rows' = rows \union S

Next ==
    /\ Reads
    /\ \/ \E m \in Members : Open(m)
       \/ Commit(rows' \ rows)
       \/ UNCHANGED <<balance, rows>>

Spec == Init /\ [][Next]_<<balance, rows, read>>
=============================================================================
