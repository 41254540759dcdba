---------------------------- MODULE MCWithdrawals ----------------------------
(***************************************************************************)
(* Withdraw requests, and the accounts they are paid to.                   *)
(*                                                                         *)
(* Requests: one member, two requests of 10 and 20 coins, an EARN and a    *)
(* CHARGE row of other services that bring 20 and 10 coins, and a request  *)
(* of 15 coins that the coin unit of 10 does not let through.              *)
(*                                                                         *)
(* The two services meet in one SELECT (WithdrawAccounts!Payout), so every *)
(* behaviour is about one of them, as "scene" says, and the other rests:   *)
(* their states add up instead of multiplying.                             *)
(***************************************************************************)
EXTENDS PayoutAccounts, TLC

CONSTANTS
    m1, r1, r2, r3, room, order,
    a1, a2, b,       \* members with accounts
    n1, n2, n,       \* numbers of accounts
    g, h1, h2        \* handlers of account requests

VARIABLE scene

MCSourceIds == {r1, r2, r3, room, order}
MCRequester == [r \in Requests |-> m1]
MCRequestCoins == r1 :> 10 @@ r2 :> 20 @@ r3 :> 15
MCEarnings ==
    {[member |-> m1, type |-> "EARN", source |-> "CHAT_PAYMENT",
      id |-> room, coins |-> 20],
     [member |-> m1, type |-> "CHARGE", source |-> "COIN_ORDER",
      id |-> order, coins |-> 10]}

\* Two members, two numbers, one request about accounts at a time.
Serial ==
    INSTANCE WithdrawAccounts
    WITH txn <- accountTxn, Members <- {a1, a2}, Numbers <- {n1, n2},
         Handlers <- {g}, MaxAccounts <- 3

\* One member, one number, two requests at a time.
Overlap ==
    INSTANCE WithdrawAccounts
    WITH txn <- accountTxn, Members <- {b}, Numbers <- {n},
         Handlers <- {h1, h2}, MaxAccounts <- 2

\* Accounts of earlier releases are those of the members of the scene.
MCInit ==
    /\ Init
    /\ AccountsInit
    /\ scene \in {"requests", "accounts", "overlapping accounts"}
    /\ inTurn = (scene # "overlapping accounts")
    /\ \A a \in DOMAIN accounts :
          IF inTurn THEN accounts[a].member \in {a1, a2} /\ accounts[a].number.number \in {n1, n2}
          ELSE accounts[a].member = b /\ accounts[a].number.number = n

\* Accounts may have reached their bound; requests must not come to a halt.
Rest == scene # "requests" /\ UNCHANGED <<vars, accountVars>>

MCNext ==
    /\ UNCHANGED <<scene, inTurn>>
    /\ \/ scene = "requests" /\ Next /\ UNCHANGED accountVars
       \/ scene = "accounts" /\ Serial!Next /\ UNCHANGED vars
       \/ scene = "overlapping accounts" /\ Overlap!Next /\ UNCHANGED vars
       \/ Rest

MCSpec == MCInit /\ [][MCNext]_<<vars, accountVars, inTurn, scene>>

Symmetry ==
    Permutations({a1, a2}) \union Permutations({n1, n2}) \union Permutations({h1, h2})
=============================================================================
