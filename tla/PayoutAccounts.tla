--------------------------- MODULE PayoutAccounts ---------------------------
(***************************************************************************)
(* Withdraw requests beside the accounts they are paid to, and what the    *)
(* handlers of accounts promise: some of it whatever overlaps, some of it  *)
(* as long as an administrator's and a member's request about accounts is  *)
(* sent after the answer to the one before.  Nothing in the service        *)
(* enforces this order; a behaviour has it or not, as "inTurn" says.       *)
(***************************************************************************)
EXTENDS Withdrawals

CONSTANTS
    Holders,      \* members with accounts
    Numbers, Handlers, MaxAccounts

VARIABLES
    accounts, accountTxn, verified, payouts, interrupted,
    inTurn        \* whether requests about accounts wait for each other

accountVars == <<accounts, accountTxn, verified, payouts, interrupted>>

Bank == INSTANCE WithdrawAccounts WITH txn <- accountTxn, Members <- Holders

\* At most one handler is under way.
OneUnderWay ==
    \A g, h \in Handlers :
        accountTxn[g].stage # "idle" /\ accountTxn[h].stage # "idle" => g = h

AccountsInit == Bank!Init /\ inTurn \in BOOLEAN

AccountsNext == Bank!Next /\ UNCHANGED inTurn /\ (inTurn => OneUnderWay')

AccountsSpec == AccountsInit /\ [][AccountsNext]_<<accountVars, inTurn>>

-----------------------------------------------------------------------------
\* One handler of accounts at a time, ended after any statement (create,
\* setPrimary, remove): a member has one primary account, for a request that
\* names none is paid to "the" primary one, and it was not removed; between
\* handlers, as long as none was cut short, there is one.  create refuses the
\* number of an active account, in whichever format it is stored.
AccountsConsistent == Bank!TypeOK /\ (inTurn => Bank!AccountsConsistent)

\* Whatever overlaps: coins are paid out to an account only after an
\* administrator has verified this very row (verifyByAdmin, Payout).
PayoutsAreVerified == Bank!PayoutsAreVerified
=============================================================================
