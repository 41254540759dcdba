-------------------------- MODULE WithdrawAccounts --------------------------
(***************************************************************************)
(* The bank accounts a member is paid out to (withdraw-account.service.ts) *)
(* and what a withdraw request reads of them (withdraw.service.ts create). *)
(*                                                                         *)
(* No handler of the service runs in a transaction.  create and setPrimary *)
(* take the primary flag off the other accounts before they give it to     *)
(* theirs; remove deactivates the account first and promotes the oldest    *)
(* remaining one afterwards; verifyByAdmin saves what it loaded.  A        *)
(* handler is one action per statement, and may end after any of them.     *)
(*                                                                         *)
(* A number is stored encrypted, by an earlier release in another format;  *)
(* the masked number and the bank are left out.  Accounts are in the order *)
(* of their creation.                                                      *)
(***************************************************************************)
EXTENDS EntityRows, Naturals, Sequences

CONSTANTS
    Members,      \* members that exist
    Numbers,      \* account numbers of supported banks
    Handlers,     \* handlers under way at a time
    MaxAccounts,  \* bound on account rows
    None

VARIABLES
    accounts,     \* the withdraw_account table, by id
    txn,          \* per handler: the statement it is at and the entity it holds
    verified,     \* ids of the accounts an administrator has verified so far
    payouts,      \* ids of the accounts accepted requests are paid to
    interrupted   \* whether a handler has ended between two statements

vars == <<accounts, txn, verified, payouts, interrupted>>

Stored == [format: {"v1", "legacy"}, number: Numbers]

Account == [member: Members, number: Stored, status: {"ACTIVE", "INACTIVE"},
            isPrimary: BOOLEAN, verified: BOOLEAN]

Ids == 1..MaxAccounts
NoEntity == [status |-> None]
Idle == [stage |-> "idle", op |-> None, id |-> None, entity |-> NoEntity,
         columns |-> {}, promote |-> FALSE]

Transaction ==
    [stage: {"idle", "resetting", "inserting", "saving", "updating", "promoting"},
     op: {"create", "setPrimary", "remove", "verify", None},
     id: Ids \union {None},
     entity: Account \union {NoEntity},
     columns: SUBSET {"status", "isPrimary", "verified"},
     promote: BOOLEAN]

TypeOK ==
    /\ accounts \in Seq(Account) /\ Len(accounts) <= MaxAccounts
    /\ txn \in [Handlers -> Transaction]
    /\ \A h \in Handlers : txn[h].stage \in {"saving", "updating"} =>
          txn[h].id \in DOMAIN accounts /\ txn[h].entity \in Account
    /\ verified \subseteq Ids
    /\ payouts \subseteq Ids
    /\ interrupted \in BOOLEAN

\* An account that an earlier release has left.
Earlier(m, number) ==
    [member |-> m, number |-> [format |-> "legacy", number |-> number],
     status |-> "ACTIVE", isPrimary |-> TRUE, verified |-> FALSE]

Init ==
    /\ accounts \in {<<>>} \union {<<Earlier(m, n)>> : m \in Members, n \in Numbers}
    /\ txn = [h \in Handlers |-> Idle]
    /\ verified = {}
    /\ payouts = {}
    /\ interrupted = FALSE

-----------------------------------------------------------------------------
IsActive(a) == accounts[a].status = "ACTIVE"
ActiveOf(m) == {a \in DOMAIN accounts : accounts[a].member = m /\ IsActive(a)}
PrimaryOf(m) == {a \in ActiveOf(m) : accounts[a].isPrimary}

\* encryptAccountNumber writes the current format, with a nonce of its own, so
\* that two stored numbers are compared by decrypting them.
Encrypted(number) == [format |-> "v1", number |-> number]

\* decryptAccountNumber reads both formats.
Decrypted(stored) == stored.number

\* ORDER BY created_at ASC, first row.
Oldest(S) == CHOOSE a \in S : \A b \in S : a <= b

Start(h, next) ==
    /\ txn[h].stage = "idle"
    /\ txn' = [txn EXCEPT ![h] = next]
    /\ UNCHANGED <<accounts, verified, payouts, interrupted>>

\* An entity loaded as account a, changed in memory and about to be saved.
Holding(stage, op, a, entity) ==
    [Idle EXCEPT !.stage = stage, !.op = op, !.id = a, !.entity = entity]

\* Mutant: a removed account of the same number passes its verification on.
CreateFindInherits(h, m, number, wantsPrimary) ==
    LET primary == wantsPrimary \/ ActiveOf(m) = {} IN
    /\ Len(accounts) < MaxAccounts
    /\ \A a \in ActiveOf(m) : Decrypted(accounts[a].number) # number
    /\ Start(h, Holding(IF primary /\ ActiveOf(m) # {} THEN "resetting" ELSE "inserting",
                        "create", None,
                        [member |-> m, number |-> Encrypted(number), status |-> "ACTIVE",
                         isPrimary |-> primary,
                         verified |-> \E a \in DOMAIN accounts :
                                         Decrypted(accounts[a].number) = number /\ accounts[a].verified]))

\* create: list the active accounts, refuse a number that is among them.
CreateFind(h, m, number, wantsPrimary) ==
    LET primary == wantsPrimary \/ ActiveOf(m) = {} IN
    /\ Len(accounts) < MaxAccounts
    /\ \A a \in ActiveOf(m) : Decrypted(accounts[a].number) # number
    /\ Start(h, Holding(IF primary /\ ActiveOf(m) # {} THEN "resetting" ELSE "inserting",
                        "create", None,
                        [member |-> m, number |-> Encrypted(number), status |-> "ACTIVE",
                         isPrimary |-> primary, verified |-> FALSE]))

\* setPrimary: load the account ...
SetPrimaryFind(h, a) ==
    /\ IsActive(a)
    /\ Start(h, Holding("resetting", "setPrimary", a,
                        [accounts[a] EXCEPT !.isPrimary = TRUE]))

\* ... and take the flag off the others (create and setPrimary).
Reset(h) ==
    /\ txn[h].stage = "resetting"
    /\ accounts' = [a \in DOMAIN accounts |->
                      [accounts[a] EXCEPT !.isPrimary =
                         @ /\ a \notin PrimaryOf(txn[h].entity.member)]]
    /\ txn' = [txn EXCEPT ![h].stage =
                 IF txn[h].op = "create" THEN "inserting" ELSE "saving"]
    /\ UNCHANGED <<verified, payouts, interrupted>>

Insert(h) ==
    /\ txn[h].stage = "inserting"
    /\ Len(accounts) < MaxAccounts
    /\ accounts' = Append(accounts, txn[h].entity)
    /\ txn' = [txn EXCEPT ![h] = Idle]
    /\ UNCHANGED <<verified, payouts, interrupted>>

\* Mutant: nobody takes the place of a removed primary account.
RemoveFindNoPromotion(h, a) ==
    /\ IsActive(a)
    /\ Start(h, Holding("saving", "remove", a,
                        [accounts[a] EXCEPT !.status = "INACTIVE", !.isPrimary = FALSE]))

\* remove: deactivate the account, and remember whether it was primary.
RemoveFind(h, a) ==
    /\ IsActive(a)
    /\ Start(h, [Holding("saving", "remove", a,
                         [accounts[a] EXCEPT !.status = "INACTIVE", !.isPrimary = FALSE])
                 EXCEPT !.promote = accounts[a].isPrimary])

\* remove of a primary account: the oldest remaining one takes its place.
PromoteFind(h) ==
    LET m == txn[h].entity.member
        next == Oldest(ActiveOf(m)) IN
    /\ txn[h].stage = "promoting"
    /\ txn' = [txn EXCEPT ![h] =
                 IF ActiveOf(m) = {} THEN Idle
                 ELSE Holding("saving", "remove", next,
                              [accounts[next] EXCEPT !.isPrimary = TRUE])]
    /\ UNCHANGED <<accounts, verified, payouts, interrupted>>

VerifyFind(h, a) ==
    /\ IsActive(a)
    /\ Start(h, Holding("saving", "verify", a, [accounts[a] EXCEPT !.verified = TRUE]))

-----------------------------------------------------------------------------
\* save(): the SELECT ...
SaveSelect(h) ==
    /\ txn[h].stage = "saving"
    /\ txn' = [txn EXCEPT ![h].stage = "updating",
                          ![h].columns = Changed(txn[h].entity, accounts[txn[h].id])]
    /\ UNCHANGED <<accounts, verified, payouts, interrupted>>

\* ... and the UPDATE, after which remove goes on to the next primary account.
SaveUpdate(h) ==
    LET t == txn[h] IN
    /\ t.stage = "updating"
    /\ accounts' = [accounts EXCEPT ![t.id] = Written(t.entity, @, t.columns)]
    /\ txn' = [txn EXCEPT ![h] =
                 IF t.promote THEN Holding("promoting", "remove", None, t.entity) ELSE Idle]
    /\ verified' = IF t.op = "verify" THEN verified \union {t.id} ELSE verified
    /\ UNCHANGED <<payouts, interrupted>>

\* A failed statement or the end of the process: what was written stays.
Interrupt(h) ==
    /\ txn[h].stage # "idle"
    /\ txn' = [txn EXCEPT ![h] = Idle]
    /\ interrupted' = TRUE
    /\ UNCHANGED <<accounts, verified, payouts>>

\* A withdraw request reads the account it names, or the primary one, with one
\* SELECT; the coins are the business of Withdrawals.
Payout(m, a) ==
    /\ a \in ActiveOf(m) /\ accounts[a].verified
    /\ payouts' = payouts \union {a}
    /\ UNCHANGED <<accounts, txn, verified, interrupted>>

Next ==
    \/ \E h \in Handlers :
          \/ \E m \in Members, number \in Numbers, p \in BOOLEAN :
                CreateFind(h, m, number, p)
          \/ \E a \in DOMAIN accounts :
                SetPrimaryFind(h, a) \/ RemoveFind(h, a) \/ VerifyFind(h, a)
          \/ Reset(h) \/ Insert(h) \/ PromoteFind(h)
          \/ SaveSelect(h) \/ SaveUpdate(h) \/ Interrupt(h)
    \/ \E m \in Members, a \in DOMAIN accounts : Payout(m, a)

Spec == Init /\ [][Next]_vars

-----------------------------------------------------------------------------
\* One handler at a time, ended after any statement (create, setPrimary,
\* remove): a member never has two primary accounts, for a request that names
\* none is paid to "the" primary one.
AtMostOnePrimary == \A m \in Members : \A a, b \in PrimaryOf(m) : a = b

\* The flag is never left on an account that was removed.
PrimaryIsActive == \A a \in DOMAIN accounts : accounts[a].isPrimary => IsActive(a)

\* Between handlers, as long as none was cut short, a member with accounts has
\* a primary one (the "first account is primary" of create, the promotion of
\* remove).
PrimaryChosen ==
    (~interrupted /\ \A h \in Handlers : txn[h].stage = "idle") =>
        \A m \in Members : ActiveOf(m) # {} => PrimaryOf(m) # {}

\* create refuses the number of an active account of the member, in whichever
\* format it is stored; no other operation brings a second one about.
NoDuplicateNumber ==
    \A a, b \in DOMAIN accounts :
        (IsActive(a) /\ IsActive(b) /\ accounts[a].member = accounts[b].member
          /\ accounts[a].number.number = accounts[b].number.number) => a = b

\* What one handler at a time leaves, all together.
AccountsConsistent ==
    AtMostOnePrimary /\ PrimaryIsActive /\ PrimaryChosen /\ NoDuplicateNumber

\* Whatever overlaps: coins are paid out to an account only after an
\* administrator has verified this very row; a number registered again after
\* its removal is a new row and needs a new verification.
PayoutsAreVerified == payouts \subseteq verified

\* A removed account stays removed.
RemovedForGood ==
    [][\A a \in DOMAIN accounts : ~IsActive(a) => ~IsActive(a)']_vars
=============================================================================
