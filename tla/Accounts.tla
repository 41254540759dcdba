------------------------------ MODULE Accounts ------------------------------
(***************************************************************************)
(* What stands around a member, side by side: sessions, the codes and      *)
(* passwords mailed (Mails), and the member rows (Registry); and what the  *)
(* handlers of the last two promise.  Some of it holds whatever overlaps,  *)
(* some as long as a request is sent after the answer to the one before.   *)
(* Nothing in the service enforces this order; a behaviour has it or not,  *)
(* as "inTurn" says.                                                       *)
(***************************************************************************)
EXTENDS Sessions

CONSTANTS
    Workers,     \* handlers of mails or member rows under way at a time
    Emails, Registered, MaxCodes, MaxPasswords,
    Nicknames, MaxMembers, MaxUploads, NoRow

VARIABLES
    storedCodes, codes, passwords, password, known, spent, mailLost, mailTxn,
    members, created, aged, profiles, uploads, objects, memberTxn, cutShort,
    inTurn       \* whether requests wait for each other

mailVars == <<storedCodes, codes, passwords, password, known, spent, mailLost, mailTxn>>
memberVars == <<members, created, aged, profiles, uploads, objects, memberTxn, cutShort>>

Mails ==
    INSTANCE EmailVerification
    WITH stored <- storedCodes, txn <- mailTxn, Handlers <- Workers

Registry == INSTANCE Members WITH txn <- memberTxn, Handlers <- Workers

\* At most one handler is under way.
OneUnderWay(state) ==
    \A v, w \in Workers : state[v].stage # "idle" /\ state[w].stage # "idle" => v = w

MailSpec ==
    /\ Mails!Init /\ inTurn \in BOOLEAN
    /\ [][Mails!Next /\ UNCHANGED inTurn /\ (inTurn => OneUnderWay(mailTxn'))]_<<mailVars, inTurn>>

MemberSpec ==
    /\ Registry!Init /\ inTurn \in BOOLEAN
    /\ [][Registry!Next /\ UNCHANGED inTurn
            /\ (inTurn => OneUnderWay(memberTxn'))]_<<memberVars, inTurn>>

-----------------------------------------------------------------------------
\* A code whose verification has been answered is refused from then on
\* (verifyCode), unless another request had read it before.  One request at a
\* time: a verification deletes no code but the one it was given.
SpentCodesRefused ==
    /\ [](Mails!TypeOK /\ Mails!SpentCodesRefused)
    /\ [][inTurn => Mails!OwnCodeStep]_mailVars

\* Once nothing is under way, the password in force is one the member was
\* mailed or has chosen, or one whose own mail was not sent (reissuePassword,
\* updatePassword); a mail lost before or after is no excuse.
PasswordIsKnown == Mails!PasswordIsKnown

\* One handler at a time, ended after any statement, and the cron job between
\* any two of them: no two members share an address or a nickname (create,
\* updateProfile); and between handlers, as long as none was cut short, the
\* bucket holds the pictures the profiles show, each of them and no other
\* (uploadProfile).
MembersConsistent == Registry!TypeOK /\ (inTurn => Registry!MembersConsistent)

\* Whatever overlaps, stale saves included: a member who is INACTIVE has given
\* the address back, an ACTIVE one has one to log in with and to be mailed at.
AddressGivenBack == Registry!AddressGivenBack

\* Whatever overlaps: a member who has ever been a full one is not deleted, not
\* even when a stale save makes the member ROLE_TEMP again (handleCron).
FullMembersStay == Registry!FullMembersStay
=============================================================================
