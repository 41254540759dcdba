-------------------------- MODULE EmailVerification --------------------------
(***************************************************************************)
(* Codes mailed to an address and the passwords reissued with them         *)
(* (email.service.ts, MemberService.updatePassword).                       *)
(*                                                                         *)
(* Redis holds at most one code per address, whatever it was sent for; it  *)
(* expires by itself.  verifyCode reads, compares and deletes it in calls  *)
(* of their own.  reissuePassword verifies, saves a new password and mails *)
(* it.  A request for the profile saves a member it loaded, password and   *)
(* all.  A statement or a mail may fail, and a process end, anywhere.      *)
(* Codes and passwords are numbered in the order they are drawn: two draws *)
(* are taken to differ (of six digits, they might not).                    *)
(***************************************************************************)
EXTENDS Naturals

CONSTANTS
    Emails, Registered,    \* addresses, those of members
    Handlers,
    MaxCodes, MaxPasswords, \* bounds on the draws
    None

VARIABLES
    stored,     \* redis: the code of an address, or None
    codes,      \* number of codes drawn
    passwords,  \* number of passwords drawn or chosen
    password,   \* member.password
    known,      \* passwords the member was mailed or has chosen
    spent,      \* codes whose verification has been answered
    mailLost,   \* passwords saved whose own mail was not sent
    txn

vars == <<stored, codes, passwords, password, known, spent, mailLost, txn>>

Codes == 1..MaxCodes
Passwords == 0..MaxPasswords

Idle == [stage |-> "idle", op |-> None, email |-> None, code |-> None, secret |-> None,
         late |-> FALSE]

Transaction ==
    [stage: {"idle", "mailing", "matched", "verified", "saving", "handing"},
     op: {"send", "verify", "reissue", "change", "profile", None},
     email: Emails \union {None}, code: Codes \union {None},
     secret: Passwords \union {None}, late: BOOLEAN]

TypeOK ==
    /\ stored \in [Emails -> Codes \union {None}]
    /\ codes \in 0..MaxCodes /\ passwords \in Passwords
    /\ password \in [Registered -> Passwords]
    /\ known \in [Registered -> SUBSET Passwords]
    /\ spent \subseteq Codes
    /\ mailLost \subseteq Passwords
    /\ txn \in [Handlers -> Transaction]
    /\ \A h \in Handlers : txn[h].stage \in {"saving", "handing"} => txn[h].email \in Registered

Init ==
    /\ stored = [e \in Emails |-> None]
    /\ codes = 0
    /\ passwords = 0
    /\ password = [e \in Registered |-> 0]
    /\ known = [e \in Registered |-> {0}]
    /\ spent = {}
    /\ mailLost = {}
    /\ txn = [h \in Handlers |-> Idle]

-----------------------------------------------------------------------------
secrets == <<passwords, password, known>>

\* sendVerificationCode, also for a reissue, and then of members only: draw
\* and store a code ...
Send(h, e) ==
    /\ txn[h].stage = "idle"
    /\ codes < MaxCodes
    /\ codes' = codes + 1
    /\ stored' = [stored EXCEPT ![e] = codes + 1]
    /\ txn' = [txn EXCEPT ![h] = [Idle EXCEPT !.stage = "mailing", !.op = "send",
                                              !.email = e, !.code = codes + 1]]
    /\ UNCHANGED <<secrets, spent, mailLost>>

\* ... and mail it, or fail to.
SendMail(h) ==
    /\ txn[h].stage = "mailing"
    /\ txn' = [txn EXCEPT ![h] = Idle]
    /\ UNCHANGED <<stored, codes, secrets, spent, mailLost>>

\* verifyCode: the code is the stored one ...
Match(h, op, e, c) ==
    /\ txn[h].stage = "idle"
    /\ stored[e] = c
    /\ txn' = [txn EXCEPT ![h] = [Idle EXCEPT !.stage = "matched", !.op = op, !.email = e,
                                              !.code = c, !.late = c \in spent]]
    /\ UNCHANGED <<stored, codes, secrets, spent, mailLost>>

\* Mutant: the code is left to expire.
DeleteNothing(h) ==
    /\ txn[h].stage = "matched"
    /\ txn' = [txn EXCEPT ![h].stage = "verified"]
    /\ UNCHANGED <<stored, codes, secrets, spent, mailLost>>

\* ... and the key of the address is deleted.
Delete(h) ==
    /\ txn[h].stage = "matched"
    /\ stored' = [stored EXCEPT ![txn[h].email] = None]
    /\ txn' = [txn EXCEPT ![h].stage = "verified"]
    /\ UNCHANGED <<codes, secrets, spent, mailLost>>

\* verifyEmail answers true.
Verified(h) ==
    /\ txn[h].stage = "verified" /\ txn[h].op = "verify"
    /\ spent' = spent \union {txn[h].code}
    /\ txn' = [txn EXCEPT ![h] = Idle]
    /\ UNCHANGED <<stored, codes, secrets, mailLost>>

\* reissuePassword: draw a password; updatePassword finds the member, or the
\* code has been spent for nothing ...
Reissue(h) ==
    LET e == txn[h].email IN
    /\ txn[h].stage = "verified" /\ txn[h].op = "reissue"
    /\ passwords < MaxPasswords
    /\ passwords' = passwords + 1
    /\ spent' = spent \union {txn[h].code}
    /\ txn' = [txn EXCEPT ![h] =
                 IF e \in Registered
                 THEN [@ EXCEPT !.stage = "saving", !.secret = passwords + 1]
                 ELSE Idle]
    /\ UNCHANGED <<stored, codes, password, known, mailLost>>

\* Mutant: the mail goes out before the password is saved, with another draw.
SavePasswordUnmailed(h) ==
    LET t == txn[h] IN
    /\ t.stage = "saving"
    /\ password' = [password EXCEPT ![t.email] = t.secret]
    /\ txn' = [txn EXCEPT ![h] = Idle]
    /\ UNCHANGED <<stored, codes, passwords, known, spent, mailLost>>

\* ... and saves it; a password of the member's own choice, or of a member
\* saved for the profile, needs no mail.
SavePassword(h) ==
    LET t == txn[h] IN
    /\ t.stage = "saving"
    /\ password' = [password EXCEPT ![t.email] = t.secret]
    /\ known' = IF t.op = "change" THEN [known EXCEPT ![t.email] = @ \union {t.secret}]
                                   ELSE known
    /\ txn' = [txn EXCEPT ![h] = IF t.op = "reissue" THEN [@ EXCEPT !.stage = "handing"]
                                                     ELSE Idle]
    /\ UNCHANGED <<stored, codes, passwords, spent, mailLost>>

\* The mail with the password arrives.
Hand(h) ==
    LET t == txn[h] IN
    /\ t.stage = "handing"
    /\ known' = [known EXCEPT ![t.email] = @ \union {t.secret}]
    /\ txn' = [txn EXCEPT ![h] = Idle]
    /\ UNCHANGED <<stored, codes, passwords, password, spent, mailLost>>

\* A statement or a mail fails, or the process ends: what was written stays.
Interrupt(h) ==
    /\ txn[h].stage # "idle"
    /\ mailLost' = mailLost \union (IF txn[h].stage = "handing" THEN {txn[h].secret} ELSE {})
    /\ txn' = [txn EXCEPT ![h] = Idle]
    /\ UNCHANGED <<stored, codes, secrets, spent>>

\* uploadProfile and updateProfile load the member and save it, with the
\* password it had, after other statements: save() writes every column that
\* differs.
LoadMember(h, e) ==
    /\ txn[h].stage = "idle"
    /\ txn' = [txn EXCEPT ![h] = [Idle EXCEPT !.stage = "saving", !.op = "profile",
                                              !.email = e, !.secret = password[e]]]
    /\ UNCHANGED <<stored, codes, secrets, spent, mailLost>>

\* changePassword of a logged in member: the old one, if given, must match.
Change(h, e, old) ==
    /\ txn[h].stage = "idle"
    /\ old \in {password[e], None}
    /\ passwords < MaxPasswords
    /\ passwords' = passwords + 1
    /\ txn' = [txn EXCEPT ![h] = [Idle EXCEPT !.stage = "saving", !.op = "change",
                                              !.email = e, !.secret = passwords + 1]]
    /\ UNCHANGED <<stored, codes, password, known, spent, mailLost>>

\* cancelVerification, which needs no code; or the code expires.
Forget(e) ==
    /\ stored[e] # None
    /\ stored' = [stored EXCEPT ![e] = None]
    /\ UNCHANGED <<codes, secrets, spent, mailLost, txn>>

Next ==
    \/ \E h \in Handlers :
          \/ \E e \in Emails :
                Send(h, e) \/ \E c \in Codes, op \in {"verify", "reissue"} : Match(h, op, e, c)
          \/ \E e \in Registered :
                LoadMember(h, e) \/ \E old \in Passwords \union {None} : Change(h, e, old)
          \/ SendMail(h) \/ Delete(h) \/ Verified(h)
          \/ Reissue(h) \/ SavePassword(h) \/ Hand(h) \/ Interrupt(h)
    \/ \E e \in Emails : Forget(e)

Spec == Init /\ [][Next]_vars

-----------------------------------------------------------------------------
\* A code whose verification has been answered is refused from then on: a
\* request that comes in later does not get through with it, whatever other
\* requests are under way (two that overlap may both pass).
SpentCodesRefused == \A h \in Handlers : txn[h].stage # "idle" => ~txn[h].late

\* Once nothing is under way, the member knows the password in force, or it is
\* one whose own mail was not sent: a mail that failed is made up for by the
\* next password, unless a stale save brings the lost one back.  Reissues with
\* one code, changes in the middle and ends anywhere included.
PasswordIsKnown ==
    (\A h \in Handlers : txn[h].stage = "idle") =>
        \A e \in Registered : password[e] \in known[e] \union mailLost

\* One handler at a time: a stored code goes away by being cancelled, by
\* expiring, by a newer one or by its own verification, never by that of
\* another code or address.
OwnCodeStep ==
    \A h \in Handlers, e \in Emails :
        (txn[h].stage = "matched" /\ stored'[e] = None /\ txn'[h] # txn[h]) =>
            (stored[e] = None \/ (e = txn[h].email /\ stored[e] = txn[h].code))
=============================================================================
