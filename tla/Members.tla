------------------------------ MODULE Members ------------------------------
(***************************************************************************)
(* Members, their profiles and the pictures of the profiles                *)
(* (member.service.ts; register and oAuthLogin of auth.service.ts).        *)
(*                                                                         *)
(* No handler runs in a transaction, and neither member.email nor          *)
(* member.nickname has a unique index; profile.member_id has one, and a    *)
(* foreign key to the member.  A handler is one action per statement and   *)
(* may end after any of them.  Every night one DELETE removes the members  *)
(* who registered with a social account more than a day ago and have not   *)
(* uploaded a profile (ROLE_TEMP).                                         *)
(*                                                                         *)
(* Pictures are numbered in the order of their upload: two uploads never   *)
(* get the same key.  Tags of a member are the business of module Tags.    *)
(***************************************************************************)
EXTENDS EntityRows, Naturals, FiniteSets

CONSTANTS
    Emails, Nicknames,   \* values entered by members
    Handlers,            \* handlers under way at a time
    MaxMembers, MaxUploads, \* bounds on member rows and uploads
    None, NoRow

VARIABLES
    members,      \* the member table, by id
    created,      \* ids given so far
    aged,         \* members created more than 24 hours ago
    profiles,     \* the profile table, by member: the picture, or no row
    uploads,      \* pictures uploaded so far
    objects,      \* pictures in the bucket
    txn,          \* per handler: the statement it is at and the entity it holds
    cutShort      \* whether a handler has ended between two statements

vars == <<members, created, aged, profiles, uploads, objects, txn, cutShort>>

Ids == 1..MaxMembers
Pictures == 1..MaxUploads

\* A member who has left has no e-mail address and no nickname a member could enter.
Member == [email: Emails \union {None}, nickname: Nicknames \union {None},
           role: {"ROLE_TEMP", "ROLE_MEMBER"}, status: {"ACTIVE", "INACTIVE"}]

NoEntity == [role |-> None]
Idle == [stage |-> "idle", op |-> None, id |-> None, entity |-> NoEntity,
         columns |-> {}, file |-> FALSE, picture |-> None, old |-> None]

Transaction ==
    [stage: {"idle", "named", "inserting", "authenticated", "saving", "updating",
             "restoring", "uploading", "profile", "deleting", "adding", "setting", "tags"},
     op: {"create", "upload", "update", "withdraw", "password", None},
     id: Ids \union {None},
     entity: Member \union {NoEntity},
     columns: SUBSET {"email", "nickname", "role", "status"},
     file: BOOLEAN, picture: Pictures \union {None}, old: Pictures \union {None}]

TypeOK ==
    /\ members \in [Ids -> Member \union {NoRow}]
    /\ created \in 0..MaxMembers
    /\ \A m \in Ids : m > created => members[m] = NoRow
    /\ aged \subseteq 1..created
    /\ profiles \in [Ids -> Pictures \union {None, NoRow}]
    /\ \A m \in Ids : profiles[m] # NoRow => members[m] # NoRow
    /\ uploads \in 0..MaxUploads
    /\ objects \subseteq 1..uploads
    /\ txn \in [Handlers -> Transaction]
    /\ cutShort \in BOOLEAN

Init ==
    /\ members = [m \in Ids |-> NoRow]
    /\ created = 0
    /\ aged = {}
    /\ profiles = [m \in Ids |-> NoRow]
    /\ uploads = 0
    /\ objects = {}
    /\ txn = [h \in Handlers |-> Idle]
    /\ cutShort = FALSE

-----------------------------------------------------------------------------
memberRows == <<members, created, aged>>
pictureRows == <<profiles, uploads, objects>>
stored == <<memberRows, pictureRows, cutShort>>

Exists(m) == members[m] # NoRow
WithEmail(email) == {m \in Ids : Exists(m) /\ members[m].email = email}
WithNickname(name) == {m \in Ids : Exists(m) /\ name # None /\ members[m].nickname = name}

Goto(h, next) == txn' = [txn EXCEPT ![h] = next]
Done(h) == Goto(h, Idle)

\* A request without a picture goes on with the profile.
ToPicture(t) == [t EXCEPT !.stage = IF t.file THEN "uploading" ELSE "profile"]

Fail(h) == Done(h) /\ cutShort' = TRUE

-----------------------------------------------------------------------------
\* create, for register (ROLE_MEMBER) and oAuthLogin (ROLE_TEMP): the address
\* is free ...
CreateFind(h, email, name, role) ==
    /\ txn[h].stage = "idle"
    /\ WithEmail(email) = {}
    /\ Goto(h, [Idle EXCEPT !.stage = "named", !.op = "create",
                            !.entity = [email |-> email, nickname |-> name,
                                        role |-> role, status |-> "ACTIVE"]])
    /\ UNCHANGED stored

\* ... so is the nickname, if there is one ...
CreateFindNickname(h) ==
    /\ txn[h].stage = "named"
    /\ IF WithNickname(txn[h].entity.nickname) = {}
       THEN Goto(h, [txn[h] EXCEPT !.stage = "inserting"])
       ELSE Done(h)
    /\ UNCHANGED stored

\* ... and the member is inserted.
Insert(h) ==
    /\ txn[h].stage = "inserting"
    /\ created < MaxMembers
    /\ created' = created + 1
    /\ members' = [members EXCEPT ![created + 1] = txn[h].entity]
    /\ Done(h)
    /\ UNCHANGED <<aged, pictureRows, cutShort>>

-----------------------------------------------------------------------------
\* JwtStrategy has found the member of the token active ...
Authenticate(h, m, op, file) ==
    /\ txn[h].stage = "idle"
    /\ Exists(m) /\ members[m].status = "ACTIVE"
    /\ Goto(h, [Idle EXCEPT !.stage = "authenticated", !.op = op, !.id = m, !.file = file])
    /\ UNCHANGED stored

\* ... and the service loads it again.  uploadProfile refuses a bad picture
\* before anything else; a picture is uploaded before the profile is read.
UploadFind(h) ==
    LET t == txn[h] IN
    /\ t.stage = "authenticated" /\ t.op = "upload"
    /\ IF Exists(t.id)
       THEN Goto(h, ToPicture([t EXCEPT !.entity = members[t.id]]))
       ELSE Done(h)
    /\ UNCHANGED stored

\* Mutant: the nickname is not looked up.
UpdateFindUnchecked(h, name) ==
    LET t == txn[h] IN
    /\ t.stage = "authenticated" /\ t.op = "update"
    /\ Exists(t.id)
    /\ IF name = None
       THEN Goto(h, ToPicture([t EXCEPT !.entity = members[t.id]]))
       ELSE Goto(h, [t EXCEPT !.stage = "saving",
                              !.entity = [members[t.id] EXCEPT !.nickname = name]])
    /\ UNCHANGED stored

\* updateProfile: with a nickname, the first member found with it must be the
\* member itself; the nickname is saved before the picture is looked at.
UpdateFind(h, name) ==
    LET t == txn[h] IN
    /\ t.stage = "authenticated" /\ t.op = "update"
    /\ Exists(t.id)
    /\ IF name = None
       THEN Goto(h, ToPicture([t EXCEPT !.entity = members[t.id]]))
       ELSE /\ WithNickname(name) = {} \/ t.id \in WithNickname(name)
            /\ Goto(h, [t EXCEPT !.stage = "saving",
                                 !.entity = [members[t.id] EXCEPT !.nickname = name]])
    /\ UNCHANGED stored

\* updateProfile of a member who is gone, or with a nickname that is taken.
UpdateRefused(h, name) ==
    LET t == txn[h] IN
    /\ t.stage = "authenticated" /\ t.op = "update"
    /\ ~Exists(t.id) \/ (WithNickname(name) \ {t.id} # {})
    /\ Done(h)
    /\ UNCHANGED stored

\* Mutant: the address stays in the row.
WithdrawFindKeepsEmail(h) ==
    LET t == txn[h] IN
    /\ t.stage = "authenticated" /\ t.op = "withdraw"
    /\ IF Exists(t.id)
       THEN Goto(h, [t EXCEPT !.stage = "saving",
                              !.entity = [members[t.id] EXCEPT !.nickname = None,
                                                               !.status = "INACTIVE"]])
       ELSE Done(h)
    /\ UNCHANGED stored

\* withdraw: address and nickname are overwritten.
WithdrawFind(h) ==
    LET t == txn[h] IN
    /\ t.stage = "authenticated" /\ t.op = "withdraw"
    /\ IF Exists(t.id)
       THEN Goto(h, [t EXCEPT !.stage = "saving",
                              !.entity = [members[t.id] EXCEPT !.email = None,
                                            !.nickname = None, !.status = "INACTIVE"]])
       ELSE Done(h)
    /\ UNCHANGED stored

\* updatePassword, of the reissue and of a change: the member is found by
\* address, the password changed (it is not a column here) and the rest saved.
PasswordFind(h, m) ==
    /\ txn[h].stage = "idle"
    /\ Exists(m) /\ members[m].email # None
    /\ Goto(h, [Idle EXCEPT !.stage = "saving", !.op = "password", !.id = m,
                            !.entity = members[m]])
    /\ UNCHANGED stored

\* save() of the member entity: the SELECT; without a row it will insert one ...
SaveSelect(h) ==
    LET t == txn[h] IN
    /\ t.stage = "saving"
    /\ IF Exists(t.id)
       THEN Goto(h, [t EXCEPT !.stage = "updating",
                              !.columns = Changed(t.entity, members[t.id])])
       ELSE Goto(h, [t EXCEPT !.stage = "restoring"])
    /\ UNCHANGED stored

\* Where the handler of a saved member goes on.
AfterSave(t) ==
    IF t.op = "update"
    THEN ToPicture(t)
    ELSE Idle

\* ... and the UPDATE (of no row, if the member was deleted in between) ...
SaveUpdate(h) ==
    LET t == txn[h] IN
    /\ t.stage = "updating"
    /\ members' = [members EXCEPT ![t.id] =
                     IF Exists(t.id) THEN Written(t.entity, @, t.columns) ELSE @]
    /\ Goto(h, AfterSave(t))
    /\ UNCHANGED <<created, aged, pictureRows, cutShort>>

\* ... or the INSERT, under the id the entity has.
SaveInsert(h) ==
    LET t == txn[h] IN
    /\ t.stage = "restoring"
    /\ IF Exists(t.id)
       THEN Fail(h) /\ UNCHANGED members
       ELSE /\ members' = [members EXCEPT ![t.id] = t.entity]
            /\ Goto(h, AfterSave(t))
            /\ UNCHANGED cutShort
    /\ UNCHANGED <<created, aged, pictureRows>>

-----------------------------------------------------------------------------
\* The picture goes to the bucket, under a key of its own.
Upload(h) ==
    /\ txn[h].stage = "uploading"
    /\ uploads < MaxUploads
    /\ uploads' = uploads + 1
    /\ objects' = objects \union {uploads + 1}
    /\ Goto(h, [txn[h] EXCEPT !.stage = "profile", !.picture = uploads + 1])
    /\ UNCHANGED <<memberRows, profiles, cutShort>>

\* The profile is read: there is none yet, its picture is to be replaced, or
\* the entity keeps the picture it has ...
ProfileFind(h) ==
    LET t == txn[h]
        old == profiles[t.id] IN
    /\ t.stage = "profile"
    /\ Goto(h, CASE old = NoRow -> [t EXCEPT !.stage = "adding"]
                 [] old # NoRow /\ ~t.file -> [t EXCEPT !.stage = "setting", !.picture = old]
                 [] old = None /\ t.file -> [t EXCEPT !.stage = "setting"]
                 [] OTHER -> [t EXCEPT !.stage = "deleting", !.old = old])
    /\ UNCHANGED stored

\* ... a replaced picture leaves the bucket ...
DeleteOld(h) ==
    /\ txn[h].stage = "deleting"
    /\ objects' = objects \ {txn[h].old}
    /\ Goto(h, [txn[h] EXCEPT !.stage = "setting"])
    /\ UNCHANGED <<memberRows, profiles, uploads, cutShort>>

\* ... and the profile is inserted, once per member and only of one that exists ...
AddProfile(h) ==
    LET t == txn[h] IN
    /\ t.stage = "adding"
    /\ IF Exists(t.id) /\ profiles[t.id] = NoRow
       THEN /\ profiles' = [profiles EXCEPT ![t.id] = t.picture]
            /\ Goto(h, [t EXCEPT !.stage = "tags"])
            /\ UNCHANGED cutShort
       ELSE Fail(h) /\ UNCHANGED profiles
    /\ UNCHANGED <<memberRows, uploads, objects>>

\* ... or saved with the picture the entity has by now.
SetProfile(h) ==
    LET t == txn[h] IN
    /\ t.stage = "setting"
    /\ profiles' = [profiles EXCEPT ![t.id] = t.picture]
    /\ Goto(h, [t EXCEPT !.stage = "tags"])
    /\ UNCHANGED <<memberRows, uploads, objects, cutShort>>

\* The tags are synchronised; uploadProfile then makes a ROLE_TEMP member a
\* ROLE_MEMBER, by saving the entity it loaded at the start.
Promote(h) ==
    LET t == txn[h] IN
    /\ t.stage = "tags"
    /\ IF t.op = "upload" /\ t.entity.role = "ROLE_TEMP"
       THEN Goto(h, [t EXCEPT !.stage = "saving", !.entity.role = "ROLE_MEMBER"])
       ELSE Done(h)
    /\ UNCHANGED stored

\* A failed statement, upload or deletion, a picture refused after the nickname
\* was saved, or the end of the process: what was written stays.
Interrupt(h) ==
    /\ txn[h].stage # "idle"
    /\ Fail(h)
    /\ UNCHANGED <<memberRows, pictureRows>>

-----------------------------------------------------------------------------
\* A day goes by for a member.
Age(m) ==
    /\ m \in 1..created \ aged
    /\ aged' = aged \union {m}
    /\ UNCHANGED <<members, created, pictureRows, txn, cutShort>>

Expired(m) ==
    Exists(m) /\ members[m].role = "ROLE_TEMP" /\ members[m].status = "ACTIVE" /\ m \in aged

\* Mutant: the role is not part of the condition.
HandleCronAnyRole ==
    LET victims == {m \in aged : Exists(m) /\ members[m].status = "ACTIVE"
                                 /\ profiles[m] = NoRow} IN
    /\ victims # {}
    /\ members' = [m \in Ids |-> IF m \in victims THEN NoRow ELSE members[m]]
    /\ UNCHANGED <<created, aged, pictureRows, txn, cutShort>>

\* Mutant: the age is compared the wrong way round.
HandleCronYoung ==
    LET victims == {m \in Ids \ aged : Exists(m) /\ members[m].role = "ROLE_TEMP"
                                        /\ members[m].status = "ACTIVE"} IN
    /\ victims # {}
    /\ \A m \in victims : profiles[m] = NoRow
    /\ members' = [m \in Ids |-> IF m \in victims THEN NoRow ELSE members[m]]
    /\ UNCHANGED <<created, aged, pictureRows, txn, cutShort>>

\* handleCron, at midnight: one DELETE.  It fails as a whole if a profile
\* refers to one of the members (so do rows of other tables, left out here).
HandleCron ==
    LET victims == {m \in Ids : Expired(m)} IN
    /\ victims # {}
    /\ \A m \in victims : profiles[m] = NoRow
    /\ members' = [m \in Ids |-> IF m \in victims THEN NoRow ELSE members[m]]
    /\ UNCHANGED <<created, aged, pictureRows, txn, cutShort>>

Next ==
    \/ \E h \in Handlers :
          \/ \E e \in Emails, n \in Nicknames \union {None}, r \in {"ROLE_TEMP", "ROLE_MEMBER"} :
                CreateFind(h, e, n, r)
          \/ CreateFindNickname(h) \/ Insert(h)
          \/ \E m \in Ids, op \in {"upload", "update", "withdraw"}, file \in BOOLEAN :
                Authenticate(h, m, op, file)
          \/ UploadFind(h) \/ WithdrawFind(h)
          \/ \E n \in Nicknames \union {None} : UpdateFind(h, n) \/ UpdateRefused(h, n)
          \/ \E m \in Ids : PasswordFind(h, m)
          \/ SaveSelect(h) \/ SaveUpdate(h) \/ SaveInsert(h)
          \/ Upload(h) \/ ProfileFind(h) \/ DeleteOld(h) \/ AddProfile(h) \/ SetProfile(h)
          \/ Promote(h) \/ Interrupt(h)
    \/ \E m \in Ids : Age(m)
    \/ HandleCron

Spec == Init /\ [][Next]_vars

\* The cron job runs every midnight.
FairSpec == Spec /\ WF_vars(HandleCron)

-----------------------------------------------------------------------------
\* One handler at a time, ended after any statement, and the cron job between
\* any two of them: no two members share an address or a nickname (create,
\* updateProfile).
NoDuplicates ==
    \A m, n \in Ids :
        (Exists(m) /\ Exists(n) /\ m # n) =>
            /\ members[m].email = None \/ members[m].email # members[n].email
            /\ members[m].nickname = None \/ members[m].nickname # members[n].nickname

\* One handler at a time, none cut short: between handlers the bucket holds the
\* pictures the profiles show, each of them and no other.
PicturesMatch ==
    (~cutShort /\ \A h \in Handlers : txn[h].stage = "idle") =>
        objects = {profiles[m] : m \in Ids} \ {None, NoRow}

\* What one handler at a time leaves, all together.
MembersConsistent == NoDuplicates /\ PicturesMatch

\* Whatever overlaps, stale saves included: a member who is INACTIVE has given
\* the address back, an ACTIVE one has one to log in with and to be mailed at.
AddressGivenBack ==
    \A m \in Ids :
        Exists(m) => (members[m].status = "INACTIVE" <=> members[m].email = None)

\* Whatever overlaps: a member who has ever been a full one is not deleted, not
\* even when a stale save makes the member ROLE_TEMP again.
FullMembersStay ==
    [][\A m \in Ids :
         (Exists(m) /\ (members[m].role = "ROLE_MEMBER" \/ profiles[m] # NoRow))
             => Exists(m)']_vars

\* A member who has withdrawn is not an active member again.
WithdrawnStay ==
    [][\A m \in Ids :
         (Exists(m) /\ members[m].status = "INACTIVE")
             => members'[m].status = "INACTIVE"]_vars

\* The cron job gets rid of every member whose registration was not completed
\* within a day.
ExpiredGo == \A m \in Ids : Expired(m) ~> ~Expired(m)

\* It does, unless in the end an expired member keeps a profile: the member of
\* an interrupted uploadProfile or of an updateProfile.
ExpiredGoUnblocked ==
    <>[](\A m \in Ids : Expired(m) => profiles[m] = NoRow) => ExpiredGo
=============================================================================
