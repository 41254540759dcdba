--------------------------- MODULE AccountsProofs ---------------------------
(***************************************************************************)
(* Theorems about Members (instance Registry), for any members, names,     *)
(* pictures and handlers; about EmailVerification (instance Mails), for    *)
(* any addresses, codes and passwords; and about Sessions, for any number  *)
(* of members, tokens, handlers and sockets and any lifetime of a token.   *)
(***************************************************************************)
EXTENDS Accounts, TLAPS

\* The null values are no rows, names or pictures.
MemberNulls ==
    /\ NoRow \notin Registry!Member /\ None \notin Emails /\ None \notin Nicknames
    /\ None \notin Registry!Pictures /\ NoRow \notin Registry!Pictures /\ None # NoRow
    /\ MaxMembers \in Nat /\ MaxUploads \in Nat

\* What a handler holds: the entity of a member, from the load on of one that
\* has been given an id; a picture only after its upload; and once it replaces
\* or keeps the picture of a profile, there is a profile.
HolderType(t) ==
    /\ t.stage \notin {"idle", "authenticated"} => t.entity \in Registry!Member
    /\ t.stage \notin {"idle", "named", "inserting"} => t.id \in 1..created
    /\ t.stage \in {"named", "inserting"} => t.op = "create"
    /\ t.stage \in {"setting", "deleting"} => profiles[t.id] # NoRow
    /\ t.stage \in {"saving", "updating", "restoring"} => t.op \in {"upload", "update", "withdraw", "password"}

MemberTypeInv == Registry!TypeOK /\ \A h \in Workers : HolderType(memberTxn[h])

\* An address and a status that belong together.
GivenBack(e) == e.status = "INACTIVE" <=> e.email = None

\* Of one member there is one address: rows and entities have it or have
\* given it back.
SameEmail(e, f) == e.email = None \/ f.email = None \/ e.email = f.email
Holds(t) == t.stage \notin {"idle", "named", "inserting", "authenticated"}

AddressInv ==
    /\ Registry!AddressGivenBack
    /\ \A h \in Workers :
          LET t == memberTxn[h] IN
          /\ t.stage \in {"named", "inserting"} => GivenBack(t.entity)
          /\ Holds(t) => GivenBack(t.entity)
          /\ Holds(t) /\ Registry!Exists(t.id) => SameEmail(t.entity, members[t.id])
          /\ t.stage = "updating" => ("email" \in t.columns <=> "status" \in t.columns)
          /\ \A g \in Workers :
                Holds(t) /\ Holds(memberTxn[g]) /\ t.id = memberTxn[g].id => SameEmail(t.entity, memberTxn[g].entity)

\* No other member has the address or the nickname of an entity.
Apart(e, row) ==
    /\ e.email = None \/ e.email # row.email
    /\ e.nickname = None \/ e.nickname # row.nickname

Free(t) ==
    /\ t.stage = "named" =>
          \A m \in Registry!Ids : Registry!Exists(m) => t.entity.email = None \/ t.entity.email # members[m].email
    /\ t.stage = "inserting" => \A m \in Registry!Ids : Registry!Exists(m) => Apart(t.entity, members[m])
    /\ Holds(t) => \A m \in Registry!Ids : Registry!Exists(m) /\ m # t.id => Apart(t.entity, members[m])

NamesInv == Registry!NoDuplicates /\ \A h \in Workers : Free(memberTxn[h])

Shown == {profiles[m] : m \in Registry!Ids} \ {None, NoRow}

\* A picture that is in the bucket and not in a profile yet, or not any more.
Picturing(t) == t.stage \in {"profile", "adding", "deleting", "setting"}

\* What the bucket holds in the course of a request: once the old picture is
\* deleted, the new one in its place.
Bucket(t) ==
    IF t.stage = "setting"
    THEN {IF m = t.id THEN t.picture ELSE profiles[m] : m \in Registry!Ids} \ {None, NoRow}
    ELSE Shown \union ({t.picture} \ {None})

PictureOf(t) ==
    /\ t.picture \in 1..uploads \union {None}
    /\ t.stage \in {"idle", "named", "inserting", "authenticated"} => t.picture = None
    /\ t.stage \in {"saving", "updating", "restoring"} /\ t.op # "upload" => t.picture = None
    /\ t.stage = "uploading" => t.picture = None /\ t.file
    /\ t.stage = "profile" => (t.file <=> t.picture # None)
    /\ t.stage \in {"profile", "adding", "deleting"} => t.picture \notin Shown
    /\ t.stage = "adding" => profiles[t.id] = NoRow
    /\ t.stage = "deleting" => profiles[t.id] = t.old /\ t.old \in Registry!Pictures /\ t.picture # None
    /\ t.stage = "setting" => t.picture = profiles[t.id] \/ t.picture \notin Shown
    /\ Picturing(t) /\ ~cutShort => objects = Bucket(t)

PictureInv ==
    /\ \A m \in Registry!Ids : profiles[m] \in 1..uploads \union {None, NoRow}
    /\ \A m, k \in Registry!Ids : profiles[m] = profiles[k] /\ profiles[m] \in Shown => m = k
    /\ ~cutShort /\ (\A h \in Workers : ~Picturing(memberTxn[h])) => objects = Shown
    /\ \A h \in Workers : PictureOf(memberTxn[h])
-----------------------------------------------------------------------------
\* What a handler is at after a step, field by field.

Stages == {"idle", "named", "inserting", "authenticated", "saving", "updating",
           "restoring", "uploading", "profile", "deleting", "adding", "setting", "tags"}
Ops == {"create", "upload", "update", "withdraw", "password", None}

Moves(h, next) == memberTxn' = [memberTxn EXCEPT ![h] = next]

\* The handler goes on with the member and the request it is about.
GoesOn(t, next) ==
    next.op = t.op /\ next.id = t.id /\ next.file = t.file

LEMMA IdleMember ==
    Registry!Idle \in Registry!Transaction /\ Registry!Idle.stage = "idle" /\ Registry!Idle.picture = None
  BY DEF Registry!Idle, Registry!Transaction, Registry!NoEntity

LEMMA ToPictureFields ==
    ASSUME NEW t \in Registry!Transaction
    PROVE  /\ Registry!ToPicture(t) \in Registry!Transaction
           /\ Registry!ToPicture(t).stage = IF t.file THEN "uploading" ELSE "profile"
           /\ GoesOn(t, Registry!ToPicture(t))
           /\ Registry!ToPicture(t).entity = t.entity /\ Registry!ToPicture(t).picture = t.picture
  BY DEF Registry!ToPicture, Registry!Transaction, GoesOn

LEMMA CreateFindMoves ==
    ASSUME NEW h \in Workers, NEW email \in Emails, NEW name \in Nicknames \union {None},
           NEW role \in {"ROLE_TEMP", "ROLE_MEMBER"}, Registry!CreateFind(h, email, name, role)
    PROVE  \E next \in Registry!Transaction :
              /\ Moves(h, next)
              /\ next.stage = "named" /\ next.op = "create" /\ next.entity \in Registry!Member
              /\ next.entity.email = email /\ next.entity.status = "ACTIVE"
              /\ next.picture = None
  <1> DEFINE e == [email |-> email, nickname |-> name, role |-> role, status |-> "ACTIVE"]
             next == [Registry!Idle EXCEPT !.stage = "named", !.op = "create", !.entity = e]
  <1>1. e \in Registry!Member /\ e.email = email /\ e.status = "ACTIVE"
    BY DEF Registry!Member
  <1>2. Moves(h, next)
    BY DEF Registry!CreateFind, Registry!Goto, Moves
  <1> HIDE DEF e
  <1>3. /\ next \in Registry!Transaction /\ next.stage = "named" /\ next.op = "create"
        /\ next.entity = e /\ next.picture = None
    BY <1>1 DEF Registry!Idle, Registry!Transaction, Registry!NoEntity
  <1> HIDE DEF next
  <1>4. QED
    BY <1>1, <1>2, <1>3

LEMMA NamedMoves ==
    ASSUME MemberTypeInv, NEW h \in Workers, Registry!CreateFindNickname(h)
    PROVE  \/ /\ Moves(h, Registry!Idle)
              /\ memberTxn[h].stage = "named"
           \/ \E next \in Registry!Transaction :
                 /\ Moves(h, next)
                 /\ Registry!WithNickname(memberTxn[h].entity.nickname) = {}
                 /\ next.stage = "inserting" /\ GoesOn(memberTxn[h], next)
                 /\ next.entity = memberTxn[h].entity /\ next.picture = memberTxn[h].picture
  <1> DEFINE t == memberTxn[h]
             next == [t EXCEPT !.stage = "inserting"]
  <1>1. t \in Registry!Transaction
    BY DEF MemberTypeInv, Registry!TypeOK
  <1>2. \/ Moves(h, Registry!Idle) /\ t.stage = "named"
        \/ Moves(h, next) /\ Registry!WithNickname(t.entity.nickname) = {}
    BY DEF Registry!CreateFindNickname, Registry!Goto, Registry!Done, Moves
  <1> HIDE DEF t
  <1>3. /\ next \in Registry!Transaction /\ next.stage = "inserting" /\ GoesOn(t, next)
        /\ next.entity = t.entity /\ next.picture = t.picture
    BY <1>1 DEF Registry!Transaction, GoesOn
  <1> HIDE DEF next
  <1>4. QED
    BY <1>2, <1>3 DEF t

LEMMA AuthenticateMoves ==
    ASSUME NEW h \in Workers, NEW m \in Registry!Ids, NEW op \in {"upload", "update", "withdraw"},
           NEW file \in BOOLEAN, Registry!Authenticate(h, m, op, file)
    PROVE  \E next \in Registry!Transaction :
              /\ Moves(h, next)
              /\ next.stage = "authenticated" /\ next.op = op /\ next.id = m
              /\ next.picture = None
  <1> DEFINE next == [Registry!Idle EXCEPT !.stage = "authenticated", !.op = op, !.id = m, !.file = file]
  <1>1. Moves(h, next)
    BY DEF Registry!Authenticate, Registry!Goto, Moves
  <1>2. /\ next \in Registry!Transaction /\ next.stage = "authenticated" /\ next.op = op
        /\ next.id = m /\ next.picture = None
    BY DEF Registry!Idle, Registry!Transaction, Registry!NoEntity
  <1> HIDE DEF next
  <1>3. QED
    BY <1>1, <1>2

\* A member that is not here any more, or a name that is not free.
LEMMA FindsNothing ==
    ASSUME NEW h \in Workers,
           \/ Registry!UploadFind(h) /\ ~Registry!Exists(memberTxn[h].id)
           \/ Registry!WithdrawFind(h) /\ ~Registry!Exists(memberTxn[h].id)
           \/ \E name \in Nicknames \union {None} : Registry!UpdateRefused(h, name)
    PROVE  Moves(h, Registry!Idle) /\ memberTxn[h].stage = "authenticated" /\ UNCHANGED Registry!stored
  BY DEF Registry!UploadFind, Registry!WithdrawFind, Registry!UpdateRefused, Registry!Done, Registry!Goto, Moves

\* An entity as it was loaded, but for what the request changes.
Loaded(e, row) ==
    \/ e = row
    \/ /\ e.email = row.email /\ e.status = row.status
       /\ e.nickname \in Nicknames /\ (Registry!WithNickname(e.nickname) = {} \/ row.nickname = e.nickname)
    \/ e.email = None /\ e.nickname = None /\ e.status = "INACTIVE"

\* A handler has loaded member a.
Loads(h, a, next) ==
    /\ Registry!Exists(a) /\ next.id = a
    /\ next.entity \in Registry!Member
    /\ next.stage \in {"saving", "uploading", "profile"}
    /\ next.stage \in {"uploading", "profile"} => (next.file <=> next.stage = "uploading")
    /\ memberTxn[h].stage \in {"idle", "authenticated"}
    /\ memberTxn[h].stage = "idle" => next.op = "password" /\ next.stage = "saving" /\ next.picture = None
    /\ memberTxn[h].stage = "authenticated" => GoesOn(memberTxn[h], next) /\ next.picture = memberTxn[h].picture
    /\ next.op \in {"upload", "update", "withdraw", "password"}
    /\ UNCHANGED Registry!stored

\* What the types say of one handler.
LEMMA HolderFacts ==
    ASSUME MemberTypeInv, MemberNulls, NEW h \in Workers
    PROVE  LET t == memberTxn[h] IN
           /\ t \in Registry!Transaction
           /\ t.stage \notin {"idle", "named", "inserting"} =>
                 /\ t.id \in Registry!Ids /\ t.id \in 1..created
                 /\ Registry!Exists(t.id) => members[t.id] \in Registry!Member
           /\ t.stage \notin {"idle", "authenticated"} => t.entity \in Registry!Member
  <1>1. memberTxn[h] \in Registry!Transaction /\ HolderType(memberTxn[h])
    BY DEF MemberTypeInv, Registry!TypeOK
  <1>2. 1..created \subseteq Registry!Ids
    BY DEF MemberTypeInv, Registry!TypeOK, MemberNulls, Registry!Ids
  <1>3. \A m \in Registry!Ids : Registry!Exists(m) => members[m] \in Registry!Member
    BY DEF MemberTypeInv, Registry!TypeOK, Registry!Exists
  <1>4. QED
    BY <1>1, <1>2, <1>3 DEF HolderType

\* The entity is taken over, and the picture comes next.
LEMMA LoadForPicture ==
    ASSUME NEW h \in Workers, NEW t \in Registry!Transaction, memberTxn[h] = t, t.id \in Registry!Ids, Registry!Exists(t.id),
           members[t.id] \in Registry!Member, t.stage = "authenticated",
           t.op \in {"upload", "update"}, UNCHANGED Registry!stored,
           Moves(h, Registry!ToPicture([t EXCEPT !.entity = members[t.id]]))
    PROVE  \E a \in Registry!Ids, next \in Registry!Transaction :
              Moves(h, next) /\ Loads(h, a, next) /\ Loaded(next.entity, members[a])
  <1> DEFINE u == [t EXCEPT !.entity = members[t.id]]
             next == Registry!ToPicture(u)
  <1>1. /\ u \in Registry!Transaction /\ u.entity = members[t.id] /\ GoesOn(t, u)
        /\ u.picture = t.picture
    BY DEF Registry!Transaction, GoesOn
  <1> HIDE DEF u
  <1>2. /\ next \in Registry!Transaction /\ next.stage = (IF u.file THEN "uploading" ELSE "profile")
        /\ GoesOn(u, next) /\ next.entity = u.entity /\ next.picture = u.picture
    BY <1>1, ToPictureFields
  <1>3. Moves(h, next)
    BY DEF u
  <1> HIDE DEF next
  <1>4. Loads(h, t.id, next)
    BY <1>1, <1>2 DEF Loads, GoesOn, Registry!Transaction
  <1>5. QED
    BY <1>1, <1>2, <1>3, <1>4 DEF Loaded

\* The entity is changed, and saved next.
LEMMA LoadForSave ==
    ASSUME NEW h \in Workers, NEW t \in Registry!Transaction, memberTxn[h] = t, t.id \in Registry!Ids, Registry!Exists(t.id),
           t.stage = "authenticated", t.op \in {"update", "withdraw"}, UNCHANGED Registry!stored,
           NEW e \in Registry!Member, Loaded(e, members[t.id]),
           Moves(h, [t EXCEPT !.stage = "saving", !.entity = e])
    PROVE  \E a \in Registry!Ids, next \in Registry!Transaction :
              Moves(h, next) /\ Loads(h, a, next) /\ Loaded(next.entity, members[a])
  <1> DEFINE next == [t EXCEPT !.stage = "saving", !.entity = e]
  <1>1. /\ next \in Registry!Transaction /\ next.stage = "saving" /\ next.entity = e /\ GoesOn(t, next)
        /\ next.picture = t.picture
    BY DEF Registry!Transaction, GoesOn
  <1> HIDE DEF next
  <1>2. Moves(h, next)
    BY DEF next
  <1>3. Loads(h, t.id, next)
    BY <1>1 DEF Loads, GoesOn
  <1>4. QED
    BY <1>1, <1>2, <1>3

LEMMA UploadFindMoves ==
    ASSUME MemberTypeInv, MemberNulls, NEW h \in Workers, Registry!UploadFind(h), Registry!Exists(memberTxn[h].id)
    PROVE  \E a \in Registry!Ids, next \in Registry!Transaction :
              Moves(h, next) /\ Loads(h, a, next) /\ Loaded(next.entity, members[a])
  <1> DEFINE t == memberTxn[h]
  <1>1. /\ t \in Registry!Transaction /\ t.id \in Registry!Ids /\ members[t.id] \in Registry!Member
        /\ t.stage = "authenticated" /\ t.op = "upload" /\ UNCHANGED Registry!stored
    BY HolderFacts DEF Registry!UploadFind
  <1>2. Moves(h, Registry!ToPicture([t EXCEPT !.entity = members[t.id]]))
    BY DEF Registry!UploadFind, Registry!Goto, Moves
  <1> HIDE DEF t
  <1>3. memberTxn[h] = t
    BY DEF t
  <1>4. Registry!Exists(t.id)
    BY DEF t
  <1>5. QED
    BY <1>1, <1>2, <1>3, <1>4, LoadForPicture

LEMMA UpdateFindMoves ==
    ASSUME MemberTypeInv, MemberNulls, NEW h \in Workers, NEW name \in Nicknames \union {None},
           Registry!UpdateFind(h, name)
    PROVE  \E a \in Registry!Ids, next \in Registry!Transaction :
              Moves(h, next) /\ Loads(h, a, next) /\ Loaded(next.entity, members[a])
  <1> DEFINE t == memberTxn[h]
             e == [members[t.id] EXCEPT !.nickname = name]
  <1>1. /\ t \in Registry!Transaction /\ t.id \in Registry!Ids /\ members[t.id] \in Registry!Member /\ Registry!Exists(t.id)
        /\ t.stage = "authenticated" /\ t.op = "update" /\ UNCHANGED Registry!stored
    BY HolderFacts DEF Registry!UpdateFind
  <1>2. CASE name = None
    <2>1. Moves(h, Registry!ToPicture([t EXCEPT !.entity = members[t.id]]))
      BY <1>2 DEF Registry!UpdateFind, Registry!Goto, Moves
    <2> HIDE DEF t
    <2>2. memberTxn[h] = t
      BY DEF t
    <2>3. QED
      BY <1>1, <2>1, <2>2, LoadForPicture
  <1>3. CASE name # None
    <2>1. /\ Moves(h, [t EXCEPT !.stage = "saving", !.entity = e])
          /\ Registry!WithNickname(name) = {} \/ t.id \in Registry!WithNickname(name)
      BY <1>3 DEF Registry!UpdateFind, Registry!Goto, Moves
    <2>2. /\ e \in Registry!Member /\ e.nickname = name /\ e.email = members[t.id].email
          /\ e.status = members[t.id].status
      BY <1>1 DEF Registry!Member
    <2> HIDE DEF t, e
    <2>3. Loaded(e, members[t.id])
      BY <1>3, <2>1, <2>2 DEF Loaded, Registry!WithNickname
    <2>4. memberTxn[h] = t
      BY DEF t
    <2>5. QED
      BY <1>1, <2>1, <2>2, <2>3, <2>4, LoadForSave
  <1>4. QED
    BY <1>2, <1>3

LEMMA WithdrawFindMoves ==
    ASSUME MemberTypeInv, MemberNulls, NEW h \in Workers, Registry!WithdrawFind(h), Registry!Exists(memberTxn[h].id)
    PROVE  \E a \in Registry!Ids, next \in Registry!Transaction :
              Moves(h, next) /\ Loads(h, a, next) /\ Loaded(next.entity, members[a])
  <1> DEFINE t == memberTxn[h]
             e == [members[t.id] EXCEPT !.email = None, !.nickname = None, !.status = "INACTIVE"]
  <1>1. /\ t \in Registry!Transaction /\ t.id \in Registry!Ids /\ members[t.id] \in Registry!Member /\ Registry!Exists(t.id)
        /\ t.stage = "authenticated" /\ t.op = "withdraw" /\ UNCHANGED Registry!stored
    BY HolderFacts DEF Registry!WithdrawFind
  <1>2. Moves(h, [t EXCEPT !.stage = "saving", !.entity = e])
    BY DEF Registry!WithdrawFind, Registry!Goto, Moves
  <1>3. e \in Registry!Member /\ e.email = None /\ e.nickname = None /\ e.status = "INACTIVE"
    BY <1>1 DEF Registry!Member
  <1> HIDE DEF t, e
  <1>4. Loaded(e, members[t.id])
    BY <1>3 DEF Loaded
  <1>5. memberTxn[h] = t
    BY DEF t
  <1>6. QED
    BY <1>1, <1>2, <1>3, <1>4, <1>5, LoadForSave

LEMMA PasswordFindMoves ==
    ASSUME MemberTypeInv, MemberNulls, NEW h \in Workers, NEW m \in Registry!Ids, Registry!PasswordFind(h, m)
    PROVE  \E a \in Registry!Ids, next \in Registry!Transaction :
              Moves(h, next) /\ Loads(h, a, next) /\ Loaded(next.entity, members[a])
  <1> DEFINE next == [Registry!Idle EXCEPT !.stage = "saving", !.op = "password", !.id = m,
                                  !.entity = members[m]]
  <1>1. members[m] \in Registry!Member /\ Registry!Exists(m) /\ memberTxn[h].stage = "idle" /\ UNCHANGED Registry!stored
    BY DEF MemberTypeInv, Registry!TypeOK, Registry!PasswordFind, Registry!Exists
  <1>2. Moves(h, next)
    BY DEF Registry!PasswordFind, Registry!Goto, Moves
  <1>3. /\ next \in Registry!Transaction /\ next.stage = "saving" /\ next.op = "password"
        /\ next.id = m /\ next.entity = members[m] /\ next.picture = None
    BY <1>1 DEF Registry!Idle, Registry!Transaction, Registry!NoEntity
  <1> HIDE DEF next
  <1>4. Loads(h, m, next)
    BY <1>1, <1>3 DEF Loads
  <1>5. QED
    BY <1>2, <1>3, <1>4 DEF Loaded

\* The handler goes on with the entity it has.
Keeps(t, next) ==
    GoesOn(t, next) /\ next.entity = t.entity

LEMMA AfterSaveFields ==
    ASSUME NEW t \in Registry!Transaction
    PROVE  LET next == Registry!AfterSave(t) IN
           /\ next \in Registry!Transaction
           /\ next.stage \in {"idle", "uploading", "profile"}
           /\ next.stage # "idle" =>
                 /\ t.op = "update" /\ Keeps(t, next) /\ next.picture = t.picture
                 /\ next.file <=> next.stage = "uploading"
           /\ next.stage = "idle" => next.picture = None
  BY ToPictureFields, IdleMember DEF Registry!AfterSave, Keeps, GoesOn, Registry!Transaction

LEMMA SaveSelectMoves ==
    ASSUME MemberTypeInv, MemberNulls, NEW h \in Workers, Registry!SaveSelect(h)
    PROVE  LET t == memberTxn[h] IN
           \E next \in Registry!Transaction :
              /\ Moves(h, next)
              /\ t.stage = "saving"
              /\ Keeps(t, next) /\ next.picture = t.picture
              /\ \/ /\ next.stage = "updating" /\ Registry!Exists(t.id)
                    /\ next.columns = Registry!Changed(t.entity, members[t.id])
                 \/ next.stage = "restoring" /\ ~Registry!Exists(t.id)
  <1> DEFINE t == memberTxn[h]
             C == Registry!Changed(t.entity, members[t.id])
             upd == [t EXCEPT !.stage = "updating", !.columns = C]
             ins == [t EXCEPT !.stage = "restoring"]
  <1>1. t \in Registry!Transaction /\ t.stage = "saving" /\ (Registry!Exists(t.id) => members[t.id] \in Registry!Member)
    BY HolderFacts DEF Registry!SaveSelect
  <1>2. Registry!Exists(t.id) => C \subseteq {"email", "nickname", "role", "status"}
    BY <1>1 DEF Registry!Changed, Registry!Member
  <1>3. IF Registry!Exists(t.id) THEN Moves(h, upd) ELSE Moves(h, ins)
    BY DEF Registry!SaveSelect, Registry!Goto, Moves
  <1> HIDE DEF t, C
  <1>4. /\ ins \in Registry!Transaction /\ Keeps(t, ins) /\ ins.picture = t.picture
        /\ ins.stage = "restoring"
    BY <1>1 DEF Registry!Transaction, Keeps, GoesOn
  <1>5. Registry!Exists(t.id) =>
           /\ upd \in Registry!Transaction /\ Keeps(t, upd) /\ upd.picture = t.picture
           /\ upd.stage = "updating" /\ upd.columns = C
    BY <1>1, <1>2 DEF Registry!Transaction, Keeps, GoesOn
  <1> HIDE DEF upd, ins
  <1>6. QED
    BY <1>1, <1>3, <1>4, <1>5 DEF t, C

\* The row of the entity, written or inserted.
LEMMA SaveMoves ==
    ASSUME MemberTypeInv, MemberNulls, NEW h \in Workers,
           Registry!SaveUpdate(h) \/ (Registry!SaveInsert(h) /\ ~Registry!Exists(memberTxn[h].id))
    PROVE  LET t == memberTxn[h] IN
           /\ \E next \in Registry!Transaction :
                 /\ Moves(h, next)
                 /\ next = Registry!AfterSave(t)
           /\ t.stage \in {"updating", "restoring"}
           /\ members' = [members EXCEPT ![t.id] =
                            IF t.stage = "restoring" THEN t.entity
                            ELSE IF Registry!Exists(t.id) THEN Registry!Written(t.entity, members[t.id], t.columns)
                            ELSE members[t.id]]
           /\ UNCHANGED <<created, aged, profiles, uploads, objects, cutShort>>
  <1>1. memberTxn[h] \in Registry!Transaction
    BY HolderFacts
  <1>2. Registry!AfterSave(memberTxn[h]) \in Registry!Transaction
    BY <1>1, AfterSaveFields
  <1>3. QED
    BY <1>2 DEF Registry!SaveUpdate, Registry!SaveInsert, Registry!Goto, Moves, Registry!pictureRows

LEMMA UploadMoves ==
    ASSUME MemberTypeInv, MemberNulls, NEW h \in Workers, Registry!Upload(h)
    PROVE  LET t == memberTxn[h] IN
           /\ \E next \in Registry!Transaction :
                 /\ Moves(h, next)
                 /\ t.stage = "uploading" /\ next.stage = "profile"
                 /\ Keeps(t, next) /\ next.picture = uploads + 1
           /\ uploads + 1 \in Registry!Pictures
           /\ uploads' = uploads + 1 /\ objects' = objects \union {uploads + 1}
           /\ UNCHANGED <<members, created, aged, profiles, cutShort>>
  <1> DEFINE t == memberTxn[h]
             next == [t EXCEPT !.stage = "profile", !.picture = uploads + 1]
  <1>1. t \in Registry!Transaction
    BY HolderFacts
  <1>2. uploads + 1 \in Registry!Pictures
    BY DEF MemberTypeInv, Registry!TypeOK, MemberNulls, Registry!Upload, Registry!Pictures
  <1>3. Moves(h, next) /\ t.stage = "uploading"
    BY DEF Registry!Upload, Registry!Goto, Moves
  <1> HIDE DEF t
  <1>4. /\ next \in Registry!Transaction /\ next.stage = "profile" /\ Keeps(t, next)
        /\ next.picture = uploads + 1
    BY <1>1, <1>2 DEF Registry!Transaction, Keeps, GoesOn
  <1> HIDE DEF next
  <1>5. QED
    BY <1>2, <1>3, <1>4 DEF t, Registry!Upload, Registry!memberRows

LEMMA ProfileFindMoves ==
    ASSUME MemberTypeInv, MemberNulls, NEW h \in Workers, Registry!ProfileFind(h)
    PROVE  LET t == memberTxn[h] IN
           \E next \in Registry!Transaction :
              /\ Moves(h, next)
              /\ t.stage = "profile" /\ Keeps(t, next)
              /\ \/ /\ next.stage = "adding" /\ profiles[t.id] = NoRow
                    /\ next.picture = t.picture
                 \/ /\ next.stage = "setting" /\ profiles[t.id] # NoRow /\ ~t.file
                    /\ next.picture = profiles[t.id]
                 \/ /\ next.stage = "setting" /\ profiles[t.id] = None /\ t.file
                    /\ next.picture = t.picture
                 \/ /\ next.stage = "deleting" /\ profiles[t.id] \in Registry!Pictures /\ t.file
                    /\ next.old = profiles[t.id] /\ next.picture = t.picture
  <1> DEFINE t == memberTxn[h]
             old == profiles[t.id]
  <1>1. t \in Registry!Transaction /\ t.stage = "profile" /\ old \in Registry!Pictures \union {None, NoRow}
    BY HolderFacts DEF Registry!ProfileFind, MemberTypeInv, Registry!TypeOK
  <1>2. \/ old = NoRow /\ Moves(h, [t EXCEPT !.stage = "adding"])
        \/ old # NoRow /\ ~t.file /\ Moves(h, [t EXCEPT !.stage = "setting", !.picture = old])
        \/ old = None /\ t.file /\ Moves(h, [t EXCEPT !.stage = "setting"])
        \/ old \in Registry!Pictures /\ t.file /\ Moves(h, [t EXCEPT !.stage = "deleting", !.old = old])
    <2>1. CASE old = NoRow
      BY <2>1, <1>1 DEF Registry!ProfileFind, Registry!Goto, Moves, MemberNulls
    <2>2. CASE old # NoRow /\ ~t.file
      BY <2>2, <1>1 DEF Registry!ProfileFind, Registry!Goto, Moves, MemberNulls
    <2>3. CASE old = None /\ t.file
      BY <2>3, <1>1 DEF Registry!ProfileFind, Registry!Goto, Moves, MemberNulls
    <2>4. CASE old \in Registry!Pictures /\ t.file
      BY <2>4, <1>1 DEF Registry!ProfileFind, Registry!Goto, Moves, MemberNulls
    <2>5. QED
      BY <1>1, <2>1, <2>2, <2>3, <2>4 DEF Registry!Transaction
  <1> HIDE DEF t, old
  <1>3. ASSUME old = NoRow
        PROVE  LET next == [t EXCEPT !.stage = "adding"] IN
               next \in Registry!Transaction /\ next.stage = "adding" /\ Keeps(t, next) /\ next.picture = t.picture
    BY <1>1 DEF Registry!Transaction, Keeps, GoesOn
  <1>4. ASSUME old # NoRow
        PROVE  LET next == [t EXCEPT !.stage = "setting", !.picture = old] IN
               next \in Registry!Transaction /\ next.stage = "setting" /\ Keeps(t, next) /\ next.picture = old
    BY <1>1, <1>4 DEF Registry!Transaction, Keeps, GoesOn
  <1>5. LET next == [t EXCEPT !.stage = "setting"] IN
        next \in Registry!Transaction /\ next.stage = "setting" /\ Keeps(t, next) /\ next.picture = t.picture
    BY <1>1 DEF Registry!Transaction, Keeps, GoesOn
  <1>6. ASSUME old \in Registry!Pictures
        PROVE  LET next == [t EXCEPT !.stage = "deleting", !.old = old] IN
               /\ next \in Registry!Transaction /\ next.stage = "deleting" /\ Keeps(t, next)
               /\ next.picture = t.picture /\ next.old = old
    BY <1>1, <1>6 DEF Registry!Transaction, Keeps, GoesOn
  <1>7. QED
    BY <1>1, <1>2, <1>3, <1>4, <1>5, <1>6 DEF t, old

\* The other steps that only go on to the next stage.
LEMMA GoOnFields ==
    ASSUME NEW t \in Registry!Transaction, NEW stage \in Stages
    PROVE  LET next == [t EXCEPT !.stage = stage] IN
           next \in Registry!Transaction /\ next.stage = stage /\ Keeps(t, next) /\ next.picture = t.picture
  BY DEF Registry!Transaction, Keeps, GoesOn, Stages

LEMMA PictureMoves ==
    ASSUME MemberTypeInv, MemberNulls, NEW h \in Workers,
           \/ Registry!DeleteOld(h)
           \/ Registry!AddProfile(h) /\ Registry!Exists(memberTxn[h].id) /\ profiles[memberTxn[h].id] = NoRow
           \/ Registry!SetProfile(h)
    PROVE  LET t == memberTxn[h] IN
           \E next \in Registry!Transaction :
              /\ Moves(h, next)
              /\ Keeps(t, next) /\ next.picture = t.picture
              /\ \/ Registry!DeleteOld(h) /\ next.stage = "setting"
                 \/ (Registry!AddProfile(h) \/ Registry!SetProfile(h)) /\ next.stage = "tags"
                    /\ profiles' = [profiles EXCEPT ![t.id] = t.picture]
                    /\ UNCHANGED <<members, created, aged, uploads, objects, cutShort>>
  <1> DEFINE t == memberTxn[h]
  <1>1. t \in Registry!Transaction
    BY HolderFacts
  <1>2. \/ Registry!DeleteOld(h) /\ Moves(h, [t EXCEPT !.stage = "setting"])
        \/ /\ Registry!AddProfile(h) \/ Registry!SetProfile(h)
           /\ Moves(h, [t EXCEPT !.stage = "tags"])
           /\ profiles' = [profiles EXCEPT ![t.id] = t.picture]
           /\ UNCHANGED <<members, created, aged, uploads, objects, cutShort>>
    BY DEF Registry!DeleteOld, Registry!AddProfile, Registry!SetProfile, Registry!Goto, Moves, Registry!memberRows
  <1> HIDE DEF t
  <1>3. "setting" \in Stages /\ "tags" \in Stages
    BY DEF Stages
  <1>4. QED
    BY <1>1, <1>2, <1>3, GoOnFields DEF t

LEMMA PromoteMoves ==
    ASSUME MemberTypeInv, MemberNulls, NEW h \in Workers, Registry!Promote(h)
    PROVE  LET t == memberTxn[h] IN
           \/ Moves(h, Registry!Idle)
           \/ \E next \in Registry!Transaction :
                 /\ Moves(h, next)
                 /\ next.stage = "saving" /\ t.op = "upload"
                 /\ GoesOn(t, next) /\ next.picture = t.picture
                 /\ next.entity \in Registry!Member
                 /\ next.entity.email = t.entity.email /\ next.entity.nickname = t.entity.nickname
                 /\ next.entity.status = t.entity.status
  <1> DEFINE t == memberTxn[h]
             next == [t EXCEPT !.stage = "saving", !.entity.role = "ROLE_MEMBER"]
  <1>1. t \in Registry!Transaction /\ t.entity \in Registry!Member
    BY HolderFacts DEF Registry!Promote
  <1>2. Moves(h, Registry!Idle) \/ (Moves(h, next) /\ t.op = "upload")
    <2>1. CASE t.op = "upload" /\ t.entity.role = "ROLE_TEMP"
      BY <2>1 DEF Registry!Promote, Registry!Goto, Moves
    <2>2. ASSUME ~(t.op = "upload" /\ t.entity.role = "ROLE_TEMP")
          PROVE  Moves(h, Registry!Idle)
      BY <2>2 DEF Registry!Promote, Registry!Goto, Registry!Done, Moves
    <2>3. QED
      BY <2>1, <2>2
  <1> HIDE DEF t
  <1>3. /\ next \in Registry!Transaction /\ next.stage = "saving" /\ GoesOn(t, next) /\ next.picture = t.picture
        /\ next.entity \in Registry!Member /\ next.entity.email = t.entity.email
        /\ next.entity.nickname = t.entity.nickname /\ next.entity.status = t.entity.status
    BY <1>1 DEF Registry!Transaction, GoesOn, Registry!Member
  <1> HIDE DEF next
  <1>4. QED
    BY <1>2, <1>3 DEF t

\* The end of a request, with or without a failure.
Ends(h) ==
    /\ memberTxn[h].stage # "idle"
    /\ Moves(h, Registry!Idle)
    /\ UNCHANGED <<members, created, aged, profiles, uploads, objects>>
    /\ \/ cutShort' = TRUE
       \/ cutShort' = cutShort /\ memberTxn[h].stage \in {"named", "authenticated", "tags"}

\* A handler that fails, refuses or has nothing left to do.
LEMMA EndMoves ==
    ASSUME NEW h \in Workers,
           \/ Registry!CreateFindNickname(h) /\ Moves(h, Registry!Idle) /\ memberTxn[h].stage = "named"
           \/ Registry!UploadFind(h) /\ ~Registry!Exists(memberTxn[h].id)
           \/ Registry!WithdrawFind(h) /\ ~Registry!Exists(memberTxn[h].id)
           \/ \E name \in Nicknames \union {None} : Registry!UpdateRefused(h, name)
           \/ Registry!Promote(h) /\ Moves(h, Registry!Idle)
           \/ Registry!SaveInsert(h) /\ Registry!Exists(memberTxn[h].id)
           \/ Registry!AddProfile(h) /\ ~(Registry!Exists(memberTxn[h].id) /\ profiles[memberTxn[h].id] = NoRow)
           \/ Registry!Interrupt(h)
    PROVE  Ends(h)
  BY FindsNothing
     DEF Ends, Moves, Registry!CreateFindNickname, Registry!Promote, Registry!SaveInsert, Registry!AddProfile, Registry!Interrupt, Registry!Fail, Registry!Done, Registry!Goto,
         Registry!stored, Registry!memberRows, Registry!pictureRows

-----------------------------------------------------------------------------
\* Types.

\* The tables and the handler, each of its type after the step.
LEMMA TypesAfter ==
    ASSUME MemberTypeInv, MemberNulls, NEW h \in Workers, NEW next \in Registry!Transaction, Moves(h, next),
           HolderType(next)',
           /\ members' \in [Registry!Ids -> Registry!Member \union {NoRow}]
           /\ created' \in 0..MaxMembers /\ created <= created'
           /\ \A m \in Registry!Ids : m > created' => members'[m] = NoRow
           /\ aged' \subseteq 1..created'
           /\ profiles' \in [Registry!Ids -> Registry!Pictures \union {None, NoRow}]
           /\ \A m \in Registry!Ids : profiles'[m] # NoRow => members'[m] # NoRow
           /\ \A m \in Registry!Ids : profiles[m] # NoRow => profiles'[m] # NoRow
           /\ uploads' \in 0..MaxUploads
           /\ objects' \subseteq 1..uploads'
           /\ cutShort' \in BOOLEAN
    PROVE  MemberTypeInv'
  <1>1. memberTxn \in [Workers -> Registry!Transaction]
    BY DEF MemberTypeInv, Registry!TypeOK
  <1>2. memberTxn'[h] = next /\ \A g \in Workers \ {h} : memberTxn'[g] = memberTxn[g]
    BY <1>1 DEF Moves
  <1>3. 1..created \subseteq 1..created'
    BY DEF MemberTypeInv, Registry!TypeOK
  <1>4. ASSUME NEW g \in Workers \ {h}
        PROVE  HolderType(memberTxn[g])'
    <2>1. HolderType(memberTxn[g]) /\ memberTxn'[g] = memberTxn[g] /\ memberTxn[g] \in Registry!Transaction
      BY <1>1, <1>2 DEF MemberTypeInv
    <2>2. 1..created \subseteq Registry!Ids
      BY DEF MemberTypeInv, Registry!TypeOK, MemberNulls, Registry!Ids
    <2>3. QED
      BY <1>3, <2>1, <2>2 DEF HolderType
  <1>5. \A g \in Workers : HolderType(memberTxn[g])'
    BY <1>2, <1>4
  <1>6. memberTxn' \in [Workers -> Registry!Transaction]
    BY <1>1 DEF Moves
  <1>7. QED
    BY <1>5, <1>6 DEF MemberTypeInv, Registry!TypeOK

\* When the tables stay.
LEMMA TypesRest ==
    ASSUME MemberTypeInv, MemberNulls, NEW h \in Workers, NEW next \in Registry!Transaction, Moves(h, next),
           HolderType(next), UNCHANGED <<members, created, aged, profiles, uploads, objects>>,
           cutShort' \in BOOLEAN
    PROVE  MemberTypeInv'
  <1>1. HolderType(next)'
    BY DEF HolderType
  <1>2. created <= created'
    BY DEF MemberTypeInv, Registry!TypeOK
  <1>3. QED
    BY <1>1, <1>2, TypesAfter DEF MemberTypeInv, Registry!TypeOK

\* Every step is one of these.
LEMMA NextKinds ==
    ASSUME MemberTypeInv, MemberNulls, [Registry!Next]_(Registry!vars)
    PROVE  \/ \E h \in Workers :
                 \/ \E email \in Emails, name \in Nicknames \union {None},
                       role \in {"ROLE_TEMP", "ROLE_MEMBER"} : Registry!CreateFind(h, email, name, role)
                 \/ Ends(h)
                 \/ Registry!CreateFindNickname(h) /\ ~Ends(h)
                 \/ Registry!Insert(h)
                 \/ \E m \in Registry!Ids, op \in {"upload", "update", "withdraw"}, file \in BOOLEAN :
                       Registry!Authenticate(h, m, op, file)
                 \/ \E a \in Registry!Ids, next \in Registry!Transaction :
                       Moves(h, next) /\ Loads(h, a, next) /\ Loaded(next.entity, members[a])
                 \/ Registry!SaveSelect(h)
                 \/ Registry!SaveUpdate(h) \/ (Registry!SaveInsert(h) /\ ~Registry!Exists(memberTxn[h].id))
                 \/ Registry!Upload(h) \/ Registry!ProfileFind(h) \/ Registry!DeleteOld(h)
                 \/ Registry!AddProfile(h) /\ Registry!Exists(memberTxn[h].id) /\ profiles[memberTxn[h].id] = NoRow
                 \/ Registry!SetProfile(h)
                 \/ Registry!Promote(h) /\ ~Ends(h)
           \/ \E m \in Registry!Ids : Registry!Age(m)
           \/ Registry!HandleCron
           \/ UNCHANGED Registry!vars
  BY UploadFindMoves, WithdrawFindMoves, UpdateFindMoves, PasswordFindMoves, EndMoves DEF Registry!Next

\* Every step keeps the types.
LEMMA MemberTypes ==
    ASSUME MemberTypeInv, MemberNulls, [Registry!Next]_(Registry!vars)
    PROVE  MemberTypeInv'
  <1>1. ASSUME NEW h \in Workers, NEW email \in Emails, NEW name \in Nicknames \union {None},
               NEW role \in {"ROLE_TEMP", "ROLE_MEMBER"}, Registry!CreateFind(h, email, name, role)
        PROVE  MemberTypeInv'
    <2>1. PICK next \in Registry!Transaction :
             Moves(h, next) /\ next.stage = "named" /\ next.op = "create" /\ next.entity \in Registry!Member
      BY <1>1, CreateFindMoves
    <2>2. HolderType(next)
      BY <2>1 DEF HolderType
    <2>3. QED
      BY <1>1, <2>1, <2>2, TypesRest
         DEF Registry!CreateFind, Registry!stored, Registry!memberRows, Registry!pictureRows, MemberTypeInv, Registry!TypeOK
  <1>2. ASSUME NEW h \in Workers, Ends(h)
        PROVE  MemberTypeInv'
    BY <1>2, IdleMember, TypesRest DEF Ends, HolderType, MemberTypeInv, Registry!TypeOK
  <1>3. ASSUME NEW h \in Workers, Registry!CreateFindNickname(h), ~Ends(h)
        PROVE  MemberTypeInv'
    <2>1. PICK next \in Registry!Transaction :
             /\ Moves(h, next) /\ next.stage = "inserting" /\ GoesOn(memberTxn[h], next)
             /\ next.entity = memberTxn[h].entity
      BY <1>3, NamedMoves, EndMoves
    <2>2. memberTxn[h].stage = "named" /\ UNCHANGED Registry!stored
      BY <1>3 DEF Registry!CreateFindNickname
    <2>3. HolderType(next)
      BY <2>1, <2>2 DEF HolderType, GoesOn, MemberTypeInv
    <2>4. QED
      BY <2>1, <2>2, <2>3, TypesRest DEF Registry!stored, Registry!memberRows, Registry!pictureRows, MemberTypeInv, Registry!TypeOK
  <1>4. ASSUME NEW h \in Workers, Registry!Insert(h)
        PROVE  MemberTypeInv'
    <2>1. /\ Moves(h, Registry!Idle) /\ memberTxn[h].entity \in Registry!Member
          /\ created' = created + 1 /\ created + 1 \in Registry!Ids
          /\ members' = [members EXCEPT ![created + 1] = memberTxn[h].entity]
          /\ UNCHANGED <<aged, profiles, uploads, objects, cutShort>>
      <3>1. created + 1 \in Registry!Ids
        BY <1>4 DEF Registry!Insert, MemberTypeInv, Registry!TypeOK, MemberNulls, Registry!Ids
      <3>2. memberTxn[h].entity \in Registry!Member
        BY <1>4, HolderFacts DEF Registry!Insert
      <3>3. QED
        BY <1>4, <3>1, <3>2 DEF Registry!Insert, Registry!Done, Registry!Goto, Moves, Registry!pictureRows
    <2>2. HolderType(Registry!Idle)'
      BY IdleMember DEF HolderType
    <2>3. /\ members' \in [Registry!Ids -> Registry!Member \union {NoRow}]
          /\ \A m \in Registry!Ids : m > created' => members'[m] = NoRow
          /\ \A m \in Registry!Ids : profiles'[m] # NoRow => members'[m] # NoRow
      BY <2>1 DEF MemberTypeInv, Registry!TypeOK, MemberNulls, Registry!Ids
    <2>4. created' \in 0..MaxMembers /\ created <= created' /\ aged' \subseteq 1..created'
      BY <2>1 DEF MemberTypeInv, Registry!TypeOK, MemberNulls, Registry!Ids
    <2>5. QED
      BY <2>1, <2>2, <2>3, <2>4, IdleMember, TypesAfter DEF MemberTypeInv, Registry!TypeOK
  <1>5. ASSUME NEW h \in Workers, NEW m \in Registry!Ids, NEW op \in {"upload", "update", "withdraw"},
               NEW file \in BOOLEAN, Registry!Authenticate(h, m, op, file)
        PROVE  MemberTypeInv'
    <2>1. m \in 1..created /\ UNCHANGED Registry!stored
      BY <1>5 DEF Registry!Authenticate, Registry!Exists, MemberTypeInv, Registry!TypeOK, Registry!Ids, MemberNulls
    <2>2. QED
      BY <1>5, <2>1, AuthenticateMoves, TypesRest
         DEF Registry!stored, Registry!memberRows, Registry!pictureRows, HolderType, MemberTypeInv, Registry!TypeOK
  <1>6. ASSUME NEW h \in Workers, NEW a \in Registry!Ids, NEW next \in Registry!Transaction,
               Moves(h, next), Loads(h, a, next)
        PROVE  MemberTypeInv'
    <2>1. a \in 1..created
      BY <1>6 DEF Loads, Registry!Exists, MemberTypeInv, Registry!TypeOK, Registry!Ids, MemberNulls
    <2>2. HolderType(next)
      BY <1>6, <2>1 DEF Loads, HolderType
    <2>3. QED
      BY <1>6, <2>2, TypesRest DEF Loads, Registry!stored, Registry!memberRows, Registry!pictureRows, MemberTypeInv, Registry!TypeOK
  <1>7. ASSUME NEW h \in Workers, Registry!SaveSelect(h)
        PROVE  MemberTypeInv'
    <2>1. PICK next \in Registry!Transaction :
             /\ Moves(h, next) /\ memberTxn[h].stage = "saving" /\ Keeps(memberTxn[h], next)
             /\ next.stage \in {"updating", "restoring"}
      BY <1>7, SaveSelectMoves
    <2>2. HolderType(next)
      BY <2>1 DEF HolderType, Keeps, GoesOn, MemberTypeInv
    <2>3. QED
      BY <1>7, <2>1, <2>2, TypesRest
         DEF Registry!SaveSelect, Registry!stored, Registry!memberRows, Registry!pictureRows, MemberTypeInv, Registry!TypeOK
  <1>8. ASSUME NEW h \in Workers, Registry!SaveUpdate(h) \/ (Registry!SaveInsert(h) /\ ~Registry!Exists(memberTxn[h].id))
        PROVE  MemberTypeInv'
    <2> DEFINE t == memberTxn[h]
               row == IF t.stage = "restoring" THEN t.entity
                      ELSE IF Registry!Exists(t.id) THEN Registry!Written(t.entity, members[t.id], t.columns)
                      ELSE members[t.id]
    <2>0. PICK next \in Registry!Transaction : Moves(h, next) /\ next = Registry!AfterSave(t)
      BY <1>8, SaveMoves
    <2>1. /\ t \in Registry!Transaction /\ t.stage \in {"updating", "restoring"}
          /\ members' = [members EXCEPT ![t.id] = row]
          /\ UNCHANGED <<created, aged, profiles, uploads, objects, cutShort>>
      BY <1>8, SaveMoves, HolderFacts
    <2>2. /\ t.id \in Registry!Ids /\ t.id \in 1..created /\ t.entity \in Registry!Member
          /\ Registry!Exists(t.id) => members[t.id] \in Registry!Member
      BY <2>1, HolderFacts
    <2>3. ASSUME Registry!Exists(t.id)
          PROVE  Registry!Written(t.entity, members[t.id], t.columns) \in Registry!Member
      BY <2>2, <2>3 DEF Registry!Written, Registry!Member
    <2>4. row \in Registry!Member \union {NoRow} /\ (members[t.id] # NoRow => row # NoRow)
      BY <2>2, <2>3 DEF MemberNulls, Registry!Exists
    <2>5. HolderType(next)
      BY <2>0, <2>1, <2>2, AfterSaveFields DEF HolderType, Keeps, GoesOn
    <2> HIDE DEF row, t
    <2>6. HolderType(next)'
      BY <2>1, <2>5 DEF HolderType
    <2>7. /\ members' \in [Registry!Ids -> Registry!Member \union {NoRow}]
          /\ \A m \in Registry!Ids : m > created' => members'[m] = NoRow
          /\ \A m \in Registry!Ids : profiles'[m] # NoRow => members'[m] # NoRow
      BY <2>1, <2>2, <2>4 DEF MemberTypeInv, Registry!TypeOK, Registry!Ids, MemberNulls
    <2>8. created <= created'
      BY <2>1 DEF MemberTypeInv, Registry!TypeOK
    <2>9. QED
      BY <2>0, <2>1, <2>6, <2>7, <2>8, TypesAfter DEF MemberTypeInv, Registry!TypeOK
  <1>9. ASSUME NEW h \in Workers, Registry!Upload(h)
        PROVE  MemberTypeInv'
    <2>1. PICK next \in Registry!Transaction :
             /\ Moves(h, next) /\ memberTxn[h].stage = "uploading" /\ next.stage = "profile"
             /\ Keeps(memberTxn[h], next)
      BY <1>9, UploadMoves
    <2>2. /\ uploads + 1 \in Registry!Pictures
          /\ uploads' = uploads + 1 /\ objects' = objects \union {uploads + 1}
          /\ UNCHANGED <<members, created, aged, profiles, cutShort>>
      BY <1>9, UploadMoves
    <2>3. HolderType(next)'
      BY <2>1, <2>2 DEF HolderType, Keeps, GoesOn, MemberTypeInv
    <2>4. uploads' \in 0..MaxUploads /\ objects' \subseteq 1..uploads' /\ created <= created'
      BY <2>2 DEF MemberTypeInv, Registry!TypeOK, Registry!Pictures, MemberNulls
    <2>5. QED
      BY <2>1, <2>2, <2>3, <2>4, TypesAfter DEF MemberTypeInv, Registry!TypeOK
  <1>10. ASSUME NEW h \in Workers, Registry!ProfileFind(h)
         PROVE  MemberTypeInv'
    <2>1. PICK next \in Registry!Transaction :
             /\ Moves(h, next) /\ memberTxn[h].stage = "profile" /\ Keeps(memberTxn[h], next)
             /\ next.stage \in {"adding", "setting", "deleting"}
             /\ next.stage # "adding" => profiles[memberTxn[h].id] # NoRow
      BY <1>10, ProfileFindMoves DEF MemberNulls
    <2>2. HolderType(next)
      BY <2>1 DEF HolderType, Keeps, GoesOn, MemberTypeInv
    <2>3. QED
      BY <1>10, <2>1, <2>2, TypesRest
         DEF Registry!ProfileFind, Registry!stored, Registry!memberRows, Registry!pictureRows, MemberTypeInv, Registry!TypeOK
  <1>11. ASSUME NEW h \in Workers, Registry!DeleteOld(h)
         PROVE  MemberTypeInv'
    <2>1. PICK next \in Registry!Transaction :
             Moves(h, next) /\ Keeps(memberTxn[h], next) /\ next.stage \in {"setting", "tags"}
      BY <1>11, PictureMoves
    <2>2. /\ memberTxn[h].stage = "deleting" /\ objects' = objects \ {memberTxn[h].old}
          /\ UNCHANGED <<members, created, aged, profiles, uploads, cutShort>>
      BY <1>11 DEF Registry!DeleteOld, Registry!memberRows
    <2>3. HolderType(next)'
      BY <2>1, <2>2 DEF HolderType, Keeps, GoesOn, MemberTypeInv
    <2>4. objects' \subseteq 1..uploads'
      BY <2>2 DEF MemberTypeInv, Registry!TypeOK
    <2>5. created <= created'
      BY <2>2 DEF MemberTypeInv, Registry!TypeOK
    <2>6. QED
      BY <2>1, <2>2, <2>3, <2>4, <2>5, TypesAfter DEF MemberTypeInv, Registry!TypeOK
  <1>12. ASSUME NEW h \in Workers,
                \/ Registry!AddProfile(h) /\ Registry!Exists(memberTxn[h].id) /\ profiles[memberTxn[h].id] = NoRow
                \/ Registry!SetProfile(h)
         PROVE  MemberTypeInv'
    <2> DEFINE t == memberTxn[h]
    <2>1. PICK next \in Registry!Transaction :
             /\ Moves(h, next) /\ Keeps(t, next) /\ next.stage = "tags"
             /\ profiles' = [profiles EXCEPT ![t.id] = t.picture]
             /\ UNCHANGED <<members, created, aged, uploads, objects, cutShort>>
      <3>1. ~Registry!DeleteOld(h)
        BY <1>12 DEF Registry!AddProfile, Registry!SetProfile, Registry!DeleteOld
      <3>2. QED
        BY <1>12, <3>1, PictureMoves
    <2>2. t \in Registry!Transaction /\ t.stage \in {"adding", "setting"} /\ t.id \in Registry!Ids /\ t.entity \in Registry!Member
          /\ t.id \in 1..created
      BY <1>12, HolderFacts DEF Registry!AddProfile, Registry!SetProfile
    <2>3. members[t.id] # NoRow
      BY <1>12, <2>2 DEF Registry!AddProfile, Registry!SetProfile, Registry!Exists, MemberTypeInv, Registry!TypeOK, HolderType
    <2>4. t.picture \in Registry!Pictures \union {None} /\ t.picture # NoRow
      BY <2>2 DEF Registry!Transaction, MemberNulls
    <2>5. HolderType(next)'
      BY <2>1, <2>2 DEF HolderType, Keeps, GoesOn
    <2> HIDE DEF t
    <2>6. /\ profiles' \in [Registry!Ids -> Registry!Pictures \union {None, NoRow}]
          /\ \A m \in Registry!Ids : profiles'[m] # NoRow => members'[m] # NoRow
          /\ \A m \in Registry!Ids : profiles[m] # NoRow => profiles'[m] # NoRow
      BY <2>1, <2>2, <2>3, <2>4 DEF MemberTypeInv, Registry!TypeOK
    <2>7. created <= created'
      BY <2>1 DEF MemberTypeInv, Registry!TypeOK
    <2>8. QED
      BY <2>1, <2>5, <2>6, <2>7, TypesAfter DEF MemberTypeInv, Registry!TypeOK
  <1>13. ASSUME NEW h \in Workers, Registry!Promote(h), ~Ends(h)
         PROVE  MemberTypeInv'
    <2>1. PICK next \in Registry!Transaction :
             /\ Moves(h, next) /\ next.stage = "saving" /\ memberTxn[h].op = "upload"
             /\ GoesOn(memberTxn[h], next) /\ next.entity \in Registry!Member
      BY <1>13, PromoteMoves, EndMoves
    <2>2. memberTxn[h].stage = "tags" /\ UNCHANGED Registry!stored
      BY <1>13 DEF Registry!Promote
    <2>3. HolderType(next)
      BY <2>1, <2>2 DEF HolderType, GoesOn, MemberTypeInv
    <2>4. QED
      BY <2>1, <2>2, <2>3, TypesRest DEF Registry!stored, Registry!memberRows, Registry!pictureRows, MemberTypeInv, Registry!TypeOK
  <1>14. ASSUME NEW m \in Registry!Ids, Registry!Age(m)
         PROVE  MemberTypeInv'
    BY <1>14 DEF Registry!Age, Registry!pictureRows, MemberTypeInv, Registry!TypeOK, HolderType
  <1>15. ASSUME Registry!HandleCron
         PROVE  MemberTypeInv'
    <2>1. /\ UNCHANGED <<created, aged, profiles, uploads, objects, memberTxn, cutShort>>
          /\ members' = [m \in Registry!Ids |-> IF Registry!Expired(m) THEN NoRow ELSE members[m]]
          /\ \A m \in Registry!Ids : Registry!Expired(m) => profiles[m] = NoRow
      BY <1>15 DEF Registry!HandleCron, Registry!pictureRows
    <2>2. QED
      BY <2>1 DEF MemberTypeInv, Registry!TypeOK, HolderType
  <1>16. CASE UNCHANGED Registry!vars
    BY <1>16 DEF Registry!vars, MemberTypeInv, Registry!TypeOK, HolderType
  <1>17. QED
    BY <1>1, <1>2, <1>3, <1>4, <1>5, <1>6, <1>7, <1>8, <1>9, <1>10, <1>11, <1>12, <1>13, <1>14,
       <1>15, <1>16, NextKinds

-----------------------------------------------------------------------------
\* An address and its member, whatever overlaps.

\* A handler goes on, and what it holds from now on was there before: in the
\* row of the member, or in its own entity.  No row gets an address.
LEMMA AddressRest ==
    ASSUME MemberTypeInv, MemberNulls, AddressInv, NEW h \in Workers, NEW next \in Registry!Transaction, Moves(h, next),
           \A m \in Registry!Ids : Registry!Exists(m)' => members'[m] = members[m] /\ Registry!Exists(m),
           next.stage \in {"named", "inserting"} \/ Holds(next) => GivenBack(next.entity),
           Holds(next) =>
              /\ next.id \in Registry!Ids
              /\ \/ Registry!Exists(next.id) /\ next.entity.email \in {None, members[next.id].email}
                 \/ /\ Holds(memberTxn[h]) /\ memberTxn[h].id = next.id
                    /\ next.entity.email \in {None, memberTxn[h].entity.email},
           next.stage = "updating" => ("email" \in next.columns <=> "status" \in next.columns)
    PROVE  AddressInv'
  <1>1. memberTxn \in [Workers -> Registry!Transaction]
    BY DEF MemberTypeInv, Registry!TypeOK
  <1>2. memberTxn'[h] = next /\ \A g \in Workers \ {h} : memberTxn'[g] = memberTxn[g]
    BY <1>1 DEF Moves
  <1>3. Registry!AddressGivenBack'
    BY DEF AddressInv, Registry!AddressGivenBack
  <1>4. ASSUME Holds(next)
        PROVE  /\ Registry!Exists(next.id) => SameEmail(next.entity, members[next.id])
               /\ \A g \in Workers :
                     Holds(memberTxn[g]) /\ memberTxn[g].id = next.id => SameEmail(next.entity, memberTxn[g].entity)
    BY <1>4 DEF AddressInv, SameEmail
  <1>5. ASSUME NEW g \in Workers, Holds(memberTxn'[g]), members'[memberTxn'[g].id] # NoRow
        PROVE  SameEmail(memberTxn'[g].entity, members'[memberTxn'[g].id])
    <2>1. CASE g = h
      BY <1>2, <1>4, <1>5, <2>1 DEF Registry!Exists
    <2>2. CASE g # h
      <3>1. memberTxn'[g] = memberTxn[g] /\ memberTxn[g].id \in Registry!Ids
        BY <1>2, <1>5, <2>2, HolderFacts DEF Holds
      <3>2. QED
        BY <1>5, <3>1 DEF AddressInv, Registry!Exists
    <2>3. QED
      BY <2>1, <2>2
  <1>7. ASSUME NEW f \in Workers, NEW g \in Workers, Holds(memberTxn'[f]), Holds(memberTxn'[g]),
               memberTxn'[f].id = memberTxn'[g].id
        PROVE  SameEmail(memberTxn'[f].entity, memberTxn'[g].entity)
    <2>1. CASE f = h /\ g = h
      BY <1>2, <2>1 DEF SameEmail
    <2>2. CASE f = h /\ g # h
      BY <1>2, <1>4, <1>7, <2>2
    <2>3. CASE f # h /\ g = h
      BY <1>2, <1>4, <1>7, <2>3 DEF SameEmail
    <2>4. CASE f # h /\ g # h
      BY <1>2, <1>7, <2>4 DEF AddressInv
    <2>5. QED
      BY <2>1, <2>2, <2>3, <2>4
  <1>8. ASSUME NEW g \in Workers
        PROVE  /\ memberTxn'[g].stage \in {"named", "inserting"} => GivenBack(memberTxn'[g].entity)
               /\ Holds(memberTxn'[g]) => GivenBack(memberTxn'[g].entity)
               /\ memberTxn'[g].stage = "updating" =>
                     ("email" \in memberTxn'[g].columns <=> "status" \in memberTxn'[g].columns)
    BY <1>2 DEF AddressInv
  <1>9. QED
    BY <1>3, <1>5, <1>7, <1>8 DEF AddressInv, Holds, GivenBack, SameEmail, Registry!Exists

\* A save writes address and status together or leaves both alone.
LEMMA WrittenGivenBack ==
    ASSUME NEW e \in Registry!Member, NEW row \in Registry!Member, NEW C, GivenBack(e), GivenBack(row),
           "email" \in C <=> "status" \in C
    PROVE  LET w == Registry!Written(e, row, C) IN
           GivenBack(w) /\ w.email \in {row.email, e.email}
  BY DEF Registry!Written, GivenBack, Registry!Member

LEMMA AddressSaves ==
    ASSUME MemberTypeInv, MemberNulls, AddressInv, NEW h \in Workers,
           Registry!SaveUpdate(h) \/ (Registry!SaveInsert(h) /\ ~Registry!Exists(memberTxn[h].id))
    PROVE  AddressInv'
  <1> DEFINE t == memberTxn[h]
             row == IF t.stage = "restoring" THEN t.entity
                    ELSE IF Registry!Exists(t.id) THEN Registry!Written(t.entity, members[t.id], t.columns)
                    ELSE members[t.id]
  <1>1. PICK next \in Registry!Transaction : Moves(h, next) /\ next = Registry!AfterSave(t)
    BY SaveMoves
  <1>2. /\ t \in Registry!Transaction /\ t.stage \in {"updating", "restoring"}
        /\ members' = [members EXCEPT ![t.id] = row]
        /\ t.id \in Registry!Ids /\ t.entity \in Registry!Member /\ GivenBack(t.entity) /\ Holds(t)
        /\ Registry!Exists(t.id) => members[t.id] \in Registry!Member /\ GivenBack(members[t.id])
        /\ t.stage = "updating" => ("email" \in t.columns <=> "status" \in t.columns)
    <2>1. t \in Registry!Transaction /\ t.stage \in {"updating", "restoring"}
          /\ members' = [members EXCEPT ![t.id] = row]
      BY SaveMoves, HolderFacts
    <2>2. QED
      BY <2>1, HolderFacts DEF Holds, AddressInv, Registry!AddressGivenBack, GivenBack
  <1>3. memberTxn \in [Workers -> Registry!Transaction] /\ members \in [Registry!Ids -> Registry!Member \union {NoRow}]
    BY DEF MemberTypeInv, Registry!TypeOK
  <1>4. memberTxn'[h] = next /\ \A g \in Workers \ {h} : memberTxn'[g] = memberTxn[g]
    BY <1>1, <1>3 DEF Moves
  <1>5. /\ members'[t.id] = row /\ \A m \in Registry!Ids \ {t.id} : members'[m] = members[m]
    BY <1>2, <1>3
  <1>6. row # NoRow =>
           /\ GivenBack(row)
           /\ row.email = t.entity.email \/ (Registry!Exists(t.id) /\ row.email = members[t.id].email)
    BY <1>2, WrittenGivenBack DEF Registry!Exists
  <1>7. Holds(next) => next.entity = t.entity /\ next.id = t.id /\ next.stage # "updating"
    BY <1>1, <1>2, AfterSaveFields DEF Holds, Keeps, GoesOn
  <1>8. next.stage \notin {"named", "inserting", "updating"}
    BY <1>1, <1>2, AfterSaveFields
  <1> HIDE DEF t, row
  <1>9. Registry!AddressGivenBack'
    BY <1>2, <1>5, <1>6 DEF AddressInv, Registry!AddressGivenBack, GivenBack, Registry!Exists
  <1>10. \A g \in Workers : Holds(memberTxn'[g]) =>
            Holds(memberTxn[g]) /\ memberTxn'[g].id = memberTxn[g].id /\ memberTxn'[g].entity = memberTxn[g].entity
              /\ memberTxn'[g].id \in Registry!Ids
    <2>1. \A g \in Workers : Holds(memberTxn[g]) => memberTxn[g].id \in Registry!Ids
      BY HolderFacts DEF Holds
    <2>2. QED
      BY <1>2, <1>4, <1>7, <2>1 DEF t
  <1>11. ASSUME NEW g \in Workers, Holds(memberTxn[g]), memberTxn[g].id = t.id, row # NoRow
         PROVE  SameEmail(memberTxn[g].entity, row)
    <2>1. SameEmail(memberTxn[g].entity, t.entity)
      BY <1>2, <1>11 DEF AddressInv, t
    <2>2. Registry!Exists(t.id) => SameEmail(memberTxn[g].entity, members[t.id])
      BY <1>11 DEF AddressInv
    <2>3. QED
      BY <1>6, <1>11, <2>1, <2>2 DEF SameEmail
  <1>12. ASSUME NEW g \in Workers, Holds(memberTxn'[g]), members'[memberTxn'[g].id] # NoRow
         PROVE  SameEmail(memberTxn'[g].entity, members'[memberTxn'[g].id])
    BY <1>5, <1>10, <1>11, <1>12 DEF AddressInv, Registry!Exists
  <1>13. \A f, g \in Workers :
            Holds(memberTxn'[f]) /\ Holds(memberTxn'[g]) /\ memberTxn'[f].id = memberTxn'[g].id =>
                SameEmail(memberTxn'[f].entity, memberTxn'[g].entity)
    BY <1>10 DEF AddressInv
  <1>14. \A g \in Workers : Holds(memberTxn'[g]) => GivenBack(memberTxn'[g].entity)
    BY <1>10 DEF AddressInv
  <1>15. \A g \in Workers :
            /\ memberTxn'[g].stage \in {"named", "inserting"} => GivenBack(memberTxn'[g].entity)
            /\ memberTxn'[g].stage = "updating" =>
                  ("email" \in memberTxn'[g].columns <=> "status" \in memberTxn'[g].columns)
    BY <1>4, <1>8 DEF AddressInv
  <1>16. QED
    BY <1>9, <1>12, <1>13, <1>14, <1>15 DEF AddressInv, Holds, GivenBack, SameEmail, Registry!Exists

\* Every step keeps the addresses.
LEMMA AddressStep ==
    ASSUME MemberTypeInv, MemberNulls, AddressInv, [Registry!Next]_(Registry!vars)
    PROVE  AddressInv'
  <1>1. ASSUME NEW h \in Workers, NEW email \in Emails, NEW name \in Nicknames \union {None},
               NEW role \in {"ROLE_TEMP", "ROLE_MEMBER"}, Registry!CreateFind(h, email, name, role)
        PROVE  AddressInv'
    <2>1. PICK next \in Registry!Transaction :
             /\ Moves(h, next) /\ next.stage = "named" /\ next.entity.email = email
             /\ next.entity.status = "ACTIVE"
      BY <1>1, CreateFindMoves
    <2>2. GivenBack(next.entity) /\ ~Holds(next)
      BY <2>1 DEF GivenBack, MemberNulls, Holds
    <2>3. UNCHANGED members
      BY <1>1 DEF Registry!CreateFind, Registry!stored, Registry!memberRows
    <2>4. QED
      BY <2>1, <2>2, <2>3, AddressRest DEF Registry!Exists
  <1>2. ASSUME NEW h \in Workers, Ends(h)
        PROVE  AddressInv'
    <2>1. ~Holds(Registry!Idle) /\ Registry!Idle \in Registry!Transaction /\ Registry!Idle.stage = "idle"
      BY IdleMember DEF Holds
    <2>2. QED
      BY <1>2, <2>1, AddressRest DEF Ends, Registry!Exists
  <1>3. ASSUME NEW h \in Workers, Registry!CreateFindNickname(h), ~Ends(h)
        PROVE  AddressInv'
    <2>1. PICK next \in Registry!Transaction :
             Moves(h, next) /\ next.stage = "inserting" /\ next.entity = memberTxn[h].entity
      BY <1>3, NamedMoves, EndMoves
    <2>2. GivenBack(next.entity) /\ ~Holds(next) /\ UNCHANGED members
      BY <1>3, <2>1 DEF Holds, Registry!CreateFindNickname, AddressInv, Registry!stored, Registry!memberRows
    <2>3. QED
      BY <2>1, <2>2, AddressRest DEF Registry!Exists
  <1>4. ASSUME NEW h \in Workers, Registry!Insert(h)
        PROVE  AddressInv'
    <2> DEFINE new == created + 1
    <2>1. /\ Moves(h, Registry!Idle) /\ GivenBack(memberTxn[h].entity)
          /\ members' = [members EXCEPT ![new] = memberTxn[h].entity]
      BY <1>4 DEF Registry!Insert, Registry!Done, Registry!Goto, Moves, AddressInv
    <2>2. /\ memberTxn \in [Workers -> Registry!Transaction] /\ members \in [Registry!Ids -> Registry!Member \union {NoRow}]
          /\ new \in Registry!Ids /\ new \notin 1..created
      BY <1>4 DEF Registry!Insert, MemberTypeInv, Registry!TypeOK, MemberNulls, Registry!Ids
    <2> HIDE DEF new
    <2>3. Registry!AddressGivenBack'
      BY <2>1, <2>2 DEF AddressInv, Registry!AddressGivenBack, GivenBack, Registry!Exists
    <2>4. \A g \in Workers : Holds(memberTxn'[g]) =>
             memberTxn'[g] = memberTxn[g] /\ memberTxn[g].id \in Registry!Ids /\ memberTxn[g].id # new
      <3>1. \A g \in Workers : Holds(memberTxn[g]) => memberTxn[g].id \in Registry!Ids /\ memberTxn[g].id \in 1..created
        BY HolderFacts DEF Holds
      <3>2. ~Holds(Registry!Idle)
        BY IdleMember DEF Holds
      <3>3. QED
        BY <2>1, <2>2, <3>1, <3>2 DEF Moves
    <2>5. \A g \in Workers :
             memberTxn'[g].stage \in {"named", "inserting", "updating"} => memberTxn'[g] = memberTxn[g]
      BY <2>1, <2>2, IdleMember DEF Moves
    <2>6. \A m \in Registry!Ids \ {new} : members'[m] = members[m]
      BY <2>1, <2>2
    <2>7. QED
      BY <2>3, <2>4, <2>5, <2>6 DEF AddressInv, Holds, GivenBack, SameEmail, Registry!Exists
  <1>5. ASSUME NEW h \in Workers, NEW m \in Registry!Ids, NEW op \in {"upload", "update", "withdraw"},
               NEW file \in BOOLEAN, Registry!Authenticate(h, m, op, file)
        PROVE  AddressInv'
    <2>1. PICK next \in Registry!Transaction : Moves(h, next) /\ next.stage = "authenticated"
      BY <1>5, AuthenticateMoves
    <2>2. ~Holds(next) /\ UNCHANGED members
      BY <1>5, <2>1 DEF Holds, Registry!Authenticate, Registry!stored, Registry!memberRows
    <2>3. QED
      BY <2>1, <2>2, AddressRest DEF Registry!Exists
  <1>6. ASSUME NEW h \in Workers, NEW a \in Registry!Ids, NEW next \in Registry!Transaction,
               Moves(h, next), Loads(h, a, next), Loaded(next.entity, members[a])
        PROVE  AddressInv'
    <2>1. /\ next.stage \in {"saving", "uploading", "profile"} /\ next.id = a /\ Registry!Exists(a)
          /\ UNCHANGED members
      BY <1>6 DEF Loads, Registry!stored, Registry!memberRows
    <2>2. GivenBack(members[a])
      BY <2>1 DEF AddressInv, Registry!AddressGivenBack, GivenBack
    <2>3. GivenBack(next.entity) /\ next.entity.email \in {None, members[a].email}
      BY <1>6, <2>2 DEF Loaded, GivenBack
    <2>4. QED
      BY <1>6, <2>1, <2>3, AddressRest DEF Registry!Exists
  <1>7. ASSUME NEW h \in Workers, Registry!SaveSelect(h)
        PROVE  AddressInv'
    <2> DEFINE t == memberTxn[h]
    <2>1. PICK next \in Registry!Transaction :
             /\ Moves(h, next) /\ t.stage = "saving" /\ Keeps(t, next)
             /\ \/ /\ next.stage = "updating" /\ Registry!Exists(t.id)
                   /\ next.columns = Registry!Changed(t.entity, members[t.id])
                \/ next.stage = "restoring" /\ ~Registry!Exists(t.id)
      BY <1>7, SaveSelectMoves
    <2>2. /\ t \in Registry!Transaction /\ t.id \in Registry!Ids /\ t.entity \in Registry!Member
          /\ Registry!Exists(t.id) => members[t.id] \in Registry!Member
          /\ UNCHANGED members
      BY <1>7, <2>1, HolderFacts DEF Registry!SaveSelect, Registry!stored, Registry!memberRows
    <2>3. /\ GivenBack(t.entity) /\ Holds(t)
          /\ Registry!Exists(t.id) => GivenBack(members[t.id]) /\ SameEmail(t.entity, members[t.id])
      BY <2>1, <2>2 DEF Holds, AddressInv, Registry!AddressGivenBack, GivenBack
    <2>4. next.stage = "updating" => ("email" \in next.columns <=> "status" \in next.columns)
      BY <2>1, <2>2, <2>3 DEF Registry!Changed, GivenBack, SameEmail, Registry!Member
    <2>5. next.id = t.id /\ next.entity = t.entity
      BY <2>1 DEF Keeps, GoesOn
    <2>6. QED
      BY <2>1, <2>2, <2>3, <2>4, <2>5, AddressRest DEF Registry!Exists
  <1>8. ASSUME NEW h \in Workers, Registry!SaveUpdate(h) \/ (Registry!SaveInsert(h) /\ ~Registry!Exists(memberTxn[h].id))
        PROVE  AddressInv'
    BY <1>8, AddressSaves
  <1>9. ASSUME NEW h \in Workers, NEW next \in Registry!Transaction, Moves(h, next), Keeps(memberTxn[h], next),
               memberTxn[h].stage \in {"uploading", "profile", "deleting", "adding", "setting"},
               next.stage \in {"profile", "adding", "deleting", "setting", "tags"},
               UNCHANGED members
        PROVE  AddressInv'
    <2>1. Holds(memberTxn[h]) /\ next.id = memberTxn[h].id /\ next.entity = memberTxn[h].entity
      BY <1>9 DEF Holds, Keeps, GoesOn
    <2>2. GivenBack(memberTxn[h].entity) /\ memberTxn[h].id \in Registry!Ids
      BY <1>9, <2>1, HolderFacts DEF AddressInv
    <2>3. QED
      BY <1>9, <2>1, <2>2, AddressRest DEF Registry!Exists
  <1>10. ASSUME NEW h \in Workers, Registry!Upload(h)
         PROVE  AddressInv'
    BY <1>9, <1>10, UploadMoves
  <1>11. ASSUME NEW h \in Workers, Registry!ProfileFind(h)
         PROVE  AddressInv'
    <2>1. UNCHANGED members
      BY <1>11 DEF Registry!ProfileFind, Registry!stored, Registry!memberRows
    <2>2. QED
      BY <1>9, <1>11, <2>1, ProfileFindMoves
  <1>12. ASSUME NEW h \in Workers,
                \/ Registry!DeleteOld(h)
                \/ Registry!AddProfile(h) /\ Registry!Exists(memberTxn[h].id) /\ profiles[memberTxn[h].id] = NoRow
                \/ Registry!SetProfile(h)
         PROVE  AddressInv'
    <2>1. /\ UNCHANGED members
          /\ memberTxn[h].stage \in {"deleting", "adding", "setting"}
      BY <1>12 DEF Registry!DeleteOld, Registry!AddProfile, Registry!SetProfile, Registry!memberRows
    <2>2. QED
      BY <1>9, <1>12, <2>1, PictureMoves
  <1>13. ASSUME NEW h \in Workers, Registry!Promote(h), ~Ends(h)
         PROVE  AddressInv'
    <2>1. PICK next \in Registry!Transaction :
             /\ Moves(h, next) /\ next.stage = "saving" /\ GoesOn(memberTxn[h], next)
             /\ next.entity.email = memberTxn[h].entity.email
             /\ next.entity.status = memberTxn[h].entity.status
      BY <1>13, PromoteMoves, EndMoves
    <2>2. memberTxn[h].stage = "tags" /\ UNCHANGED members
      BY <1>13 DEF Registry!Promote, Registry!stored, Registry!memberRows
    <2>3. Holds(memberTxn[h]) /\ next.id = memberTxn[h].id /\ memberTxn[h].id \in Registry!Ids
      BY <2>1, <2>2, HolderFacts DEF Holds, GoesOn
    <2>4. GivenBack(next.entity)
      BY <2>1, <2>3 DEF AddressInv, GivenBack
    <2>5. QED
      BY <2>1, <2>2, <2>3, <2>4, AddressRest DEF Registry!Exists
  <1>14. ASSUME memberTxn' = memberTxn, \A m \in Registry!Ids : Registry!Exists(m)' => members'[m] = members[m] /\ Registry!Exists(m)
         PROVE  AddressInv'
    <2>1. \A g \in Workers : Holds(memberTxn[g]) => memberTxn[g].id \in Registry!Ids
      BY HolderFacts DEF Holds
    <2>2. QED
      BY <1>14, <2>1 DEF AddressInv, Registry!AddressGivenBack, Holds, GivenBack, SameEmail, Registry!Exists
  <1>15. ASSUME NEW m \in Registry!Ids, Registry!Age(m)
         PROVE  AddressInv'
    BY <1>14, <1>15 DEF Registry!Age, Registry!Exists
  <1>16. ASSUME Registry!HandleCron
         PROVE  AddressInv'
    BY <1>14, <1>16 DEF Registry!HandleCron, Registry!Exists
  <1>17. CASE UNCHANGED Registry!vars
    BY <1>14, <1>17 DEF Registry!vars, Registry!Exists
  <1>18. QED
    BY <1>1, <1>2, <1>3, <1>4, <1>5, <1>6, <1>7, <1>8, <1>10, <1>11, <1>12, <1>13, <1>15, <1>16,
       <1>17, NextKinds

\* Nothing to begin with.
LEMMA MemberInit ==
    ASSUME MemberNulls, Registry!Init
    PROVE  MemberTypeInv /\ AddressInv
  <1>1. \A h \in Workers : memberTxn[h] = Registry!Idle
    BY DEF Registry!Init
  <1>2. HolderType(Registry!Idle) /\ ~Holds(Registry!Idle)
    BY IdleMember DEF HolderType, Holds
  <1>3. \A m \in Registry!Ids : members[m] = NoRow /\ profiles[m] = NoRow
    BY DEF Registry!Init
  <1>4. created = 0 /\ uploads = 0 /\ objects = {} /\ aged = {} /\ cutShort = FALSE
    BY DEF Registry!Init
  <1>5. /\ members \in [Registry!Ids -> Registry!Member \union {NoRow}]
        /\ profiles \in [Registry!Ids -> Registry!Pictures \union {None, NoRow}]
        /\ memberTxn \in [Workers -> Registry!Transaction]
    BY IdleMember DEF Registry!Init
  <1>6. Registry!TypeOK
    <2>1. created \in 0..MaxMembers /\ uploads \in 0..MaxUploads
      BY <1>4 DEF MemberNulls
    <2>2. aged \subseteq 1..created /\ objects \subseteq 1..uploads /\ cutShort \in BOOLEAN
      BY <1>4
    <2>3. QED
      BY <1>3, <1>5, <2>1, <2>2 DEF Registry!TypeOK
  <1>7. MemberTypeInv
    BY <1>1, <1>2, <1>6 DEF MemberTypeInv
  <1>8. AddressInv
    BY <1>1, <1>2, <1>3, IdleMember DEF AddressInv, Registry!AddressGivenBack, Registry!Exists
  <1>9. QED
    BY <1>7, <1>8

\* The types of the tables and of what the handlers hold, whatever overlaps.
THEOREM MemberTypeCorrect ==
    ASSUME MemberNulls
    PROVE  Registry!Spec => []MemberTypeInv
  <1>1. Registry!Init => MemberTypeInv
    BY MemberInit
  <1>2. MemberTypeInv /\ [Registry!Next]_(Registry!vars) => MemberTypeInv'
    BY MemberTypes
  <1>3. QED
    BY <1>1, <1>2, PTL DEF Registry!Spec

\* Whatever overlaps, for any members and addresses, stale saves, deletions by
\* the cron job and inserts by save() included: a member who is INACTIVE has
\* given the address back, an ACTIVE one has one.
THEOREM AddressesGivenBack ==
    ASSUME MemberNulls
    PROVE  Registry!Spec => []AddressGivenBack
  <1>1. Registry!Init => MemberTypeInv /\ AddressInv
    BY MemberInit
  <1>2. MemberTypeInv /\ AddressInv /\ [Registry!Next]_(Registry!vars) => MemberTypeInv' /\ AddressInv'
    BY MemberTypes, AddressStep
  <1>3. AddressInv => AddressGivenBack
    BY DEF AddressInv, AddressGivenBack
  <1>4. QED
    BY <1>1, <1>2, <1>3, PTL DEF Registry!Spec

\* Whatever overlaps: handleCron deletes no member who has completed the
\* registration or has a profile, and nothing else deletes a member.
THEOREM FullMembersAreKept ==
    ASSUME MemberNulls
    PROVE  Registry!Spec => FullMembersStay
  <1> DEFINE Stay == \A m \in Registry!Ids :
                (Registry!Exists(m) /\ (members[m].role = "ROLE_MEMBER" \/ profiles[m] # NoRow)) => Registry!Exists(m)'
  <1>1. ASSUME MemberTypeInv, MemberTypeInv', [Registry!Next]_(Registry!vars)
        PROVE  [Stay]_(Registry!vars)
    <2>1. ASSUME NEW h \in Workers, Registry!Insert(h)
          PROVE  Stay
      <3>1. members' = [members EXCEPT ![created + 1] = memberTxn[h].entity] /\ memberTxn[h].entity \in Registry!Member
        BY <1>1, <2>1, HolderFacts DEF Registry!Insert
      <3>2. QED
        BY <1>1, <3>1 DEF MemberTypeInv, Registry!TypeOK, MemberNulls, Registry!Exists
    <2>2. ASSUME NEW h \in Workers, Registry!SaveUpdate(h) \/ (Registry!SaveInsert(h) /\ ~Registry!Exists(memberTxn[h].id))
          PROVE  Stay
      <3> DEFINE t == memberTxn[h]
      <3>1. /\ t.stage \in {"updating", "restoring"}
            /\ members' = [members EXCEPT ![t.id] =
                            IF t.stage = "restoring" THEN t.entity
                            ELSE IF Registry!Exists(t.id) THEN Registry!Written(t.entity, members[t.id], t.columns)
                            ELSE members[t.id]]
        BY <1>1, <2>2, SaveMoves
      <3>2. t.entity \in Registry!Member /\ (Registry!Exists(t.id) => members[t.id] \in Registry!Member) /\ t.id \in Registry!Ids
        BY <1>1, <3>1, HolderFacts
      <3>3. Registry!Exists(t.id) => Registry!Written(t.entity, members[t.id], t.columns) \in Registry!Member
        BY <3>2 DEF Registry!Written, Registry!Member
      <3> HIDE DEF t
      <3>4. QED
        BY <1>1, <3>1, <3>2, <3>3 DEF MemberTypeInv, Registry!TypeOK, MemberNulls, Registry!Exists
    <2>3. ASSUME Registry!HandleCron
          PROVE  Stay
      BY <2>3 DEF Registry!HandleCron, Registry!Expired, Registry!Exists
    <2>4. CASE UNCHANGED members
      BY <2>4 DEF Registry!Exists
    <2>5. QED
      BY <1>1, <2>1, <2>2, <2>3, <2>4, NextKinds, UploadMoves, PictureMoves
         DEF Registry!CreateFind, Ends, Registry!CreateFindNickname, Registry!Authenticate, Loads, Registry!SaveSelect, Registry!ProfileFind,
             Registry!Promote, Registry!DeleteOld, Registry!Age, Registry!stored, Registry!memberRows, Registry!vars
  <1>2. QED
    BY <1>1, MemberTypeCorrect, PTL DEF Registry!Spec, FullMembersStay, Registry!FullMembersStay

-----------------------------------------------------------------------------
\* One handler at a time: addresses and nicknames.

\* Before and after a step of a handler, the others are idle.
LEMMA OthersRest ==
    ASSUME OneUnderWay(memberTxn), OneUnderWay(memberTxn'), MemberTypeInv,
           NEW h \in Workers, NEW next, Moves(h, next),
           memberTxn[h].stage # "idle" \/ next.stage # "idle"
    PROVE  /\ memberTxn'[h] = next
           /\ \A g \in Workers \ {h} : memberTxn'[g] = memberTxn[g] /\ memberTxn[g].stage = "idle"
  <1>1. /\ memberTxn'[h] = next
        /\ \A g \in Workers \ {h} : memberTxn'[g] = memberTxn[g]
    BY DEF Moves, MemberTypeInv, Registry!TypeOK
  <1>2. QED
    BY <1>1 DEF OneUnderWay

LEMMA NamesRest ==
    ASSUME MemberTypeInv, NamesInv, NEW h \in Workers, NEW next, Moves(h, next),
           \A m \in Registry!Ids : Registry!Exists(m)' => members'[m] = members[m] /\ Registry!Exists(m),
           Free(next)
    PROVE  NamesInv'
  <1>1. /\ memberTxn'[h] = next
        /\ \A g \in Workers \ {h} : memberTxn'[g] = memberTxn[g]
    BY DEF Moves, MemberTypeInv, Registry!TypeOK
  <1>2. Registry!NoDuplicates'
    BY DEF NamesInv, Registry!NoDuplicates, Registry!Exists
  <1>3. \A t : Free(t) => Free(t)'
    BY DEF Free, Registry!Exists, Apart
  <1>4. \A g \in Workers : Free(memberTxn[g])'
    BY <1>1, <1>3 DEF NamesInv, Free, Registry!Exists, Apart, Holds
  <1>5. QED
    BY <1>2, <1>4 DEF NamesInv

LEMMA WrittenNames ==
    ASSUME NEW e \in Registry!Member, NEW row \in Registry!Member, NEW C
    PROVE  /\ Registry!Written(e, row, C).email \in {e.email, row.email}
           /\ Registry!Written(e, row, C).nickname \in {e.nickname, row.nickname}
  BY DEF Registry!Written, Registry!Member

\* One row changes; its address and nickname are those of no other row.
LEMMA NamesWritten ==
    ASSUME OneUnderWay(memberTxn), OneUnderWay(memberTxn'), MemberTypeInv, Registry!NoDuplicates,
           NEW h \in Workers, memberTxn[h].stage # "idle", NEW next, Moves(h, next),
           NEW a \in Registry!Ids, NEW row, members' = [members EXCEPT ![a] = row],
           row # NoRow => \A m \in Registry!Ids \ {a} : Registry!Exists(m) => Apart(row, members[m]),
           next.stage \notin {"named", "inserting"},
           Holds(next) => next.id = a,
           Holds(next) => \A m \in Registry!Ids \ {a} : Registry!Exists(m) => Apart(next.entity, members[m])
    PROVE  NamesInv'
  <1>1. /\ memberTxn'[h] = next
        /\ \A g \in Workers \ {h} : memberTxn'[g].stage = "idle"
    BY OthersRest
  <1>2. members'[a] = row /\ \A m \in Registry!Ids \ {a} : members'[m] = members[m]
    BY DEF MemberTypeInv, Registry!TypeOK
  <1>3. Registry!NoDuplicates'
    BY <1>2 DEF Registry!NoDuplicates, Registry!Exists, Apart
  <1>4. Free(next)'
    BY <1>2 DEF Free, Registry!Exists, Apart, Holds
  <1>5. \A g \in Workers : Free(memberTxn[g])'
    BY <1>1, <1>4 DEF Free, Holds
  <1>6. QED
    BY <1>3, <1>5 DEF NamesInv

\* Every step keeps addresses and nicknames apart.
LEMMA NamesStep ==
    ASSUME OneUnderWay(memberTxn), OneUnderWay(memberTxn'), MemberTypeInv, MemberNulls, NamesInv,
           [Registry!Next]_(Registry!vars)
    PROVE  NamesInv'
  <1>1. ASSUME NEW h \in Workers, NEW email \in Emails, NEW name \in Nicknames \union {None},
               NEW role \in {"ROLE_TEMP", "ROLE_MEMBER"}, Registry!CreateFind(h, email, name, role)
        PROVE  NamesInv'
    <2>1. PICK next \in Registry!Transaction :
             Moves(h, next) /\ next.stage = "named" /\ next.entity.email = email
      BY <1>1, CreateFindMoves
    <2>2. Registry!WithEmail(email) = {} /\ UNCHANGED members
      BY <1>1 DEF Registry!CreateFind, Registry!stored, Registry!memberRows
    <2>3. Free(next)
      BY <2>1, <2>2 DEF Free, Registry!WithEmail, Holds
    <2>4. QED
      BY <2>1, <2>2, <2>3, NamesRest DEF NamesInv, Registry!Exists
  <1>2. ASSUME NEW h \in Workers, Ends(h)
        PROVE  NamesInv'
    <2>1. Free(Registry!Idle)
      BY IdleMember DEF Free, Holds
    <2>2. QED
      BY <1>2, <2>1, NamesRest DEF Ends, NamesInv, Registry!Exists
  <1>3. ASSUME NEW h \in Workers, Registry!CreateFindNickname(h), ~Ends(h)
        PROVE  NamesInv'
    <2>1. PICK next \in Registry!Transaction :
             /\ Moves(h, next) /\ next.stage = "inserting" /\ next.entity = memberTxn[h].entity
             /\ Registry!WithNickname(memberTxn[h].entity.nickname) = {}
      BY <1>3, NamedMoves, EndMoves
    <2>2. memberTxn[h].stage = "named" /\ UNCHANGED members
      BY <1>3 DEF Registry!CreateFindNickname, Registry!stored, Registry!memberRows
    <2>3. \A m \in Registry!Ids : Registry!Exists(m) => Apart(next.entity, members[m])
      BY <2>1, <2>2 DEF NamesInv, Free, Apart, Registry!WithNickname
    <2>4. Free(next)
      BY <2>1, <2>3 DEF Free, Holds
    <2>5. QED
      BY <2>1, <2>2, <2>4, NamesRest DEF NamesInv, Registry!Exists
  <1>4. ASSUME NEW h \in Workers, Registry!Insert(h)
        PROVE  NamesInv'
    <2> DEFINE e == memberTxn[h].entity
    <2>1. /\ Moves(h, Registry!Idle) /\ memberTxn[h].stage = "inserting"
          /\ members' = [members EXCEPT ![created + 1] = e]
      BY <1>4 DEF Registry!Insert, Registry!Done, Registry!Goto, Moves
    <2>2. created + 1 \in Registry!Ids
      BY <1>4 DEF Registry!Insert, MemberTypeInv, Registry!TypeOK, MemberNulls, Registry!Ids
    <2>3. \A m \in Registry!Ids : Registry!Exists(m) => Apart(e, members[m])
      BY <2>1 DEF NamesInv, Free
    <2> HIDE DEF e
    <2>4. QED
      BY <2>1, <2>2, <2>3, IdleMember, NamesWritten DEF NamesInv, Holds
  <1>5. ASSUME NEW h \in Workers, NEW m \in Registry!Ids, NEW op \in {"upload", "update", "withdraw"},
               NEW file \in BOOLEAN, Registry!Authenticate(h, m, op, file)
        PROVE  NamesInv'
    <2>1. PICK next \in Registry!Transaction : Moves(h, next) /\ next.stage = "authenticated"
      BY <1>5, AuthenticateMoves
    <2>2. Free(next) /\ UNCHANGED members
      BY <1>5, <2>1 DEF Free, Holds, Registry!Authenticate, Registry!stored, Registry!memberRows
    <2>3. QED
      BY <2>1, <2>2, NamesRest DEF NamesInv, Registry!Exists
  <1>6. ASSUME NEW h \in Workers, NEW a \in Registry!Ids, NEW next \in Registry!Transaction,
               Moves(h, next), Loads(h, a, next), Loaded(next.entity, members[a])
        PROVE  NamesInv'
    <2>1. /\ next.stage \in {"saving", "uploading", "profile"} /\ next.id = a /\ Registry!Exists(a)
          /\ UNCHANGED members
      BY <1>6 DEF Loads, Registry!stored, Registry!memberRows
    <2>2. \A m \in Registry!Ids : Registry!Exists(m) /\ m # a => Apart(members[a], members[m])
      BY <2>1 DEF NamesInv, Registry!NoDuplicates, Apart
    <2>3. \A m \in Registry!Ids : Registry!Exists(m) /\ m # a => Apart(next.entity, members[m])
      <3>1. CASE next.entity = members[a]
        BY <2>2, <3>1
      <3>2. CASE /\ next.entity.email = members[a].email
                 /\ next.entity.nickname \in Nicknames
                 /\ Registry!WithNickname(next.entity.nickname) = {} \/ members[a].nickname = next.entity.nickname
        BY <2>2, <3>2 DEF Apart, Registry!WithNickname, MemberNulls
      <3>3. CASE next.entity.email = None /\ next.entity.nickname = None
        BY <3>3 DEF Apart
      <3>4. QED
        BY <1>6, <3>1, <3>2, <3>3 DEF Loaded
    <2>4. Free(next)
      BY <2>1, <2>3 DEF Free
    <2>5. QED
      BY <1>6, <2>1, <2>4, NamesRest DEF NamesInv, Registry!Exists
  <1>7. ASSUME NEW h \in Workers, NEW next \in Registry!Transaction, Moves(h, next), GoesOn(memberTxn[h], next),
               next.entity.email = memberTxn[h].entity.email, next.entity.nickname = memberTxn[h].entity.nickname,
               Holds(memberTxn[h]), Holds(next), UNCHANGED members
        PROVE  NamesInv'
    <2>1. Free(next)
      BY <1>7 DEF Free, Holds, GoesOn, NamesInv, Apart
    <2>2. QED
      BY <1>7, <2>1, NamesRest DEF NamesInv, Registry!Exists
  <1>8. ASSUME NEW h \in Workers, Registry!SaveSelect(h)
        PROVE  NamesInv'
    <2>1. PICK next \in Registry!Transaction :
             /\ Moves(h, next) /\ memberTxn[h].stage = "saving" /\ Keeps(memberTxn[h], next)
             /\ next.stage \in {"updating", "restoring"}
      BY <1>8, SaveSelectMoves
    <2>2. UNCHANGED members
      BY <1>8 DEF Registry!SaveSelect, Registry!stored, Registry!memberRows
    <2>3. QED
      BY <1>7, <2>1, <2>2 DEF Keeps, Holds
  <1>9. ASSUME NEW h \in Workers, Registry!SaveUpdate(h) \/ (Registry!SaveInsert(h) /\ ~Registry!Exists(memberTxn[h].id))
        PROVE  NamesInv'
    <2> DEFINE t == memberTxn[h]
               row == IF t.stage = "restoring" THEN t.entity
                      ELSE IF Registry!Exists(t.id) THEN Registry!Written(t.entity, members[t.id], t.columns)
                      ELSE members[t.id]
    <2>1. PICK next \in Registry!Transaction : Moves(h, next) /\ next = Registry!AfterSave(t)
      BY <1>9, SaveMoves
    <2>2. /\ t \in Registry!Transaction /\ t.stage \in {"updating", "restoring"}
          /\ members' = [members EXCEPT ![t.id] = row]
      BY <1>9, SaveMoves, HolderFacts
    <2>3. /\ t.id \in Registry!Ids /\ t.entity \in Registry!Member /\ Holds(t)
          /\ Registry!Exists(t.id) => members[t.id] \in Registry!Member
      BY <2>2, HolderFacts DEF Holds
    <2>4. \A m \in Registry!Ids \ {t.id} : Registry!Exists(m) => Apart(t.entity, members[m])
      BY <2>3 DEF NamesInv, Free
    <2>5. Registry!Exists(t.id) => \A m \in Registry!Ids \ {t.id} : Registry!Exists(m) => Apart(members[t.id], members[m])
      BY <2>3 DEF NamesInv, Registry!NoDuplicates, Apart
    <2>6. row # NoRow => \A m \in Registry!Ids \ {t.id} : Registry!Exists(m) => Apart(row, members[m])
      BY <2>2, <2>3, <2>4, <2>5, WrittenNames DEF Apart, Registry!Exists
    <2>7. /\ next.stage \notin {"named", "inserting"}
          /\ Holds(next) => next.id = t.id /\ next.entity = t.entity
      BY <2>1, <2>2, AfterSaveFields DEF Holds, Keeps, GoesOn
    <2>8. memberTxn[h].stage # "idle"
      BY <2>2
    <2> HIDE DEF t, row
    <2>9. QED
      BY <2>1, <2>2, <2>3, <2>4, <2>6, <2>7, <2>8, NamesWritten DEF NamesInv
  <1>10. ASSUME NEW h \in Workers, Registry!Upload(h)
         PROVE  NamesInv'
    BY <1>7, <1>10, UploadMoves DEF Keeps, Holds
  <1>11. ASSUME NEW h \in Workers, Registry!ProfileFind(h)
         PROVE  NamesInv'
    <2>1. UNCHANGED members
      BY <1>11 DEF Registry!ProfileFind, Registry!stored, Registry!memberRows
    <2>2. QED
      BY <1>7, <1>11, <2>1, ProfileFindMoves DEF Keeps, Holds
  <1>12. ASSUME NEW h \in Workers,
                \/ Registry!DeleteOld(h)
                \/ Registry!AddProfile(h) /\ Registry!Exists(memberTxn[h].id) /\ profiles[memberTxn[h].id] = NoRow
                \/ Registry!SetProfile(h)
         PROVE  NamesInv'
    <2>1. /\ UNCHANGED members
          /\ memberTxn[h].stage \in {"deleting", "adding", "setting"}
      BY <1>12 DEF Registry!DeleteOld, Registry!AddProfile, Registry!SetProfile, Registry!memberRows
    <2>2. QED
      BY <1>7, <1>12, <2>1, PictureMoves DEF Keeps, Holds
  <1>13. ASSUME NEW h \in Workers, Registry!Promote(h), ~Ends(h)
         PROVE  NamesInv'
    <2>1. PICK next \in Registry!Transaction :
             /\ Moves(h, next) /\ next.stage = "saving" /\ GoesOn(memberTxn[h], next)
             /\ next.entity.email = memberTxn[h].entity.email
             /\ next.entity.nickname = memberTxn[h].entity.nickname
      BY <1>13, PromoteMoves, EndMoves
    <2>2. memberTxn[h].stage = "tags" /\ UNCHANGED members
      BY <1>13 DEF Registry!Promote, Registry!stored, Registry!memberRows
    <2>3. QED
      BY <1>7, <2>1, <2>2 DEF Holds
  <1>14. ASSUME memberTxn' = memberTxn, \A m \in Registry!Ids : Registry!Exists(m)' => members'[m] = members[m] /\ Registry!Exists(m)
         PROVE  NamesInv'
    BY <1>14 DEF NamesInv, Registry!NoDuplicates, Free, Holds, Registry!Exists, Apart
  <1>15. ASSUME NEW m \in Registry!Ids, Registry!Age(m)
         PROVE  NamesInv'
    BY <1>14, <1>15 DEF Registry!Age, Registry!Exists
  <1>16. ASSUME Registry!HandleCron
         PROVE  NamesInv'
    BY <1>14, <1>16 DEF Registry!HandleCron, Registry!Exists
  <1>17. CASE UNCHANGED Registry!vars
    BY <1>14, <1>17 DEF Registry!vars, Registry!Exists
  <1>18. QED
    BY <1>1, <1>2, <1>3, <1>4, <1>5, <1>6, <1>8, <1>9, <1>10, <1>11, <1>12, <1>13, <1>15, <1>16,
       <1>17, NextKinds

-----------------------------------------------------------------------------
\* One handler at a time: the pictures.

LEMMA ShownPictures ==
    \A x : x \in Shown <=> x \notin {None, NoRow} /\ \E m \in Registry!Ids : profiles[m] = x
  BY DEF Shown

\* The invariant after a step of the one handler.
LEMMA PictureAfter ==
    ASSUME OneUnderWay(memberTxn), OneUnderWay(memberTxn'), MemberTypeInv, PictureInv,
           NEW h \in Workers, NEW next, Moves(h, next),
           memberTxn[h].stage # "idle" \/ next.stage # "idle",
           \A m \in Registry!Ids : profiles'[m] \in 1..uploads' \union {None, NoRow},
           \A m, k \in Registry!Ids : profiles'[m] = profiles'[k] /\ profiles'[m] \in Shown' => m = k,
           ~cutShort' /\ ~Picturing(next) => objects' = Shown',
           PictureOf(next)'
    PROVE  PictureInv'
  <1>1. /\ memberTxn'[h] = next
        /\ \A g \in Workers \ {h} : memberTxn'[g] = memberTxn[g] /\ memberTxn[g].stage = "idle"
    BY OthersRest
  <1>2. Picturing(next)' <=> Picturing(next)
    BY DEF Picturing
  <1>3. \A g \in Workers : PictureOf(memberTxn[g])'
    <2>1. \A g \in Workers \ {h} : memberTxn'[g].stage = "idle" /\ memberTxn'[g].picture = None
      BY <1>1 DEF PictureInv, PictureOf
    <2>2. \A g \in Workers \ {h} : PictureOf(memberTxn[g])'
      BY <2>1 DEF PictureOf, Picturing
    <2>3. PictureOf(memberTxn[h])'
      BY <1>1
    <2>4. QED
      BY <2>2, <2>3
  <1>4. ~cutShort' /\ (\A g \in Workers : ~Picturing(memberTxn[g])') => objects' = Shown'
    BY <1>1, <1>2 DEF Picturing
  <1>5. QED
    BY <1>3, <1>4 DEF PictureInv

\* No picture moves, and none is to move.
LEMMA PictureRest ==
    ASSUME OneUnderWay(memberTxn), OneUnderWay(memberTxn'), MemberTypeInv, PictureInv,
           NEW h \in Workers, NEW next, Moves(h, next),
           memberTxn[h].stage # "idle" \/ next.stage # "idle",
           UNCHANGED <<profiles, uploads, objects>>,
           cutShort' \/ (cutShort' = cutShort /\ ~Picturing(memberTxn[h])),
           next.picture = None \/ next.picture = memberTxn[h].picture,
           \/ next.stage \in {"idle", "named", "inserting", "authenticated"} /\ next.picture = None
           \/ next.stage = "uploading" /\ next.picture = None /\ next.file
           \/ next.stage = "profile" /\ next.picture = None /\ ~next.file
           \/ /\ next.stage \in {"saving", "updating", "restoring"}
              /\ next.op = "upload" \/ next.picture = None
    PROVE  PictureInv'
  <1>1. UNCHANGED Shown
    BY DEF Shown
  <1>2. \A g \in Workers \ {h} : memberTxn[g].stage = "idle"
    BY OthersRest
  <1>3. ~cutShort' => objects = Shown /\ ~cutShort
    BY <1>2 DEF PictureInv, Picturing
  <1>4. None \notin Shown
    BY DEF Shown
  <1>5. next.picture \in 1..uploads \union {None}
    BY DEF PictureInv, PictureOf
  <1>6. Picturing(next) => Bucket(next) = Shown
    BY DEF Picturing, Bucket
  <1>7. Picturing(next)' /\ ~cutShort' => objects' = Bucket(next)'
    BY <1>1, <1>3, <1>6 DEF Picturing, Bucket
  <1>8. PictureOf(next)'
    BY <1>1, <1>4, <1>5, <1>7 DEF PictureOf
  <1>9. QED
    BY <1>1, <1>3, <1>8, PictureAfter DEF PictureInv

\* The profile of the handler gets the picture it holds.
LEMMA ProfileGets ==
    ASSUME OneUnderWay(memberTxn), OneUnderWay(memberTxn'), MemberTypeInv, MemberNulls, PictureInv,
           NEW h \in Workers, NEW next,
           Moves(h, next), memberTxn[h].id \in Registry!Ids,
           memberTxn[h].stage \in {"adding", "setting"}, next.stage = "tags",
           next.picture = memberTxn[h].picture,
           profiles' = [profiles EXCEPT ![memberTxn[h].id] = memberTxn[h].picture],
           UNCHANGED <<uploads, objects, cutShort>>
    PROVE  PictureInv'
  <1> DEFINE t == memberTxn[h]
  <1>1. /\ PictureOf(t) /\ t.id \in Registry!Ids /\ t.picture \in 1..uploads \union {None}
        /\ t.stage \in {"adding", "setting"} /\ Picturing(t)
    BY DEF PictureInv, PictureOf, Picturing
  <1>2. profiles'[t.id] = t.picture /\ \A m \in Registry!Ids \ {t.id} : profiles'[m] = profiles[m]
    BY DEF MemberTypeInv, Registry!TypeOK
  <1>3. next.picture = t.picture
    OBVIOUS
  <1> HIDE DEF t
  <1>4. \A m \in Registry!Ids : profiles'[m] \in 1..uploads' \union {None, NoRow}
    BY <1>1, <1>2 DEF PictureInv
  <1>5. Shown' = {IF m = t.id THEN t.picture ELSE profiles[m] : m \in Registry!Ids} \ {None, NoRow}
    BY <1>2 DEF Shown
  <1>6. t.stage = "adding" => Bucket(t) = Shown'
    <2>1. SUFFICES ASSUME t.stage = "adding", NEW x
                   PROVE  x \in Bucket(t) <=> x \in Shown'
      OBVIOUS
    <2>2. profiles[t.id] = NoRow
      BY <1>1, <2>1 DEF PictureOf
    <2>3. x \in Bucket(t) <=> x \in Shown \/ (x = t.picture /\ x # None)
      BY <2>1 DEF Bucket
    <2>4. x \in Shown' <=> x \notin {None, NoRow} /\ \E m \in Registry!Ids : profiles'[m] = x
      BY DEF Shown
    <2>5. t.picture # NoRow
      BY <1>1, <2>1 DEF MemberNulls, MemberTypeInv, Registry!TypeOK, Registry!Pictures
    <2>6. QED
      BY <1>1, <1>2, <2>2, <2>3, <2>4, <2>5, ShownPictures
  <1>7. t.stage = "setting" => Bucket(t) = Shown'
    BY <1>5 DEF Bucket
  <1>8. ~cutShort' => objects' = Shown'
    BY <1>1, <1>6, <1>7 DEF PictureOf
  <1>9. \A m, k \in Registry!Ids : profiles'[m] = profiles'[k] /\ profiles'[m] \in Shown' => m = k
    <2>1. SUFFICES ASSUME NEW m \in Registry!Ids, NEW k \in Registry!Ids, profiles'[m] = profiles'[k],
                          profiles'[m] \in Shown'
                   PROVE  m = k
      OBVIOUS
    <2>2. profiles'[m] \notin {None, NoRow}
      BY <2>1 DEF Shown
    <2>3. \A i, j \in Registry!Ids : profiles[i] = profiles[j] /\ profiles[i] \notin {None, NoRow} => i = j
      BY ShownPictures DEF PictureInv
    <2>4. t.picture = profiles[t.id] \/ t.picture = None \/ \A i \in Registry!Ids : profiles[i] # t.picture
      <3>1. t.picture # None => t.picture # NoRow
        BY <1>1 DEF MemberNulls, MemberTypeInv, Registry!TypeOK, Registry!Pictures
      <3>2. t.picture = profiles[t.id] \/ t.picture \notin Shown
        BY <1>1 DEF PictureOf
      <3>3. QED
        BY <3>1, <3>2, ShownPictures
    <2>5. QED
      BY <1>1, <1>2, <2>1, <2>2, <2>3, <2>4
  <1>10. PictureOf(next)'
    BY <1>1, <1>3 DEF PictureOf, Picturing
  <1>11. QED
    BY <1>4, <1>8, <1>9, <1>10, PictureAfter

\* Every step keeps the bucket and the profiles together.
LEMMA PictureStep ==
    ASSUME OneUnderWay(memberTxn), OneUnderWay(memberTxn'), MemberTypeInv, MemberNulls, PictureInv,
           [Registry!Next]_(Registry!vars)
    PROVE  PictureInv'
  <1>0. \A h \in Workers : PictureOf(memberTxn[h])
    BY DEF PictureInv
  <1>1. ASSUME NEW h \in Workers, NEW email \in Emails, NEW name \in Nicknames \union {None},
               NEW role \in {"ROLE_TEMP", "ROLE_MEMBER"}, Registry!CreateFind(h, email, name, role)
        PROVE  PictureInv'
    <2>1. PICK next \in Registry!Transaction : Moves(h, next) /\ next.stage = "named" /\ next.picture = None
      BY <1>1, CreateFindMoves
    <2>2. ~Picturing(memberTxn[h]) /\ UNCHANGED Registry!stored
      BY <1>1 DEF Registry!CreateFind, Picturing
    <2>3. QED
      BY <2>1, <2>2, PictureRest DEF Registry!stored, Registry!pictureRows
  <1>2. ASSUME NEW h \in Workers, Ends(h)
        PROVE  PictureInv'
    <2>1. cutShort' \/ (cutShort' = cutShort /\ ~Picturing(memberTxn[h]))
      BY <1>2 DEF Ends, Picturing
    <2>2. QED
      BY <1>2, <2>1, IdleMember, PictureRest DEF Ends
  <1>3. ASSUME NEW h \in Workers, Registry!CreateFindNickname(h), ~Ends(h)
        PROVE  PictureInv'
    <2>1. PICK next \in Registry!Transaction :
             Moves(h, next) /\ next.stage = "inserting" /\ next.picture = memberTxn[h].picture
      BY <1>3, NamedMoves, EndMoves
    <2>2. memberTxn[h].stage = "named" /\ UNCHANGED Registry!stored
      BY <1>3 DEF Registry!CreateFindNickname
    <2>3. memberTxn[h].picture = None
      BY <1>0, <2>2 DEF PictureOf
    <2>4. QED
      BY <2>1, <2>2, <2>3, PictureRest DEF Picturing, Registry!stored, Registry!pictureRows
  <1>4. ASSUME NEW h \in Workers, Registry!Insert(h)
        PROVE  PictureInv'
    BY <1>4, IdleMember, PictureRest DEF Registry!Insert, Picturing, Registry!Done, Registry!Goto, Moves, Registry!pictureRows
  <1>5. ASSUME NEW h \in Workers, NEW m \in Registry!Ids, NEW op \in {"upload", "update", "withdraw"},
               NEW file \in BOOLEAN, Registry!Authenticate(h, m, op, file)
        PROVE  PictureInv'
    <2>1. PICK next \in Registry!Transaction :
             Moves(h, next) /\ next.stage = "authenticated" /\ next.picture = None
      BY <1>5, AuthenticateMoves
    <2>2. ~Picturing(memberTxn[h]) /\ UNCHANGED Registry!stored
      BY <1>5 DEF Registry!Authenticate, Picturing
    <2>3. QED
      BY <2>1, <2>2, PictureRest DEF Registry!stored, Registry!pictureRows
  <1>6. ASSUME NEW h \in Workers, NEW a \in Registry!Ids, NEW next \in Registry!Transaction,
               Moves(h, next), Loads(h, a, next)
        PROVE  PictureInv'
    <2>1. next.picture = None /\ ~Picturing(memberTxn[h]) /\ UNCHANGED Registry!stored
      BY <1>0, <1>6 DEF Loads, PictureOf, Picturing
    <2>2. \/ next.stage = "uploading" /\ next.file
          \/ next.stage = "profile" /\ ~next.file
          \/ next.stage = "saving"
      BY <1>6 DEF Loads
    <2>3. QED
      BY <1>6, <2>1, <2>2, PictureRest DEF Registry!stored, Registry!pictureRows
  <1>7. ASSUME NEW h \in Workers, Registry!SaveSelect(h)
        PROVE  PictureInv'
    <2>1. PICK next \in Registry!Transaction :
             /\ Moves(h, next) /\ memberTxn[h].stage = "saving" /\ Keeps(memberTxn[h], next)
             /\ next.picture = memberTxn[h].picture /\ next.stage \in {"updating", "restoring"}
      BY <1>7, SaveSelectMoves
    <2>2. next.op = "upload" \/ next.picture = None
      BY <1>0, <2>1 DEF PictureOf, Keeps, GoesOn
    <2>3. ~Picturing(memberTxn[h]) /\ UNCHANGED Registry!stored
      BY <1>7 DEF Registry!SaveSelect, Picturing
    <2>4. QED
      BY <2>1, <2>2, <2>3, PictureRest DEF Registry!stored, Registry!pictureRows
  <1>8. ASSUME NEW h \in Workers, Registry!SaveUpdate(h) \/ (Registry!SaveInsert(h) /\ ~Registry!Exists(memberTxn[h].id))
        PROVE  PictureInv'
    <2>1. PICK next \in Registry!Transaction : Moves(h, next) /\ next = Registry!AfterSave(memberTxn[h])
      BY <1>8, SaveMoves
    <2>2. /\ memberTxn[h].stage \in {"updating", "restoring"} /\ memberTxn[h] \in Registry!Transaction
          /\ UNCHANGED <<profiles, uploads, objects, cutShort>>
      BY <1>8, SaveMoves, HolderFacts
    <2>3. \/ next.stage = "idle" /\ next.picture = None
          \/ next.stage = "uploading" /\ next.picture = None /\ next.file
          \/ next.stage = "profile" /\ next.picture = None /\ ~next.file
      BY <1>0, <2>1, <2>2, AfterSaveFields DEF PictureOf
    <2>4. QED
      BY <2>1, <2>2, <2>3, PictureRest DEF Picturing
  <1>9. ASSUME NEW h \in Workers, Registry!Promote(h), ~Ends(h)
        PROVE  PictureInv'
    <2>1. PICK next \in Registry!Transaction :
             /\ Moves(h, next) /\ next.stage = "saving" /\ memberTxn[h].op = "upload"
             /\ GoesOn(memberTxn[h], next) /\ next.picture = memberTxn[h].picture
      BY <1>9, PromoteMoves, EndMoves
    <2>2. ~Picturing(memberTxn[h]) /\ UNCHANGED Registry!stored
      BY <1>9 DEF Registry!Promote, Picturing
    <2>3. QED
      BY <2>1, <2>2, PictureRest DEF GoesOn, Registry!stored, Registry!pictureRows
  <1>10. ASSUME NEW h \in Workers, Registry!Upload(h)
         PROVE  PictureInv'
    <2> DEFINE new == uploads + 1
    <2>1. PICK next \in Registry!Transaction :
             /\ Moves(h, next) /\ memberTxn[h].stage = "uploading" /\ next.stage = "profile"
             /\ Keeps(memberTxn[h], next) /\ next.picture = new
      BY <1>10, UploadMoves
    <2>2. /\ new \in Registry!Pictures /\ uploads' = new /\ objects' = objects \union {new}
          /\ UNCHANGED <<profiles, cutShort>>
      BY <1>10, UploadMoves
    <2>3. 1..uploads \subseteq 1..uploads' /\ new \in 1..uploads' /\ new \notin 1..uploads
      BY <2>2 DEF MemberTypeInv, Registry!TypeOK, MemberNulls
    <2>4. new \notin {None, NoRow} /\ new \notin Shown
      BY <2>2, <2>3, ShownPictures DEF MemberNulls, PictureInv
    <2> HIDE DEF new
    <2>5. UNCHANGED Shown
      BY <2>2 DEF Shown
    <2>6. ~cutShort => objects = Shown
      BY <2>1 DEF PictureInv, Picturing, OneUnderWay
    <2>7. next.file
      BY <1>0, <2>1 DEF PictureOf, Keeps, GoesOn
    <2>8. ~cutShort' => objects' = Bucket(next)'
      BY <2>1, <2>2, <2>4, <2>5, <2>6 DEF Bucket
    <2>9. PictureOf(next)'
      BY <2>1, <2>3, <2>4, <2>5, <2>7, <2>8 DEF PictureOf
    <2>10. Picturing(next)
      BY <2>1 DEF Picturing
    <2>11. \A m \in Registry!Ids : profiles'[m] \in 1..uploads' \union {None, NoRow}
      BY <2>2, <2>3 DEF PictureInv
    <2>12. QED
      BY <2>1, <2>2, <2>5, <2>9, <2>10, <2>11, PictureAfter DEF PictureInv
  <1>11. ASSUME NEW h \in Workers, Registry!ProfileFind(h)
         PROVE  PictureInv'
    <2> DEFINE t == memberTxn[h]
    <2>1. PICK next \in Registry!Transaction :
              /\ Moves(h, next)
              /\ t.stage = "profile" /\ Keeps(t, next)
              /\ \/ /\ next.stage = "adding" /\ profiles[t.id] = NoRow
                    /\ next.picture = t.picture
                 \/ /\ next.stage = "setting" /\ profiles[t.id] # NoRow /\ ~t.file
                    /\ next.picture = profiles[t.id]
                 \/ /\ next.stage = "setting" /\ profiles[t.id] = None /\ t.file
                    /\ next.picture = t.picture
                 \/ /\ next.stage = "deleting" /\ profiles[t.id] \in Registry!Pictures /\ t.file
                    /\ next.old = profiles[t.id] /\ next.picture = t.picture
      BY <1>11, ProfileFindMoves
    <2>2. UNCHANGED <<profiles, uploads, objects, cutShort>> /\ UNCHANGED Shown
      BY <1>11 DEF Registry!ProfileFind, Registry!stored, Registry!pictureRows, Shown
    <2>3. /\ PictureOf(t) /\ t.id \in Registry!Ids /\ next.id = t.id
      BY <1>0, <2>1, HolderFacts DEF Keeps, GoesOn
    <2>4. profiles[t.id] \in 1..uploads \union {None, NoRow}
      BY <2>3 DEF PictureInv
    <2> HIDE DEF t
    <2>5. t.picture \notin Shown /\ (t.file <=> t.picture # None)
          /\ (~cutShort => objects = Shown \union ({t.picture} \ {None}))
      BY <2>1, <2>3 DEF PictureOf, Picturing, Bucket
    <2>6. next.stage = "setting" => Bucket(next) = Shown \union ({t.picture} \ {None})
      <3>1. SUFFICES ASSUME next.stage = "setting", NEW x
                     PROVE  x \in Bucket(next) <=> x \in Shown \/ (x = t.picture /\ x # None)
        OBVIOUS
      <3>2. x \in Bucket(next) <=>
              x \notin {None, NoRow} /\ \E m \in Registry!Ids : x = IF m = t.id THEN next.picture ELSE profiles[m]
        BY <2>3, <3>1 DEF Bucket
      <3>3. t.picture # NoRow
        BY <2>3 DEF PictureOf, MemberNulls, MemberTypeInv, Registry!TypeOK, Registry!Pictures
      <3>4. CASE ~t.file
        BY <2>1, <2>3, <2>5, <3>1, <3>2, <3>4, ShownPictures
      <3>5. CASE t.file /\ profiles[t.id] = None
        BY <2>1, <2>3, <2>5, <3>1, <3>2, <3>3, <3>5, ShownPictures
      <3>6. QED
        BY <2>1, <3>1, <3>4, <3>5
    <2>7. next.stage # "setting" => Bucket(next) = Shown \union ({t.picture} \ {None})
      BY <2>1 DEF Bucket
    <2>8. ~cutShort' => objects' = Bucket(next)'
      BY <2>2, <2>5, <2>6, <2>7 DEF Bucket
    <2>9. next.picture \in 1..uploads \union {None}
      BY <2>1, <2>3, <2>4 DEF PictureOf
    <2>10. PictureOf(next)'
      BY <2>1, <2>2, <2>3, <2>5, <2>8, <2>9 DEF PictureOf
    <2>11. Picturing(next)
      BY <2>1 DEF Picturing
    <2>12. QED
      BY <2>1, <2>2, <2>10, <2>11, PictureAfter DEF PictureInv
  <1>12. ASSUME NEW h \in Workers, Registry!DeleteOld(h)
         PROVE  PictureInv'
    <2> DEFINE t == memberTxn[h]
    <2>1. PICK next \in Registry!Transaction :
             /\ Moves(h, next) /\ Keeps(t, next) /\ next.picture = t.picture
             /\ next.stage = "setting"
      <3>1. ~Registry!AddProfile(h) /\ ~Registry!SetProfile(h)
        BY <1>12 DEF Registry!DeleteOld, Registry!AddProfile, Registry!SetProfile
      <3>2. QED
        BY <1>12, <3>1, PictureMoves
    <2>2. /\ t.stage = "deleting" /\ objects' = objects \ {t.old}
          /\ UNCHANGED <<profiles, uploads, cutShort>> /\ UNCHANGED Shown
      BY <1>12 DEF Registry!DeleteOld, Shown
    <2>3. PictureOf(t) /\ t.id \in Registry!Ids /\ next.id = t.id
      BY <1>0, <2>1, <2>2, HolderFacts DEF Keeps, GoesOn
    <2> HIDE DEF t
    <2>4. /\ t.picture \notin Shown /\ t.picture # None /\ t.old = profiles[t.id]
          /\ t.old \in Registry!Pictures
          /\ ~cutShort => objects = Shown \union {t.picture}
      BY <2>2, <2>3 DEF PictureOf, Picturing, Bucket
    <2>5. Bucket(next) = (Shown \union {t.picture}) \ {t.old}
      <3>1. SUFFICES ASSUME NEW x
                     PROVE  x \in Bucket(next) <=> (x \in Shown \/ x = t.picture) /\ x # t.old
        OBVIOUS
      <3>2. x \in Bucket(next) <=>
              x \notin {None, NoRow} /\ \E m \in Registry!Ids : x = IF m = t.id THEN t.picture ELSE profiles[m]
        BY <2>1, <2>3 DEF Bucket
      <3>3. t.picture # NoRow /\ t.old \notin {None, NoRow} /\ t.old \in Shown
        BY <2>3, <2>4, ShownPictures DEF PictureOf, MemberNulls, MemberTypeInv, Registry!TypeOK, Registry!Pictures
      <3>4. \A m \in Registry!Ids : profiles[m] = t.old => m = t.id
        BY <2>3, <2>4, <3>3 DEF PictureInv
      <3>5. QED
        BY <2>3, <2>4, <3>2, <3>3, <3>4, ShownPictures
    <2>6. ~cutShort' => objects' = Bucket(next)'
      BY <2>2, <2>4, <2>5 DEF Bucket
    <2>7. PictureOf(next)'
      BY <2>1, <2>2, <2>3, <2>4, <2>6 DEF PictureOf
    <2>8. Picturing(next)
      BY <2>1 DEF Picturing
    <2>9. QED
      BY <2>1, <2>2, <2>7, <2>8, PictureAfter DEF PictureInv
  <1>13. ASSUME NEW h \in Workers,
                \/ Registry!AddProfile(h) /\ Registry!Exists(memberTxn[h].id) /\ profiles[memberTxn[h].id] = NoRow
                \/ Registry!SetProfile(h)
         PROVE  PictureInv'
    <2>1. ~Registry!DeleteOld(h) /\ memberTxn[h].stage \in {"adding", "setting"}
      BY <1>13 DEF Registry!AddProfile, Registry!SetProfile, Registry!DeleteOld
    <2>2. PICK next \in Registry!Transaction :
             /\ Moves(h, next) /\ next.picture = memberTxn[h].picture /\ next.stage = "tags"
             /\ profiles' = [profiles EXCEPT ![memberTxn[h].id] = memberTxn[h].picture]
             /\ UNCHANGED <<uploads, objects, cutShort>>
      BY <1>13, <2>1, PictureMoves
    <2>3. memberTxn[h].id \in Registry!Ids
      BY <2>1, HolderFacts
    <2>4. QED
      BY <2>1, <2>2, <2>3, ProfileGets
  <1>14. CASE UNCHANGED <<profiles, uploads, objects, memberTxn, cutShort>>
    BY <1>14 DEF PictureInv, PictureOf, Picturing, Bucket, Shown
  <1>15. QED
    BY <1>1, <1>2, <1>3, <1>4, <1>5, <1>6, <1>7, <1>8, <1>9, <1>10, <1>11, <1>12, <1>13, <1>14,
       NextKinds DEF Registry!Age, Registry!HandleCron, Registry!pictureRows, Registry!vars

\* One handler at a time, ended after any statement, and the cron job between
\* any two of them, for any number of members: no two members share an address
\* or a nickname; between handlers, as long as none was cut short, the bucket
\* holds the pictures the profiles show and no other.
THEOREM MembersAreConsistent ==
    ASSUME MemberNulls
    PROVE  MemberSpec => []MembersConsistent
  <1> DEFINE MInv == MemberTypeInv /\ (inTurn => OneUnderWay(memberTxn) /\ NamesInv /\ PictureInv)
  <1>1. Registry!Init => MInv
    <2> SUFFICES ASSUME Registry!Init
                 PROVE  OneUnderWay(memberTxn) /\ NamesInv /\ PictureInv
      BY MemberInit
    <2>1. /\ \A m \in Registry!Ids : members[m] = NoRow /\ profiles[m] = NoRow
          /\ \A h \in Workers : memberTxn[h] = Registry!Idle
          /\ objects = {}
      BY DEF Registry!Init
    <2>2. Shown = {}
      BY <2>1 DEF Shown
    <2>3. Free(Registry!Idle) /\ PictureOf(Registry!Idle)
      BY IdleMember DEF Free, Holds, PictureOf, Picturing
    <2>4. NamesInv
      BY <2>1, <2>3 DEF NamesInv, Registry!NoDuplicates, Registry!Exists
    <2>5. PictureInv
      BY <2>1, <2>2, <2>3 DEF PictureInv
    <2>6. OneUnderWay(memberTxn)
      BY <2>1, IdleMember DEF OneUnderWay
    <2>7. QED
      BY <2>4, <2>5, <2>6
  <1> DEFINE Step == Registry!Next /\ UNCHANGED inTurn /\ (inTurn => OneUnderWay(memberTxn'))
  <1>2. MInv /\ [Step]_<<memberVars, inTurn>> => MInv'
    <2> SUFFICES ASSUME MInv, [Step]_<<memberVars, inTurn>>
                 PROVE  MInv'
      OBVIOUS
    <2>1. [Registry!Next]_(Registry!vars) /\ inTurn' = inTurn
      BY DEF memberVars, Registry!vars
    <2>2. inTurn /\ OneUnderWay(memberTxn) => OneUnderWay(memberTxn')
      BY DEF memberVars
    <2>3. MemberTypeInv'
      BY <2>1, MemberTypes
    <2>4. inTurn => OneUnderWay(memberTxn)' /\ NamesInv' /\ PictureInv'
      <3>1. SUFFICES ASSUME inTurn
                     PROVE  OneUnderWay(memberTxn') /\ NamesInv' /\ PictureInv'
        BY DEF OneUnderWay
      <3>2. OneUnderWay(memberTxn) /\ OneUnderWay(memberTxn')
        BY <2>2, <3>1
      <3>3. QED
        BY <2>1, <3>1, <3>2, NamesStep, PictureStep
    <2>5. QED
      BY <2>1, <2>3, <2>4
  <1>3. MInv => MembersConsistent
    <2>1. PictureInv => Registry!PicturesMatch
      BY DEF PictureInv, Picturing, Registry!PicturesMatch, Shown
    <2>2. NamesInv /\ PictureInv => Registry!MembersConsistent
      BY <2>1 DEF NamesInv, Registry!MembersConsistent
    <2>3. QED
      BY <2>2 DEF MemberTypeInv, MembersConsistent
  <1>4. QED
    BY <1>1, <1>2, <1>3, PTL DEF MemberSpec

-----------------------------------------------------------------------------
\* Codes and passwords that are mailed.
MailNulls ==
    /\ MaxCodes \in Nat /\ MaxPasswords \in Nat
    /\ Registered \subseteq Emails /\ None \notin 1..MaxCodes

\* Who saves or hands out a password has one.
MailTypeInv ==
    /\ Mails!TypeOK
    /\ \A h \in Workers :
          mailTxn[h].stage \in {"saving", "handing"} => mailTxn[h].secret \in Mails!Passwords

\* A password that has been in force: the member knows it, or its mail was not
\* sent, or it is about to be mailed.
Coming(e, p) ==
    \/ p \in known[e] \union mailLost
    \/ \E h \in Workers : /\ mailTxn[h].stage = "handing" /\ mailTxn[h].email = e
                           /\ mailTxn[h].secret = p

\* So with the one in force, and with one that a stale save will bring back.
PasswordsComing ==
    /\ \A e \in Registered : Coming(e, password[e])
    /\ \A h \in Workers :
          mailTxn[h].stage = "saving" /\ mailTxn[h].op \notin {"reissue", "change"} =>
              Coming(mailTxn[h].email, mailTxn[h].secret)

\* A code is stored once, by the address it was drawn for, and not any more
\* when its verification is answered.
CodesInv ==
    /\ \A e \in Emails : storedCodes[e] \in 1..codes \union {None}
    /\ \A e, f \in Emails : storedCodes[e] = storedCodes[f] /\ storedCodes[e] # None => e = f
    /\ spent \subseteq 1..codes
    /\ \A e \in Emails : storedCodes[e] \notin spent
    /\ \A h \in Workers :
          LET t == mailTxn[h] IN
          /\ t.stage \in {"matched", "verified"} => t.code \in 1..codes /\ t.email \in Emails
          /\ t.stage = "matched" => \A e \in Emails : storedCodes[e] = t.code => e = t.email
          /\ t.stage = "verified" => \A e \in Emails : storedCodes[e] # t.code
          /\ t.stage # "idle" => ~t.late

\* One handler at a time: the code that was matched is replaced by no other.
OwnCodeInv ==
    \A h \in Workers :
        mailTxn[h].stage = "matched" => storedCodes[mailTxn[h].email] \in {None, mailTxn[h].code}

MailStages == {"idle", "mailing", "matched", "verified", "saving", "handing"}

MailMoves(h, next) == mailTxn' = [mailTxn EXCEPT ![h] = next]

LEMMA IdleMail ==
    Mails!Idle \in Mails!Transaction /\ Mails!Idle.stage = "idle" /\ ~Mails!Idle.late
  BY DEF Mails!Idle, Mails!Transaction, Mails!Passwords, Mails!Codes

LEMMA SendMoves ==
    ASSUME MailTypeInv, MailNulls, NEW h \in Workers, NEW e \in Emails, Mails!Send(h, e)
    PROVE  /\ codes + 1 \in Mails!Codes
           /\ \E next \in Mails!Transaction :
                 MailMoves(h, next) /\ next.stage = "mailing" /\ ~next.late
  <1> DEFINE next == [Mails!Idle EXCEPT !.stage = "mailing", !.op = "send",
                                        !.email = e, !.code = codes + 1]
  <1>1. codes + 1 \in Mails!Codes
    BY DEF Mails!Send, MailTypeInv, Mails!TypeOK, MailNulls, Mails!Codes
  <1>2. MailMoves(h, next)
    BY DEF Mails!Send, MailMoves
  <1>3. next \in Mails!Transaction /\ next.stage = "mailing" /\ ~next.late
    BY <1>1 DEF Mails!Idle, Mails!Transaction, Mails!Passwords
  <1> HIDE DEF next
  <1>4. QED
    BY <1>1, <1>2, <1>3

LEMMA MatchMoves ==
    ASSUME NEW h \in Workers, NEW op \in {"verify", "reissue"}, NEW e \in Emails,
           NEW c \in Mails!Codes, Mails!Match(h, op, e, c)
    PROVE  \E next \in Mails!Transaction :
              /\ MailMoves(h, next) /\ next.stage = "matched" /\ next.email = e /\ next.code = c
              /\ next.late <=> c \in spent
  <1> DEFINE late == c \in spent
             next == [Mails!Idle EXCEPT !.stage = "matched", !.op = op, !.email = e,
                                        !.code = c, !.late = late]
  <1>1. MailMoves(h, next) /\ late \in BOOLEAN
    BY DEF Mails!Match, MailMoves
  <1> HIDE DEF late
  <1>2. /\ next \in Mails!Transaction /\ next.stage = "matched" /\ next.email = e /\ next.code = c
        /\ next.late = late
    BY <1>1 DEF Mails!Idle, Mails!Transaction, Mails!Passwords
  <1> HIDE DEF next
  <1>3. QED
    BY <1>1, <1>2 DEF late

LEMMA ChangeMoves ==
    ASSUME MailTypeInv, MailNulls, NEW h \in Workers, NEW e \in Registered, NEW old,
           Mails!Change(h, e, old)
    PROVE  /\ passwords + 1 \in Mails!Passwords
           /\ \E next \in Mails!Transaction :
                 /\ MailMoves(h, next) /\ next.stage = "saving" /\ next.email = e
                 /\ next.op = "change" /\ next.secret = passwords + 1 /\ ~next.late
  <1> DEFINE next == [Mails!Idle EXCEPT !.stage = "saving", !.op = "change",
                                        !.email = e, !.secret = passwords + 1]
  <1>1. passwords + 1 \in Mails!Passwords
    BY DEF Mails!Change, MailTypeInv, Mails!TypeOK, MailNulls, Mails!Passwords
  <1>2. MailMoves(h, next)
    BY DEF Mails!Change, MailMoves
  <1>3. /\ next \in Mails!Transaction /\ next.stage = "saving" /\ next.email = e
        /\ next.op = "change" /\ next.secret = passwords + 1 /\ ~next.late
    BY <1>1 DEF MailNulls, Mails!Idle, Mails!Transaction
  <1> HIDE DEF next
  <1>4. QED
    BY <1>1, <1>2, <1>3

LEMMA LoadMoves ==
    ASSUME MailTypeInv, MailNulls, NEW h \in Workers, NEW e \in Registered, Mails!LoadMember(h, e)
    PROVE  \E next \in Mails!Transaction :
              /\ MailMoves(h, next) /\ next.stage = "saving" /\ next.email = e
              /\ next.secret = password[e] /\ ~next.late
  <1> DEFINE next == [Mails!Idle EXCEPT !.stage = "saving", !.op = "profile",
                                        !.email = e, !.secret = password[e]]
  <1>1. password[e] \in Mails!Passwords
    BY DEF MailTypeInv, Mails!TypeOK
  <1>2. MailMoves(h, next)
    BY DEF Mails!LoadMember, MailMoves
  <1>3. /\ next \in Mails!Transaction /\ next.stage = "saving" /\ next.email = e
        /\ next.secret = password[e] /\ ~next.late
    BY <1>1 DEF MailNulls, Mails!Idle, Mails!Transaction
  <1> HIDE DEF next
  <1>4. QED
    BY <1>2, <1>3

LEMMA MailGoesOn ==
    ASSUME NEW t \in Mails!Transaction, NEW stage \in MailStages
    PROVE  LET next == [t EXCEPT !.stage = stage] IN
           /\ next \in Mails!Transaction /\ next.stage = stage /\ next.email = t.email
           /\ next.op = t.op /\ next.code = t.code /\ next.secret = t.secret
           /\ next.late = t.late
  BY DEF Mails!Transaction, MailStages

LEMMA DeleteMoves ==
    ASSUME MailTypeInv, NEW h \in Workers, Mails!Delete(h)
    PROVE  \E next \in Mails!Transaction :
              /\ MailMoves(h, next) /\ next.stage = "verified" /\ next.email = mailTxn[h].email
              /\ next.code = mailTxn[h].code /\ next.late = mailTxn[h].late
  <1> DEFINE t == mailTxn[h]
             next == [t EXCEPT !.stage = "verified"]
  <1>1. t \in Mails!Transaction /\ MailMoves(h, next)
    BY DEF MailTypeInv, Mails!TypeOK, Mails!Delete, MailMoves
  <1>2. "verified" \in MailStages
    BY DEF MailStages
  <1> HIDE DEF t
  <1>3. /\ next \in Mails!Transaction /\ next.stage = "verified" /\ next.email = t.email
        /\ next.code = t.code /\ next.late = t.late
    BY <1>1, <1>2, MailGoesOn
  <1> HIDE DEF next
  <1>4. QED
    BY <1>1, <1>3 DEF t

LEMMA ReissueMoves ==
    ASSUME MailTypeInv, MailNulls, NEW h \in Workers, Mails!Reissue(h)
    PROVE  /\ passwords + 1 \in Mails!Passwords
           /\ \/ MailMoves(h, Mails!Idle)
              \/ \E next \in Mails!Transaction :
                    /\ MailMoves(h, next) /\ next.stage = "saving" /\ next.email \in Registered
                    /\ next.op = "reissue" /\ next.secret = passwords + 1
                    /\ next.late = mailTxn[h].late
  <1> DEFINE t == mailTxn[h]
             next == [t EXCEPT !.stage = "saving", !.secret = passwords + 1]
  <1>1. passwords + 1 \in Mails!Passwords
    BY DEF Mails!Reissue, MailTypeInv, Mails!TypeOK, MailNulls, Mails!Passwords
  <1>2. /\ t \in Mails!Transaction /\ t.op = "reissue"
        /\ IF t.email \in Registered THEN MailMoves(h, next) ELSE MailMoves(h, Mails!Idle)
    BY DEF MailTypeInv, Mails!TypeOK, Mails!Reissue, MailMoves
  <1> HIDE DEF t
  <1>3. /\ next \in Mails!Transaction /\ next.stage = "saving" /\ next.email = t.email
        /\ next.op = "reissue" /\ next.secret = passwords + 1 /\ next.late = t.late
    BY <1>1, <1>2 DEF Mails!Transaction
  <1> HIDE DEF next
  <1>4. QED
    BY <1>1, <1>2, <1>3 DEF t

LEMMA SavePasswordMoves ==
    ASSUME MailTypeInv, NEW h \in Workers, Mails!SavePassword(h)
    PROVE  LET t == mailTxn[h] IN
           \/ /\ t.op = "reissue" /\ UNCHANGED known
              /\ \E next \in Mails!Transaction :
                    /\ MailMoves(h, next) /\ next.stage = "handing" /\ next.email = t.email
                    /\ next.secret = t.secret /\ next.late = t.late
           \/ /\ t.op = "change" /\ MailMoves(h, Mails!Idle)
              /\ known' = [known EXCEPT ![t.email] = @ \union {t.secret}]
           \/ /\ t.op \notin {"reissue", "change"} /\ MailMoves(h, Mails!Idle)
              /\ UNCHANGED known
  <1> DEFINE t == mailTxn[h]
             next == [t EXCEPT !.stage = "handing"]
  <1>1. /\ t \in Mails!Transaction
        /\ IF t.op = "reissue" THEN MailMoves(h, next) ELSE MailMoves(h, Mails!Idle)
        /\ IF t.op = "change" THEN known' = [known EXCEPT ![t.email] = @ \union {t.secret}]
                              ELSE UNCHANGED known
    BY DEF MailTypeInv, Mails!TypeOK, Mails!SavePassword, MailMoves
  <1>2. "handing" \in MailStages
    BY DEF MailStages
  <1> HIDE DEF t
  <1>3. /\ next \in Mails!Transaction /\ next.stage = "handing" /\ next.email = t.email
        /\ next.secret = t.secret /\ next.late = t.late
    BY <1>1, <1>2, MailGoesOn
  <1> HIDE DEF next
  <1>4. QED
    BY <1>1, <1>3 DEF t

LEMMA MailTypesAfter ==
    ASSUME MailTypeInv, NEW h \in Workers, NEW next \in Mails!Transaction, MailMoves(h, next),
           next.stage \in {"saving", "handing"} =>
               next.email \in Registered /\ next.secret \in Mails!Passwords,
           /\ storedCodes' \in [Emails -> Mails!Codes \union {None}]
           /\ codes' \in 0..MaxCodes /\ passwords' \in Mails!Passwords
           /\ password' \in [Registered -> Mails!Passwords]
           /\ known' \in [Registered -> SUBSET Mails!Passwords]
           /\ spent' \subseteq Mails!Codes
           /\ mailLost' \subseteq Mails!Passwords
    PROVE  MailTypeInv'
  <1>1. mailTxn' \in [Workers -> Mails!Transaction]
    BY DEF MailMoves, MailTypeInv, Mails!TypeOK
  <1>2. \A g \in Workers : mailTxn'[g].stage \in {"saving", "handing"} =>
           mailTxn'[g].email \in Registered /\ mailTxn'[g].secret \in Mails!Passwords
    BY DEF MailMoves, MailTypeInv, Mails!TypeOK
  <1>3. QED
    BY <1>1, <1>2 DEF MailTypeInv, Mails!TypeOK

\* Types, and the two invariants that hold whatever overlaps.
MailInv == MailTypeInv /\ PasswordsComing /\ CodesInv

\* A password the member will not be mailed by this step stays covered.
LEMMA ComingAfter ==
    ASSUME MailTypeInv, NEW h \in Workers, NEW next \in Mails!Transaction, MailMoves(h, next),
           NEW e \in Registered, NEW p, Coming(e, p),
           known[e] \subseteq known'[e], mailLost \subseteq mailLost',
           mailTxn[h].stage = "handing" /\ mailTxn[h].email = e /\ mailTxn[h].secret = p =>
               p \in known'[e] \union mailLost'
    PROVE  Coming(e, p)'
  <1>1. \A g \in Workers \ {h} : mailTxn'[g] = mailTxn[g]
    BY DEF MailMoves, MailTypeInv, Mails!TypeOK
  <1>2. QED
    BY <1>1 DEF Coming

\* The password in force stays, and what is handed out or lost is so now.
LEMMA PasswordsAfter ==
    ASSUME MailTypeInv, PasswordsComing, NEW h \in Workers, NEW next \in Mails!Transaction,
           MailMoves(h, next), UNCHANGED password,
           \A e \in Registered : known[e] \subseteq known'[e], mailLost \subseteq mailLost',
           mailTxn[h].stage = "handing" =>
               mailTxn[h].secret \in known'[mailTxn[h].email] \union mailLost',
           next.stage = "saving" /\ next.op \notin {"reissue", "change"} =>
               next.email \in Registered /\ next.secret = password[next.email]
    PROVE  PasswordsComing'
  <1>1. mailTxn'[h] = next /\ \A g \in Workers \ {h} : mailTxn'[g] = mailTxn[g]
    BY DEF MailMoves, MailTypeInv, Mails!TypeOK
  <1>2. ASSUME NEW e \in Registered, NEW p, Coming(e, p)
        PROVE  Coming(e, p)'
    BY <1>2, ComingAfter
  <1>3. \A e \in Registered : Coming(e, password[e])'
    BY <1>2 DEF PasswordsComing
  <1>4. ASSUME NEW g \in Workers, mailTxn'[g].stage = "saving",
               mailTxn'[g].op \notin {"reissue", "change"}
        PROVE  Coming(mailTxn[g].email, mailTxn[g].secret)'
    <2>1. CASE g = h
      <3>1. next.email \in Registered /\ next.secret = password'[next.email]
        BY <1>1, <1>4, <2>1
      <3>2. Coming(next.email, password[next.email])'
        BY <1>3, <3>1
      <3>3. QED
        BY <1>1, <2>1, <3>1, <3>2 DEF Coming
    <2>2. CASE g # h
      <3>1. mailTxn'[g] = mailTxn[g]
        BY <1>1, <2>2
      <3>2. mailTxn[g].email \in Registered /\ Coming(mailTxn[g].email, mailTxn[g].secret)
        BY <1>4, <3>1 DEF PasswordsComing, MailTypeInv, Mails!TypeOK
      <3>3. Coming(mailTxn[g].email, mailTxn[g].secret)'
        BY <1>2, <3>1, <3>2 DEF Coming
      <3>4. QED
        BY <3>3
    <2>3. QED
      BY <2>1, <2>2
  <1>5. QED
    BY <1>3, <1>4 DEF PasswordsComing

\* The handler, where the codes and the spent ones stay.
CodeOf(t) ==
    /\ t.stage \in {"matched", "verified"} => t.code \in 1..codes /\ t.email \in Emails
    /\ t.stage = "matched" => \A e \in Emails : storedCodes[e] = t.code => e = t.email
    /\ t.stage = "verified" => \A e \in Emails : storedCodes[e] # t.code
    /\ t.stage # "idle" => ~t.late

LEMMA CodesAfter ==
    ASSUME MailTypeInv, CodesInv, NEW h \in Workers, NEW next \in Mails!Transaction,
           MailMoves(h, next), UNCHANGED <<storedCodes, codes>>, CodeOf(next),
           \/ UNCHANGED spent
           \/ spent' = spent \union {mailTxn[h].code} /\ mailTxn[h].stage = "verified"
    PROVE  CodesInv'
  <1>1. mailTxn'[h] = next /\ \A g \in Workers \ {h} : mailTxn'[g] = mailTxn[g]
    BY DEF MailMoves, MailTypeInv, Mails!TypeOK
  <1>2. \A g \in Workers : CodeOf(mailTxn'[g])
    BY <1>1 DEF CodesInv, CodeOf
  <1>3. spent' \subseteq 1..codes /\ \A e \in Emails : storedCodes[e] \notin spent'
    BY DEF CodesInv
  <1>4. QED
    BY <1>2, <1>3 DEF CodesInv, CodeOf

\* A code is drawn and stored.
LEMMA CodesDrawn ==
    ASSUME MailTypeInv, MailNulls, CodesInv, NEW h \in Workers, NEW next \in Mails!Transaction,
           MailMoves(h, next), next.stage \notin {"matched", "verified"}, ~next.late,
           NEW a \in Emails, codes + 1 \in Mails!Codes, codes' = codes + 1,
           storedCodes' = [storedCodes EXCEPT ![a] = codes + 1], UNCHANGED spent
    PROVE  CodesInv'
  <1>1. mailTxn'[h] = next /\ \A g \in Workers \ {h} : mailTxn'[g] = mailTxn[g]
    BY DEF MailMoves, MailTypeInv, Mails!TypeOK
  <1>2. codes + 1 \notin 1..codes /\ 1..codes \subseteq 1..codes' /\ codes + 1 \in 1..codes'
    BY DEF MailTypeInv, Mails!TypeOK, MailNulls
  <1>3. storedCodes'[a] = codes + 1 /\ \A e \in Emails \ {a} : storedCodes'[e] = storedCodes[e]
    BY DEF MailTypeInv, Mails!TypeOK
  <1>4. codes + 1 # None
    BY DEF MailNulls, Mails!Codes
  <1>5. ASSUME NEW g \in Workers
        PROVE  CodeOf(mailTxn[g])'
    BY <1>1, <1>2, <1>3 DEF CodesInv, CodeOf
  <1>6. /\ \A e \in Emails : storedCodes'[e] \in 1..codes' \union {None}
        /\ \A e, f \in Emails : storedCodes'[e] = storedCodes'[f] /\ storedCodes'[e] # None => e = f
        /\ spent' \subseteq 1..codes'
        /\ \A e \in Emails : storedCodes'[e] \notin spent'
    BY <1>2, <1>3 DEF CodesInv
  <1>7. QED
    BY <1>5, <1>6 DEF CodesInv, CodeOf

\* A code goes away: it is deleted, given up, or expires.
LEMMA CodesGone ==
    ASSUME MailTypeInv, MailNulls, CodesInv, NEW a \in Emails,
           storedCodes' = [storedCodes EXCEPT ![a] = None], UNCHANGED <<codes, spent>>,
           \/ UNCHANGED mailTxn
           \/ \E h \in Workers, next \in Mails!Transaction :
                 /\ MailMoves(h, next) /\ mailTxn[h].stage = "matched" /\ mailTxn[h].email = a
                 /\ next.stage = "verified" /\ next.email = a
                 /\ next.code = mailTxn[h].code /\ next.late = mailTxn[h].late
    PROVE  CodesInv'
  <1>1. storedCodes'[a] = None /\ \A e \in Emails \ {a} : storedCodes'[e] = storedCodes[e]
    BY DEF MailTypeInv, Mails!TypeOK
  <1>2. None \notin 1..codes
    BY DEF MailNulls, MailTypeInv, Mails!TypeOK
  <1>3. \A g \in Workers : CodeOf(mailTxn[g])
    BY DEF CodesInv, CodeOf
  <1>4. \A g \in Workers : CodeOf(mailTxn[g])'
    <2>1. CASE UNCHANGED mailTxn
      <3>1. ASSUME NEW g \in Workers
            PROVE  CodeOf(mailTxn[g])'
        BY <1>1, <1>2, <1>3, <2>1 DEF CodeOf
      <3>2. QED
        BY <3>1
    <2>2. ASSUME NEW h \in Workers, NEW next \in Mails!Transaction,
                 MailMoves(h, next), mailTxn[h].stage = "matched", mailTxn[h].email = a,
                 next.stage = "verified", next.email = a,
                 next.code = mailTxn[h].code, next.late = mailTxn[h].late
          PROVE  \A g \in Workers : CodeOf(mailTxn[g])'
      <3>1. mailTxn'[h] = next /\ \A g \in Workers \ {h} : mailTxn'[g] = mailTxn[g]
        BY <2>2 DEF MailMoves, MailTypeInv, Mails!TypeOK
      <3>2. ASSUME NEW g \in Workers \ {h}
            PROVE  CodeOf(mailTxn[g])'
        BY <1>1, <1>2, <1>3, <3>1 DEF CodeOf
      <3>3. CodeOf(next)'
        BY <1>1, <1>2, <1>3, <2>2 DEF CodeOf
      <3>4. QED
        BY <3>1, <3>2, <3>3
    <2>3. QED
      BY <2>1, <2>2
  <1>5. /\ \A e \in Emails : storedCodes'[e] \in 1..codes' \union {None}
        /\ \A e, f \in Emails : storedCodes'[e] = storedCodes'[f] /\ storedCodes'[e] # None => e = f
    BY <1>1, <1>2 DEF CodesInv
  <1>6. \A e \in Emails : storedCodes'[e] \notin spent'
    <2>1. None \notin spent /\ spent' = spent
      BY <1>2 DEF CodesInv
    <2>2. \A e \in Emails : storedCodes[e] \notin spent
      BY DEF CodesInv
    <2>3. QED
      BY <1>1, <2>1, <2>2
  <1>7. QED
    BY <1>4, <1>5, <1>6 DEF CodesInv, CodeOf

\* Nothing to begin with.
LEMMA MailInit ==
    ASSUME MailNulls, Mails!Init
    PROVE  MailInv
  <1>1. /\ codes = 0 /\ passwords = 0 /\ spent = {} /\ mailLost = {}
        /\ \A e \in Emails : storedCodes[e] = None
        /\ \A e \in Registered : password[e] = 0 /\ known[e] = {0}
        /\ \A h \in Workers : mailTxn[h] = Mails!Idle
    BY DEF Mails!Init
  <1>2. 0 \in 0..MaxCodes /\ 0 \in Mails!Passwords
    BY DEF MailNulls, Mails!Passwords
  <1>3. MailTypeInv
    BY <1>1, <1>2, IdleMail DEF Mails!Init, MailTypeInv, Mails!TypeOK
  <1>4. PasswordsComing /\ CodesInv
    BY <1>1, IdleMail DEF PasswordsComing, Coming, CodesInv
  <1>5. QED
    BY <1>3, <1>4 DEF MailInv

\* Every step keeps types, passwords and codes.
LEMMA MailStep ==
    ASSUME MailNulls, MailInv, [Mails!Next]_(Mails!vars)
    PROVE  MailInv'
  <1> USE DEF MailInv
  <1>1. ASSUME NEW h \in Workers, NEW e \in Emails, Mails!Send(h, e)
        PROVE  MailInv'
    <2>1. PICK next \in Mails!Transaction :
             MailMoves(h, next) /\ next.stage = "mailing" /\ ~next.late
      BY <1>1, SendMoves
    <2>2. /\ codes + 1 \in Mails!Codes /\ codes' = codes + 1
          /\ storedCodes' = [storedCodes EXCEPT ![e] = codes + 1]
          /\ mailTxn[h].stage = "idle"
          /\ UNCHANGED <<passwords, password, known, spent, mailLost>>
      BY <1>1, SendMoves DEF Mails!Send, Mails!secrets
    <2>3. /\ storedCodes' \in [Emails -> Mails!Codes \union {None}]
          /\ codes' \in 0..MaxCodes
      BY <2>2 DEF MailTypeInv, Mails!TypeOK, Mails!Codes, MailNulls
    <2>4. MailTypeInv'
      BY <2>1, <2>2, <2>3, MailTypesAfter DEF MailTypeInv, Mails!TypeOK
    <2>5. PasswordsComing' /\ CodesInv'
      BY <2>1, <2>2, PasswordsAfter, CodesDrawn
    <2>6. QED
      BY <2>4, <2>5
  <1>2. ASSUME NEW h \in Workers, NEW e \in Emails, NEW c \in Mails!Codes,
               NEW op \in {"verify", "reissue"}, Mails!Match(h, op, e, c)
        PROVE  MailInv'
    <2>1. PICK next \in Mails!Transaction :
             /\ MailMoves(h, next) /\ next.stage = "matched" /\ next.email = e /\ next.code = c
             /\ next.late <=> c \in spent
      BY <1>2, MatchMoves
    <2>2. /\ storedCodes[e] = c /\ c # None /\ mailTxn[h].stage = "idle"
          /\ UNCHANGED <<storedCodes, codes, passwords, password, known, spent, mailLost>>
      BY <1>2 DEF Mails!Match, Mails!secrets, MailNulls, Mails!Codes
    <2>3. MailTypeInv'
      BY <2>1, <2>2, MailTypesAfter DEF MailTypeInv, Mails!TypeOK
    <2>4. CodeOf(next)
      BY <2>1, <2>2 DEF CodeOf, CodesInv
    <2>5. QED
      BY <2>1, <2>2, <2>3, <2>4, PasswordsAfter, CodesAfter
  <1>3. ASSUME NEW h \in Workers, NEW e \in Registered, NEW old, Mails!Change(h, e, old)
        PROVE  MailInv'
    <2>1. PICK next \in Mails!Transaction :
             /\ MailMoves(h, next) /\ next.stage = "saving" /\ next.email = e
             /\ next.op = "change" /\ next.secret = passwords + 1 /\ ~next.late
      BY <1>3, ChangeMoves
    <2>2. /\ passwords + 1 \in Mails!Passwords /\ passwords' = passwords + 1
          /\ mailTxn[h].stage = "idle"
          /\ UNCHANGED <<storedCodes, codes, password, known, spent, mailLost>>
      BY <1>3, ChangeMoves DEF Mails!Change
    <2>3. MailTypeInv'
      BY <2>1, <2>2, MailTypesAfter DEF MailTypeInv, Mails!TypeOK
    <2>4. CodeOf(next)
      BY <2>1 DEF CodeOf
    <2>5. QED
      BY <2>1, <2>2, <2>3, <2>4, PasswordsAfter, CodesAfter
  <1>4. ASSUME NEW h \in Workers, Mails!SendMail(h)
        PROVE  MailInv'
    <2>1. /\ MailMoves(h, Mails!Idle) /\ mailTxn[h].stage = "mailing"
          /\ UNCHANGED <<storedCodes, codes, passwords, password, known, spent, mailLost>>
      BY <1>4 DEF Mails!SendMail, Mails!secrets, MailMoves
    <2>2. MailTypeInv'
      BY <2>1, IdleMail, MailTypesAfter DEF MailTypeInv, Mails!TypeOK
    <2>3. CodeOf(Mails!Idle)
      BY IdleMail DEF CodeOf
    <2>4. QED
      BY <2>1, <2>2, <2>3, IdleMail, PasswordsAfter, CodesAfter
  <1>5. ASSUME NEW h \in Workers, Mails!Delete(h)
        PROVE  MailInv'
    <2> DEFINE a == mailTxn[h].email
    <2>1. PICK next \in Mails!Transaction :
              /\ MailMoves(h, next) /\ next.stage = "verified" /\ next.email = a
              /\ next.code = mailTxn[h].code /\ next.late = mailTxn[h].late
      BY <1>5, DeleteMoves
    <2>2. /\ mailTxn[h].stage = "matched"
          /\ storedCodes' = [storedCodes EXCEPT ![a] = None]
          /\ UNCHANGED <<codes, passwords, password, known, spent, mailLost>>
      BY <1>5 DEF Mails!Delete, Mails!secrets
    <2>3. a \in Emails
      BY <2>2 DEF CodesInv
    <2>4. storedCodes' \in [Emails -> Mails!Codes \union {None}]
      BY <2>2, <2>3 DEF MailTypeInv, Mails!TypeOK
    <2>5. MailTypeInv'
      BY <2>1, <2>2, <2>4, MailTypesAfter DEF MailTypeInv, Mails!TypeOK
    <2>6. PasswordsComing'
      BY <2>1, <2>2, PasswordsAfter
    <2>7. CodesInv'
      BY <2>1, <2>2, <2>3, CodesGone
    <2>8. QED
      BY <2>5, <2>6, <2>7
  <1>6. ASSUME NEW h \in Workers, Mails!Verified(h)
        PROVE  MailInv'
    <2>1. /\ MailMoves(h, Mails!Idle) /\ mailTxn[h].stage = "verified"
          /\ spent' = spent \union {mailTxn[h].code}
          /\ UNCHANGED <<storedCodes, codes, passwords, password, known, mailLost>>
      BY <1>6 DEF Mails!Verified, Mails!secrets, MailMoves
    <2>2. CodeOf(Mails!Idle)
      BY IdleMail DEF CodeOf
    <2>3. PasswordsComing' /\ CodesInv'
      BY <2>1, <2>2, IdleMail, PasswordsAfter, CodesAfter
    <2>4. spent' \subseteq Mails!Codes
      BY <2>1, <2>3 DEF CodesInv, MailTypeInv, Mails!TypeOK, Mails!Codes, MailNulls
    <2>5. MailTypeInv'
      BY <2>1, <2>4, IdleMail, MailTypesAfter DEF MailTypeInv, Mails!TypeOK
    <2>6. QED
      BY <2>3, <2>5
  <1>7. ASSUME NEW h \in Workers, Mails!Reissue(h)
        PROVE  MailInv'
    <2>1. PICK next \in Mails!Transaction :
             /\ MailMoves(h, next)
             /\ \/ next.stage = "idle"
                \/ /\ next.stage = "saving" /\ next.email \in Registered
                   /\ next.op = "reissue" /\ next.secret = passwords + 1
                   /\ next.late = mailTxn[h].late
      BY <1>7, ReissueMoves, IdleMail
    <2>2. /\ mailTxn[h].stage = "verified" /\ passwords' = passwords + 1
          /\ passwords + 1 \in Mails!Passwords
          /\ spent' = spent \union {mailTxn[h].code}
          /\ UNCHANGED <<storedCodes, codes, password, known, mailLost>>
      BY <1>7, ReissueMoves DEF Mails!Reissue
    <2>3. CodeOf(next)
      BY <2>1, <2>2 DEF CodeOf, CodesInv
    <2>4. PasswordsComing' /\ CodesInv'
      BY <2>1, <2>2, <2>3, PasswordsAfter, CodesAfter
    <2>5. spent' \subseteq Mails!Codes
      BY <2>2, <2>4 DEF CodesInv, MailTypeInv, Mails!TypeOK, Mails!Codes, MailNulls
    <2>6. MailTypeInv'
      BY <2>1, <2>2, <2>5, MailTypesAfter DEF MailTypeInv, Mails!TypeOK
    <2>7. QED
      BY <2>4, <2>6
  <1>8. ASSUME NEW h \in Workers, Mails!SavePassword(h)
        PROVE  MailInv'
    <2> DEFINE t == mailTxn[h]
    <2>1. PICK next \in Mails!Transaction :
             /\ MailMoves(h, next)
             /\ \/ /\ t.op = "reissue" /\ UNCHANGED known
                   /\ next.stage = "handing" /\ next.email = t.email
                   /\ next.secret = t.secret /\ next.late = t.late
                \/ /\ t.op = "change" /\ next = Mails!Idle
                   /\ known' = [known EXCEPT ![t.email] = @ \union {t.secret}]
                \/ /\ t.op \notin {"reissue", "change"} /\ next = Mails!Idle
                   /\ UNCHANGED known
      BY <1>8, SavePasswordMoves, IdleMail
    <2>2. /\ t.stage = "saving" /\ password' = [password EXCEPT ![t.email] = t.secret]
          /\ UNCHANGED <<storedCodes, codes, passwords, spent, mailLost>>
      BY <1>8 DEF Mails!SavePassword
    <2>3. t.email \in Registered /\ t.secret \in Mails!Passwords
      BY <2>2 DEF MailTypeInv, Mails!TypeOK
    <2>4. CodeOf(next)
      BY <2>1, <2>2, IdleMail DEF CodeOf, CodesInv
    <2>5. mailTxn'[h] = next /\ \A g \in Workers \ {h} : mailTxn'[g] = mailTxn[g]
      BY <2>1 DEF MailMoves, MailTypeInv, Mails!TypeOK
    <2>6. CodesInv'
      BY <2>1, <2>2, <2>4, CodesAfter
    <2>7. t.op \notin {"reissue", "change"} => Coming(t.email, t.secret)
      BY <2>2 DEF PasswordsComing
    <2>8. mailTxn[h].stage = "saving"
      BY <2>2
    <2> HIDE DEF t
    <2>9. /\ password' \in [Registered -> Mails!Passwords]
          /\ known' \in [Registered -> SUBSET Mails!Passwords]
      BY <2>1, <2>2, <2>3 DEF MailTypeInv, Mails!TypeOK
    <2>10. MailTypeInv'
      BY <2>1, <2>2, <2>3, <2>9, IdleMail, MailTypesAfter DEF MailTypeInv, Mails!TypeOK
    <2>11. \A e \in Registered : known[e] \subseteq known'[e]
      BY <2>1, <2>3 DEF MailTypeInv, Mails!TypeOK
    <2>12. ASSUME NEW e \in Registered, NEW p, Coming(e, p)
           PROVE  Coming(e, p)'
      BY <2>1, <2>2, <2>8, <2>11, <2>12, ComingAfter
    <2>13. PICK a \in Registered, q \in Mails!Passwords : a = t.email /\ q = t.secret
      BY <2>3
    <2>14. ASSUME NEW e \in Registered
           PROVE  Coming(e, password[e])'
      <3>1. CASE e = a
        <4>1. password'[e] = q
          BY <2>2, <2>13, <3>1 DEF MailTypeInv, Mails!TypeOK
        <4>2. CASE t.op = "reissue"
          BY <2>1, <2>5, <2>13, <3>1, <4>1, <4>2 DEF Coming
        <4>3. CASE t.op = "change"
          BY <2>1, <2>3, <2>13, <3>1, <4>1, <4>3, IdleMail DEF Coming, MailTypeInv, Mails!TypeOK
        <4>4. CASE t.op \notin {"reissue", "change"}
          <5>1. Coming(a, q)
            BY <2>7, <2>13, <4>4
          <5>2. Coming(a, q)'
            BY <2>12, <5>1
          <5>3. QED
            BY <3>1, <4>1, <5>2 DEF Coming
        <4>5. QED
          BY <4>2, <4>3, <4>4
      <3>2. CASE e # a
        <4>1. password'[e] = password[e]
          BY <2>2, <2>13, <3>2 DEF MailTypeInv, Mails!TypeOK
        <4>2. Coming(e, password[e])
          BY DEF PasswordsComing
        <4>3. QED
          BY <2>12, <4>1, <4>2 DEF Coming
      <3>3. QED
        BY <3>1, <3>2
    <2>15. ASSUME NEW g \in Workers, mailTxn'[g].stage = "saving",
                  mailTxn'[g].op \notin {"reissue", "change"}
           PROVE  Coming(mailTxn[g].email, mailTxn[g].secret)'
      <3>1. g # h
        BY <2>1, <2>5, <2>15, IdleMail
      <3>2. mailTxn'[g] = mailTxn[g]
        BY <2>5, <3>1
      <3>3. mailTxn[g].email \in Registered /\ Coming(mailTxn[g].email, mailTxn[g].secret)
        BY <2>15, <3>2 DEF PasswordsComing, MailTypeInv, Mails!TypeOK
      <3>4. QED
        BY <2>12, <3>2, <3>3 DEF Coming
    <2>16. PasswordsComing'
      BY <2>14, <2>15 DEF PasswordsComing
    <2>17. QED
      BY <2>6, <2>10, <2>16
  <1>9. ASSUME NEW h \in Workers, Mails!Hand(h)
        PROVE  MailInv'
    <2> DEFINE t == mailTxn[h]
    <2>1. /\ t.stage = "handing" /\ MailMoves(h, Mails!Idle)
          /\ known' = [known EXCEPT ![t.email] = @ \union {t.secret}]
          /\ UNCHANGED <<storedCodes, codes, passwords, password, spent, mailLost>>
      BY <1>9 DEF Mails!Hand, MailMoves
    <2>2. t.email \in Registered /\ t.secret \in Mails!Passwords
      BY <2>1 DEF MailTypeInv, Mails!TypeOK
    <2>3. CodesInv'
      BY <2>1, IdleMail, CodesAfter DEF CodeOf
    <2>4. /\ known' \in [Registered -> SUBSET Mails!Passwords]
          /\ \A e \in Registered : known[e] \subseteq known'[e]
          /\ t.secret \in known'[t.email]
      BY <2>1, <2>2 DEF MailTypeInv, Mails!TypeOK
    <2>5. MailTypeInv'
      BY <2>1, <2>4, IdleMail, MailTypesAfter DEF MailTypeInv, Mails!TypeOK
    <2>6. PasswordsComing'
      BY <2>1, <2>4, IdleMail, PasswordsAfter
    <2>7. QED
      BY <2>3, <2>5, <2>6
  <1>10. ASSUME NEW h \in Workers, Mails!Interrupt(h)
         PROVE  MailInv'
    <2> DEFINE t == mailTxn[h]
    <2>1. /\ t.stage # "idle" /\ MailMoves(h, Mails!Idle)
          /\ mailLost' = mailLost \union (IF t.stage = "handing" THEN {t.secret} ELSE {})
          /\ UNCHANGED <<storedCodes, codes, passwords, password, known, spent>>
      BY <1>10 DEF Mails!Interrupt, MailMoves, Mails!secrets
    <2>2. t.stage = "handing" => t.secret \in Mails!Passwords
      BY DEF MailTypeInv
    <2>3. CodesInv'
      BY <2>1, IdleMail, CodesAfter DEF CodeOf
    <2>4. mailLost' \subseteq Mails!Passwords
      BY <2>1, <2>2 DEF MailTypeInv, Mails!TypeOK
    <2>5. MailTypeInv'
      BY <2>1, <2>4, IdleMail, MailTypesAfter DEF MailTypeInv, Mails!TypeOK
    <2>6. PasswordsComing'
      BY <2>1, IdleMail, PasswordsAfter
    <2>7. QED
      BY <2>3, <2>5, <2>6
  <1>11. ASSUME NEW e \in Emails, Mails!Forget(e)
         PROVE  MailInv'
    <2>1. /\ storedCodes' = [storedCodes EXCEPT ![e] = None]
          /\ UNCHANGED <<codes, passwords, password, known, spent, mailLost, mailTxn>>
      BY <1>11 DEF Mails!Forget, Mails!secrets
    <2>2. MailTypeInv'
      BY <2>1 DEF MailTypeInv, Mails!TypeOK
    <2>3. CodesInv'
      BY <2>1, CodesGone
    <2>4. PasswordsComing'
      BY <2>1 DEF PasswordsComing, Coming
    <2>5. QED
      BY <2>2, <2>3, <2>4
  <1>12. CASE UNCHANGED Mails!vars
    BY <1>12 DEF Mails!vars, MailTypeInv, Mails!TypeOK, PasswordsComing, Coming, CodesInv
  <1>13. ASSUME NEW h \in Workers, NEW e \in Registered, Mails!LoadMember(h, e)
         PROVE  MailInv'
    <2>1. PICK next \in Mails!Transaction :
             /\ MailMoves(h, next) /\ next.stage = "saving" /\ next.email = e
             /\ next.secret = password[e] /\ ~next.late
      BY <1>13, LoadMoves
    <2>2. /\ mailTxn[h].stage = "idle"
          /\ UNCHANGED <<storedCodes, codes, passwords, password, known, spent, mailLost>>
      BY <1>13 DEF Mails!LoadMember, Mails!secrets
    <2>3. password[e] \in Mails!Passwords
      BY DEF MailTypeInv, Mails!TypeOK
    <2>4. MailTypeInv'
      BY <2>1, <2>2, <2>3, MailTypesAfter DEF MailTypeInv, Mails!TypeOK
    <2>5. CodeOf(next)
      BY <2>1 DEF CodeOf
    <2>6. QED
      BY <2>1, <2>2, <2>4, <2>5, PasswordsAfter, CodesAfter
  <1>14. QED
    BY <1>1, <1>2, <1>3, <1>4, <1>5, <1>6, <1>7, <1>8, <1>9, <1>10, <1>11, <1>12, <1>13
       DEF Mails!Next

\* The inductive invariant of codes and passwords, whatever overlaps.
THEOREM MailInvariant ==
    ASSUME MailNulls
    PROVE  Mails!Spec => []MailInv
  <1>1. Mails!Init => MailInv
    BY MailInit
  <1>2. MailInv /\ [Mails!Next]_(Mails!vars) => MailInv'
    BY MailStep
  <1>3. QED
    BY <1>1, <1>2, PTL DEF Mails!Spec

\* Whatever overlaps and ends where, for any addresses: once nothing is under
\* way, the member knows the password in force, or it is one whose own mail was
\* not sent.  A mail that was lost excuses no other password.
THEOREM PasswordsAreKnown ==
    ASSUME MailNulls
    PROVE  Mails!Spec => []PasswordIsKnown
  <1>1. MailInv => PasswordIsKnown
    BY DEF PasswordIsKnown, MailInv, PasswordsComing, Coming, Mails!PasswordIsKnown
  <1>2. QED
    BY <1>1, MailInvariant, PTL

\* Every step keeps the code that was matched, and takes away no other.
LEMMA OwnCodeKeeps ==
    ASSUME OneUnderWay(mailTxn), OneUnderWay(mailTxn'), MailNulls, MailInv, OwnCodeInv,
           [Mails!Next]_(Mails!vars)
    PROVE  OwnCodeInv' /\ [Mails!OwnCodeStep]_(Mails!vars)
  <1> USE DEF MailInv
  <1>0. ASSUME NEW h \in Workers, NEW next, MailMoves(h, next),
               mailTxn[h].stage # "idle" \/ next.stage # "idle"
        PROVE  /\ mailTxn'[h] = next
               /\ \A g \in Workers \ {h} : mailTxn'[g] = mailTxn[g] /\ mailTxn[g].stage = "idle"
    <2>1. /\ mailTxn'[h] = next
          /\ \A g \in Workers \ {h} : mailTxn'[g] = mailTxn[g]
      BY <1>0 DEF MailMoves, MailTypeInv, Mails!TypeOK
    <2>2. QED
      BY <1>0, <2>1 DEF OneUnderWay
  <1>1. ASSUME NEW h \in Workers, NEW e \in Emails, NEW c \in Mails!Codes,
               NEW op \in {"verify", "reissue"}, Mails!Match(h, op, e, c)
        PROVE  OwnCodeInv' /\ Mails!OwnCodeStep
    <2>1. PICK next \in Mails!Transaction :
             /\ MailMoves(h, next) /\ next.stage = "matched" /\ next.email = e /\ next.code = c
      BY <1>1, MatchMoves
    <2>2. /\ mailTxn'[h] = next
          /\ \A g \in Workers \ {h} : mailTxn'[g] = mailTxn[g] /\ mailTxn[g].stage = "idle"
      BY <1>0, <2>1
    <2>3. storedCodes[e] = c /\ mailTxn[h].stage = "idle" /\ UNCHANGED storedCodes
      BY <1>1 DEF Mails!Match
    <2>4. QED
      BY <2>1, <2>2, <2>3 DEF OwnCodeInv, Mails!OwnCodeStep
  <1>2. ASSUME NEW h \in Workers, NEW next \in Mails!Transaction, MailMoves(h, next),
               mailTxn[h].stage # "idle" \/ next.stage # "idle",
               next.stage # "matched", mailTxn[h].stage # "matched"
        PROVE  OwnCodeInv' /\ Mails!OwnCodeStep
    <2>1. /\ mailTxn'[h] = next
          /\ \A g \in Workers \ {h} : mailTxn'[g] = mailTxn[g] /\ mailTxn[g].stage = "idle"
      BY <1>0, <1>2
    <2>2. QED
      BY <1>2, <2>1 DEF OwnCodeInv, Mails!OwnCodeStep
  <1>3. ASSUME NEW h \in Workers, Mails!Delete(h)
        PROVE  OwnCodeInv' /\ Mails!OwnCodeStep
    <2>1. PICK next \in Mails!Transaction : MailMoves(h, next) /\ next.stage = "verified"
      BY <1>3, DeleteMoves
    <2>2. /\ mailTxn'[h] = next
          /\ \A g \in Workers \ {h} : mailTxn'[g] = mailTxn[g] /\ mailTxn[g].stage = "idle"
      BY <1>0, <1>3, <2>1 DEF Mails!Delete
    <2>3. /\ mailTxn[h].stage = "matched"
          /\ storedCodes' = [storedCodes EXCEPT ![mailTxn[h].email] = None]
      BY <1>3 DEF Mails!Delete
    <2>4. \A e \in Emails : e # mailTxn[h].email => storedCodes'[e] = storedCodes[e]
      BY <2>3 DEF MailTypeInv, Mails!TypeOK
    <2>5. OwnCodeInv'
      BY <2>1, <2>2 DEF OwnCodeInv
    <2>6. Mails!OwnCodeStep
      BY <2>2, <2>3, <2>4 DEF OwnCodeInv, Mails!OwnCodeStep
    <2>7. QED
      BY <2>5, <2>6
  <1>4. ASSUME NEW e \in Emails, Mails!Forget(e)
        PROVE  OwnCodeInv' /\ Mails!OwnCodeStep
    BY <1>4 DEF Mails!Forget, OwnCodeInv, Mails!OwnCodeStep, MailTypeInv, Mails!TypeOK
  <1>5. CASE UNCHANGED Mails!vars
    BY <1>5 DEF Mails!vars, OwnCodeInv
  <1>6. ASSUME NEW h \in Workers,
               \/ \E e \in Emails : Mails!Send(h, e)
               \/ \E e \in Registered, old \in Mails!Passwords \union {None} : Mails!Change(h, e, old)
               \/ \E e \in Registered : Mails!LoadMember(h, e)
               \/ Mails!SendMail(h) \/ Mails!Verified(h) \/ Mails!Reissue(h)
               \/ Mails!SavePassword(h) \/ Mails!Hand(h)
        PROVE  OwnCodeInv' /\ Mails!OwnCodeStep
    <2>1. mailTxn[h].stage # "matched"
      BY <1>6 DEF Mails!Send, Mails!Change, Mails!SendMail, Mails!Verified, Mails!Reissue,
                  Mails!SavePassword, Mails!Hand, Mails!LoadMember
    <2>2. \E next \in Mails!Transaction :
             /\ MailMoves(h, next) /\ next.stage # "matched"
             /\ mailTxn[h].stage # "idle" \/ next.stage # "idle"
      <3>1. CASE Mails!SendMail(h) \/ Mails!Verified(h) \/ Mails!Hand(h)
        BY <3>1, IdleMail DEF MailMoves, Mails!SendMail, Mails!Verified, Mails!Hand
      <3>2. CASE \E e \in Emails : Mails!Send(h, e)
        BY <3>2, SendMoves
      <3>3. CASE \E e \in Registered, old \in Mails!Passwords \union {None} : Mails!Change(h, e, old)
        BY <3>3, ChangeMoves
      <3>4. CASE Mails!Reissue(h)
        BY <3>4, ReissueMoves, IdleMail DEF Mails!Reissue
      <3>5. CASE Mails!SavePassword(h)
        BY <3>5, SavePasswordMoves, IdleMail DEF Mails!SavePassword
      <3>6. CASE \E e \in Registered : Mails!LoadMember(h, e)
        BY <3>6, LoadMoves
      <3>7. QED
        BY <1>6, <3>1, <3>2, <3>3, <3>4, <3>5, <3>6
    <2>3. QED
      BY <1>2, <2>1, <2>2
  <1>7. ASSUME NEW h \in Workers, Mails!Interrupt(h)
        PROVE  OwnCodeInv' /\ Mails!OwnCodeStep
    <2>1. /\ mailTxn[h].stage # "idle" /\ MailMoves(h, Mails!Idle) /\ UNCHANGED storedCodes
      BY <1>7 DEF Mails!Interrupt, MailMoves
    <2>2. /\ mailTxn'[h] = Mails!Idle
          /\ \A g \in Workers \ {h} : mailTxn'[g] = mailTxn[g] /\ mailTxn[g].stage = "idle"
      BY <1>0, <2>1
    <2>3. QED
      BY <2>1, <2>2, IdleMail DEF OwnCodeInv, Mails!OwnCodeStep
  <1>8. QED
    BY <1>1, <1>3, <1>4, <1>5, <1>6, <1>7 DEF Mails!Next

\* For any addresses.  Whatever overlaps: no request that comes in after the
\* answer to the verification of a code gets through with this code.  One
\* request at a time: a verification deletes no code but its own.
THEOREM SpentCodesAreRefused ==
    ASSUME MailNulls
    PROVE  MailSpec => SpentCodesRefused
  <1> DEFINE Inv == MailInv /\ (inTurn => OneUnderWay(mailTxn) /\ OwnCodeInv)
             Step == Mails!Next /\ UNCHANGED inTurn /\ (inTurn => OneUnderWay(mailTxn'))
  <1>1. Mails!Init => Inv
    <2>1. Mails!Init => OneUnderWay(mailTxn) /\ OwnCodeInv
      BY IdleMail DEF Mails!Init, OwnCodeInv, OneUnderWay
    <2>2. QED
      BY <2>1, MailInit
  <1>2. Inv /\ [Step]_<<mailVars, inTurn>> => Inv' /\ [inTurn => Mails!OwnCodeStep]_mailVars
    <2> SUFFICES ASSUME Inv, [Step]_<<mailVars, inTurn>>
                 PROVE  Inv' /\ [inTurn => Mails!OwnCodeStep]_mailVars
      OBVIOUS
    <2>1. [Mails!Next]_(Mails!vars) /\ inTurn' = inTurn
      BY DEF mailVars, Mails!vars
    <2>2. inTurn /\ OneUnderWay(mailTxn) => OneUnderWay(mailTxn')
      BY DEF mailVars
    <2>3. MailInv'
      BY <2>1, MailStep
    <2>4. ASSUME inTurn
          PROVE  OneUnderWay(mailTxn') /\ OwnCodeInv' /\ [Mails!OwnCodeStep]_(Mails!vars)
      <3>1. OneUnderWay(mailTxn) /\ OneUnderWay(mailTxn')
        BY <2>2, <2>4
      <3>2. QED
        BY <2>1, <2>4, <3>1, OwnCodeKeeps
    <2>5. inTurn => OneUnderWay(mailTxn)' /\ OwnCodeInv'
      BY <2>4 DEF OneUnderWay
    <2>6. [inTurn => Mails!OwnCodeStep]_mailVars
      BY <2>4 DEF mailVars, Mails!vars
    <2>7. QED
      BY <2>1, <2>3, <2>5, <2>6
  <1>3. Inv => Mails!TypeOK /\ Mails!SpentCodesRefused
    BY DEF MailInv, MailTypeInv, CodesInv, Mails!SpentCodesRefused
  <1>4. QED
    BY <1>1, <1>2, <1>3, PTL DEF MailSpec, SpentCodesRefused

-----------------------------------------------------------------------------
(***************************************************************************)
(* Sessions.  The argument is about time: the key that a logout writes     *)
(* lives as long as the token whenever the logout gets to write it, so     *)
(* that a check of the blacklist that passes a logged out token passes it  *)
(* only once the token has expired, and the handshake looks at the expiry  *)
(* after that.                                                             *)
(***************************************************************************)

\* A logout under way will set a key that outlives its token.
RevokesLongEnough ==
    \A h \in Handlers : txn[h].stage = "revoking" =>
        clock + txn[h].ttl >= token[txn[h].token].exp

\* What is logged out was issued, and what came late has been logged out.
LateIsLoggedOut ==
    /\ \A t \in loggedOut : token[t] \in Issued
    /\ \A h \in Handlers :
          txn[h].stage # "idle" /\ txn[h].late => txn[h].token \in loggedOut

\* A late handshake that got past the blacklist holds an expired token, and
\* goes no further.
LateHandshakesExpired ==
    \A h \in Handlers : txn[h].late =>
        /\ txn[h].stage = "checked" => ~Live(txn[h].token)
        /\ txn[h].stage # "opening"

\* Members do not come back.
GoneIsGone ==
    \A h \in Handlers :
        txn[h].stage # "idle" /\ txn[h].gone => Owner(txn[h].token) \notin active

\* The inductive invariant.
IInv ==
    /\ TypeOK
    /\ RevokesLongEnough /\ BlacklistOutlivesToken
    /\ LateIsLoggedOut /\ LateHandshakesExpired /\ NoLateSocket
    /\ LateRequestsExpired
    /\ GoneIsGone /\ WithdrawnMembersRefused

-----------------------------------------------------------------------------
LEMMA NotIssuedIsNot == NotIssued \notin Issued
  BY SessionAssumption DEF NotIssued, Issued

LEMMA IdleIsTransaction == Idle \in Transaction /\ Idle.stage = "idle"
  BY DEF Idle, Transaction

\* The handshake asks the blacklist first and the expiry second.
LEMMA OrderOfHandshake ==
  ASSUME NEW t \in Tokens
  PROVE  /\ Passes(HandshakeOrder[1], t) <=> ~Blacklisted(t)
         /\ Passes(HandshakeOrder[2], t) <=> Live(t)
  BY DEF Passes, HandshakeOrder

-----------------------------------------------------------------------------
(* Types.                                                                  *)

LEMMA TypeInit == Init => TypeOK
  BY IdleIsTransaction DEF Init, TypeOK, Closed, Idle

\* A handler that begins: its transaction, and that it was idle.
LEMMA StartType ==
  ASSUME TypeOK, NEW h \in Handlers, NEW t \in Tokens, NEW s \in Sockets \union {None},
         NEW ttl \in Nat,
         NEW stage \in {"verified", "checked", "revoking"}, Start(h, stage, t, s, ttl)
  PROVE  /\ txn' \in [Handlers -> Transaction]
         /\ \A g \in Handlers : txn'[g].stage # "idle" =>
               txn'[g].token \in Tokens /\ token[txn'[g].token] \in Issued
         /\ token[t] \in Issued
         /\ txn'[h].stage = stage /\ txn'[h].token = t /\ txn'[h].ttl = ttl
         /\ txn'[h].late = (t \in loggedOut)
         /\ txn'[h].gone = (Owner(t) \notin active)
         /\ \A g \in Handlers \ {h} : txn'[g] = txn[g]
  BY DEF Start, TypeOK, Transaction

\* A handler that goes on or ends.
LEMMA CheckType ==
  ASSUME TypeOK, NEW h \in Handlers,
         NEW stage \in {"verified", "listed", "checked"},
         NEW to \in {"listed", "accepted", "opening"}, NEW passed \in BOOLEAN,
         Check(h, stage, passed, to)
  PROVE  /\ txn' \in [Handlers -> Transaction]
         /\ \A g \in Handlers : txn'[g].stage # "idle" =>
               txn'[g].token \in Tokens /\ token[txn'[g].token] \in Issued
         /\ txn[h].stage = stage
         /\ passed => /\ txn'[h].stage = to /\ txn'[h].token = txn[h].token
                      /\ txn'[h].late = txn[h].late /\ txn'[h].gone = txn[h].gone
         /\ ~passed => txn'[h] = Idle
         /\ \A g \in Handlers \ {h} : txn'[g] = txn[g]
  <1>1. CASE passed
    BY <1>1 DEF Check, TypeOK, Transaction
  <1>2. CASE ~passed
    BY <1>2, IdleIsTransaction DEF Check, TypeOK, Transaction
  <1>. QED BY <1>1, <1>2

LEMMA FinishType ==
  ASSUME TypeOK, NEW h \in Handlers, NEW stage \in {"revoking", "accepted", "opening"},
         Finish(h, stage)
  PROVE  /\ txn' \in [Handlers -> Transaction]
         /\ \A g \in Handlers : txn'[g].stage # "idle" =>
               txn'[g].token \in Tokens /\ token[txn'[g].token] \in Issued
         /\ txn[h].stage = stage /\ txn'[h] = Idle
         /\ \A g \in Handlers \ {h} : txn'[g] = txn[g]
  BY IdleIsTransaction DEF Finish, TypeOK, Transaction

LEMMA TypeStep == TypeOK /\ [Next]_vars => TypeOK'
  <1>. SUFFICES ASSUME TypeOK, [Next]_vars PROVE TypeOK'
    OBVIOUS
  <1>1. ASSUME NEW m \in Members, Withdraw(m) PROVE TypeOK'
    BY <1>1 DEF Withdraw, TypeOK
  <1>2. ASSUME NEW m \in Members, NEW t \in Tokens, Login(m, t) PROVE TypeOK'
    BY <1>2, SessionAssumption, NotIssuedIsNot DEF Login, TypeOK, Issued
  <1>3. ASSUME NEW h \in Handlers, NEW t \in Tokens, LogoutBegin(h, t) PROVE TypeOK'
    <2>1. token[t].exp - clock \in Nat /\ None \in Sockets \union {None}
      <3>1. token[t] \in Issued
        BY <1>3 DEF LogoutBegin, Start
      <3>2. clock \in Nat /\ token[t].exp \in Nat /\ clock < token[t].exp
        BY <1>3, <3>1 DEF LogoutBegin, TypeOK, Live, Issued
      <3>. QED BY <3>2
    <2>. QED
      BY <1>3, <2>1, StartType DEF LogoutBegin, TypeOK
  <1>4. ASSUME NEW h \in Handlers, LogoutSet(h) PROVE TypeOK'
    <2>1. txn[h].token \in Tokens /\ clock + txn[h].ttl \in Nat
      BY <1>4 DEF LogoutSet, Finish, TypeOK, Transaction
    <2>. QED
      BY <1>4, <2>1, FinishType DEF LogoutSet, TypeOK
  <1>5. ASSUME NEW h \in Handlers, NEW t \in Tokens, Request(h, t) PROVE TypeOK'
    <2>1. Start(h, "verified", t, None, 0) /\ None \in Sockets \union {None} /\ 0 \in Nat
      BY <1>5 DEF Request
    <2>. QED
      BY <1>5, <2>1, StartType DEF Request, TypeOK
  <1>6. ASSUME NEW h \in Handlers, RequestBlacklist(h) PROVE TypeOK'
    BY <1>6, CheckType DEF RequestBlacklist, Blacklisted, TypeOK
  <1>7. ASSUME NEW h \in Handlers, RequestMember(h) PROVE TypeOK'
    <2>1. Check(h, "listed", TRUE, "accepted") \/ Check(h, "listed", FALSE, "accepted")
      <3>1. CASE Owner(txn[h].token) \in active
        BY <1>7, <3>1 DEF RequestMember, Check
      <3>2. CASE ~(Owner(txn[h].token) \in active)
        BY <1>7, <3>2 DEF RequestMember, Check
      <3>. QED BY <3>1, <3>2
    <2>. QED
      BY <1>7, <2>1, CheckType DEF RequestMember, TypeOK
  <1>8. ASSUME NEW h \in Handlers, RequestDone(h) PROVE TypeOK'
    BY <1>8, FinishType DEF RequestDone, TypeOK
  <1>9. ASSUME NEW h \in Handlers, NEW s \in Sockets, NEW t \in Tokens, Connect(h, s, t)
        PROVE  TypeOK'
    <2>1. Start(h, "checked", t, s, 0) /\ s \in Sockets \union {None} /\ 0 \in Nat
      BY <1>9 DEF Connect
    <2>. QED
      BY <1>9, <2>1, StartType DEF Connect, TypeOK
  <1>10. ASSUME NEW h \in Handlers, ConnectVerify(h) PROVE TypeOK'
    <2>1. Check(h, "checked", TRUE, "opening") \/ Check(h, "checked", FALSE, "opening")
      <3>1. CASE Passes(HandshakeOrder[2], txn[h].token)
        BY <1>10, <3>1 DEF ConnectVerify, Check
      <3>2. CASE ~(Passes(HandshakeOrder[2], txn[h].token))
        BY <1>10, <3>2 DEF ConnectVerify, Check
      <3>. QED BY <3>1, <3>2
    <2>. QED
      BY <1>10, <2>1, CheckType DEF ConnectVerify, TypeOK
  <1>11. ASSUME NEW h \in Handlers, ConnectMember(h) PROVE TypeOK'
    BY <1>11, FinishType DEF ConnectMember, TypeOK, Transaction
  <1>12. ASSUME NEW s \in Sockets, Disconnect(s) PROVE TypeOK'
    BY <1>12 DEF Disconnect, TypeOK, Closed
  <1>13. CASE Tick
    BY <1>13 DEF Tick, TypeOK
  <1>14. CASE UNCHANGED vars
    BY <1>14 DEF vars, TypeOK
  <1>. QED
    BY <1>1, <1>2, <1>3, <1>4, <1>5, <1>6, <1>7, <1>8, <1>9, <1>10, <1>11, <1>12,
       <1>13, <1>14 DEF Next

\* Every variable has its type.
THEOREM TypeCorrect == Spec => []TypeOK
  BY TypeInit, TypeStep, PTL DEF Spec

-----------------------------------------------------------------------------
(* Safety.                                                                 *)

LEMMA SafeInit == Init => IInv
  BY TypeInit DEF Init, IInv, RevokesLongEnough, BlacklistOutlivesToken, LateIsLoggedOut,
     LateHandshakesExpired, NoLateSocket, LateRequestsExpired, GoneIsGone,
     WithdrawnMembersRefused, Idle, Closed

\* What the invariant says of one handler, and of all of them.
Fine(h) ==
    LET t == txn[h].token IN
    /\ txn[h].stage = "revoking" => clock + txn[h].ttl >= token[t].exp
    /\ txn[h].stage # "idle" /\ txn[h].late => t \in loggedOut
    /\ txn[h].late =>
          /\ txn[h].stage \in {"checked", "listed", "accepted"} => ~Live(t)
          /\ txn[h].stage # "opening"
    /\ txn[h].stage # "idle" /\ txn[h].gone => Owner(t) \notin active
    /\ txn[h].stage = "accepted" => ~txn[h].gone

\* ... of the tokens, and of the sockets.
FineTokens == \A t \in loggedOut : token[t] \in Issued /\ blacklist[t] >= token[t].exp

FineSockets == \A s \in Sockets : ~socket[s].late /\ ~socket[s].gone

LEMMA InParts == IInv <=> TypeOK /\ (\A h \in Handlers : Fine(h)) /\ FineTokens /\ FineSockets
  BY DEF IInv, Fine, FineTokens, FineSockets, RevokesLongEnough, BlacklistOutlivesToken,
     LateIsLoggedOut, LateHandshakesExpired, NoLateSocket, LateRequestsExpired, GoneIsGone,
     WithdrawnMembersRefused

\* A token that was logged out and is not on the blacklist any more has expired.
LEMMA NoLongerBlacklisted ==
  ASSUME TypeOK, FineTokens, NEW t \in Tokens, ~Blacklisted(t)
  PROVE  t \in loggedOut => ~Live(t)
  <1>. SUFFICES ASSUME t \in loggedOut PROVE ~Live(t)
    OBVIOUS
  <1>1. token[t].exp \in Nat /\ blacklist[t] \in Nat /\ clock \in Nat
    BY DEF TypeOK, FineTokens, Issued
  <1>. QED
    BY <1>1 DEF FineTokens, Blacklisted, Live

LEMMA IdleIsFine ==
  ASSUME NEW h \in Handlers, txn'[h] = Idle
  PROVE  Fine(h)'
  BY DEF Fine, Idle

\* A handler stays fine while others work: keys and expiries stay, time goes
\* on, logouts are added and members leave.
LEMMA StaysFine ==
  ASSUME TypeOK, NEW h \in Handlers, Fine(h), txn'[h] = txn[h],
         clock' \in Nat, clock' >= clock, active' \subseteq active,
         loggedOut \subseteq loggedOut',
         \A t \in Tokens : token[t] \in Issued => token'[t] = token[t]
  PROVE  Fine(h)'
  <1>1. CASE txn[h].stage = "idle"
    BY <1>1 DEF Fine
  <1>2. CASE txn[h].stage # "idle"
    <2>1. /\ txn[h].token \in Tokens /\ token[txn[h].token] \in Issued
          /\ token'[txn[h].token] = token[txn[h].token]
      BY <1>2 DEF TypeOK
    <2>2. token[txn[h].token].exp \in Nat /\ clock \in Nat /\ txn[h].ttl \in Nat
      BY <2>1 DEF TypeOK, Transaction, Issued
    <2>. QED
      BY <2>1, <2>2 DEF Fine, Live, Owner
  <1>. QED BY <1>1, <1>2

LEMMA SafeStep == IInv /\ [Next]_vars => IInv'
  <1>. SUFFICES ASSUME IInv, [Next]_vars PROVE IInv'
    OBVIOUS
  <1>1. TypeOK /\ TypeOK' /\ (\A h \in Handlers : Fine(h)) /\ FineTokens /\ FineSockets
    BY InParts, TypeStep DEF IInv
  <1>2. clock \in Nat /\ (\A t \in Tokens : token[t] \in Issued => token[t].exp \in Nat)
    BY <1>1 DEF TypeOK, Issued
  <1>. USE <1>1, <1>2
  <1>. SUFFICES (\A h \in Handlers : Fine(h)') /\ FineTokens' /\ FineSockets'
    BY DEF IInv, Fine, FineTokens, FineSockets, RevokesLongEnough, BlacklistOutlivesToken,
       LateIsLoggedOut, LateHandshakesExpired, NoLateSocket, LateRequestsExpired, GoneIsGone,
       WithdrawnMembersRefused
  <1>3. ASSUME NEW m \in Members, Withdraw(m)
        PROVE  (\A g \in Handlers : Fine(g)') /\ FineTokens' /\ FineSockets'
    <2>1. \A g \in Handlers : Fine(g)'
      BY <1>3, StaysFine DEF Withdraw
    <2>2. FineTokens'
      BY <1>3 DEF Withdraw, FineTokens
    <2>3. FineSockets'
      BY <1>3 DEF Withdraw, FineSockets
    <2>. QED BY <2>1, <2>2, <2>3
  <1>4. ASSUME NEW m \in Members, NEW t \in Tokens, Login(m, t)
        PROVE  (\A g \in Handlers : Fine(g)') /\ FineTokens' /\ FineSockets'
    <2>1. \A g \in Handlers : Fine(g)'
      BY <1>4, StaysFine, NotIssuedIsNot DEF Login
    <2>2. FineTokens'
      BY <1>4, NotIssuedIsNot DEF Login, FineTokens, TypeOK
    <2>3. FineSockets'
      BY <1>4 DEF Login, FineSockets
    <2>. QED BY <2>1, <2>2, <2>3
  <1>5. ASSUME NEW h \in Handlers, NEW t \in Tokens, LogoutBegin(h, t)
        PROVE  (\A g \in Handlers : Fine(g)') /\ FineTokens' /\ FineSockets'
    <2>1. \A g \in Handlers : Fine(g)'
      <3>1. ASSUME NEW g \in Handlers \ {h} PROVE Fine(g)'
        <4>1. txn'[g] = txn[g]
          BY <1>5, <3>1 DEF LogoutBegin, Start, TypeOK
        <4>. QED
          BY <1>5, <4>1, StaysFine DEF LogoutBegin
      <3>2. Fine(h)'
        <4>1. token[t].exp \in Nat
          BY <1>5 DEF LogoutBegin, Start
        <4>2. /\ txn'[h].stage = "revoking" /\ txn'[h].token = t
              /\ txn'[h].ttl = token[t].exp - clock
              /\ (txn'[h].late => t \in loggedOut) /\ (txn'[h].gone => Owner(t) \notin active)
          BY <1>5 DEF LogoutBegin, Start, TypeOK
        <4>3. clock + txn'[h].ttl >= token[t].exp
          BY <4>1, <4>2
        <4>. QED
          BY <1>5, <4>2, <4>3 DEF LogoutBegin, Fine, Live, Owner
      <3>. QED BY <3>1, <3>2
    <2>2. FineTokens'
      BY <1>5 DEF LogoutBegin, FineTokens
    <2>3. FineSockets'
      BY <1>5 DEF LogoutBegin, FineSockets
    <2>. QED BY <2>1, <2>2, <2>3
  <1>6. ASSUME NEW h \in Handlers, LogoutSet(h)
        PROVE  (\A g \in Handlers : Fine(g)') /\ FineTokens' /\ FineSockets'
    <2>1. \A g \in Handlers : Fine(g)'
      <3>1. ASSUME NEW g \in Handlers \ {h} PROVE Fine(g)'
        <4>1. txn'[g] = txn[g]
          BY <1>6, <3>1 DEF LogoutSet, Finish, TypeOK
        <4>. QED
          BY <1>6, <4>1, StaysFine DEF LogoutSet
      <3>2. Fine(h)'
        BY <1>6, IdleIsFine DEF LogoutSet, Finish, TypeOK
      <3>. QED BY <3>1, <3>2
    <2>2. FineTokens'
      <3>1. /\ txn[h].token \in Tokens /\ token[txn[h].token] \in Issued
            /\ clock + txn[h].ttl >= token[txn[h].token].exp
        BY <1>6 DEF LogoutSet, Finish, Fine, TypeOK
      <3>. QED
        BY <1>6, <3>1 DEF LogoutSet, FineTokens, TypeOK
    <2>3. FineSockets'
      BY <1>6 DEF LogoutSet, FineSockets
    <2>. QED BY <2>1, <2>2, <2>3
  <1>7. ASSUME NEW h \in Handlers, NEW t \in Tokens, Request(h, t)
        PROVE  (\A g \in Handlers : Fine(g)') /\ FineTokens' /\ FineSockets'
    <2>1. \A g \in Handlers : Fine(g)'
      <3>1. ASSUME NEW g \in Handlers \ {h} PROVE Fine(g)'
        <4>1. txn'[g] = txn[g]
          BY <1>7, <3>1 DEF Request, Start, TypeOK
        <4>. QED
          BY <1>7, <4>1, StaysFine DEF Request
      <3>2. Fine(h)'
        BY <1>7 DEF Request, Start, Fine, TypeOK, Transaction, Owner
      <3>. QED BY <3>1, <3>2
    <2>2. FineTokens'
      BY <1>7 DEF Request, FineTokens
    <2>3. FineSockets'
      BY <1>7 DEF Request, FineSockets
    <2>. QED BY <2>1, <2>2, <2>3
  <1>8. ASSUME NEW h \in Handlers, RequestBlacklist(h)
        PROVE  (\A g \in Handlers : Fine(g)') /\ FineTokens' /\ FineSockets'
    <2>1. \A g \in Handlers : Fine(g)'
      <3>1. ASSUME NEW g \in Handlers \ {h} PROVE Fine(g)'
        <4>1. txn'[g] = txn[g]
          BY <1>8, <3>1 DEF RequestBlacklist, Check, TypeOK
        <4>. QED
          BY <1>8, <4>1, StaysFine DEF RequestBlacklist
      <3>2. Fine(h)'
        <4>1. CASE ~Blacklisted(txn[h].token)
          BY <1>8, <4>1, NoLongerBlacklisted DEF RequestBlacklist, Check, Fine, TypeOK, Transaction, Live, Owner
        <4>2. CASE ~(~Blacklisted(txn[h].token))
          BY <1>8, <4>2, IdleIsFine DEF RequestBlacklist, Check, TypeOK
        <4>. QED BY <4>1, <4>2
      <3>. QED BY <3>1, <3>2
    <2>2. FineTokens'
      BY <1>8 DEF RequestBlacklist, FineTokens
    <2>3. FineSockets'
      BY <1>8 DEF RequestBlacklist, FineSockets
    <2>. QED BY <2>1, <2>2, <2>3
  <1>9. ASSUME NEW h \in Handlers, RequestMember(h)
        PROVE  (\A g \in Handlers : Fine(g)') /\ FineTokens' /\ FineSockets'
    <2>1. \A g \in Handlers : Fine(g)'
      <3>1. ASSUME NEW g \in Handlers \ {h} PROVE Fine(g)'
        <4>1. txn'[g] = txn[g]
          BY <1>9, <3>1 DEF RequestMember, Check, TypeOK
        <4>. QED
          BY <1>9, <4>1, StaysFine DEF RequestMember
      <3>2. Fine(h)'
        <4>1. CASE Owner(txn[h].token) \in active
          BY <1>9, <4>1 DEF RequestMember, Check, Fine, TypeOK, Transaction, Live, Owner
        <4>2. CASE ~(Owner(txn[h].token) \in active)
          BY <1>9, <4>2, IdleIsFine DEF RequestMember, Check, TypeOK
        <4>. QED BY <4>1, <4>2
      <3>. QED BY <3>1, <3>2
    <2>2. FineTokens'
      BY <1>9 DEF RequestMember, FineTokens
    <2>3. FineSockets'
      BY <1>9 DEF RequestMember, FineSockets
    <2>. QED BY <2>1, <2>2, <2>3
  <1>10. ASSUME NEW h \in Handlers, RequestDone(h)
        PROVE  (\A g \in Handlers : Fine(g)') /\ FineTokens' /\ FineSockets'
    <2>1. \A g \in Handlers : Fine(g)'
      <3>1. ASSUME NEW g \in Handlers \ {h} PROVE Fine(g)'
        <4>1. txn'[g] = txn[g]
          BY <1>10, <3>1 DEF RequestDone, Finish, TypeOK
        <4>. QED
          BY <1>10, <4>1, StaysFine DEF RequestDone
      <3>2. Fine(h)'
        BY <1>10, IdleIsFine DEF RequestDone, Finish, TypeOK
      <3>. QED BY <3>1, <3>2
    <2>2. FineTokens'
      BY <1>10 DEF RequestDone, FineTokens
    <2>3. FineSockets'
      BY <1>10 DEF RequestDone, FineSockets
    <2>. QED BY <2>1, <2>2, <2>3
  <1>11. ASSUME NEW h \in Handlers, NEW s \in Sockets, NEW t \in Tokens, Connect(h, s, t)
        PROVE  (\A g \in Handlers : Fine(g)') /\ FineTokens' /\ FineSockets'
    <2>1. \A g \in Handlers : Fine(g)'
      <3>1. ASSUME NEW g \in Handlers \ {h} PROVE Fine(g)'
        <4>1. txn'[g] = txn[g]
          BY <1>11, <3>1 DEF Connect, Start, TypeOK
        <4>. QED
          BY <1>11, <4>1, StaysFine DEF Connect
      <3>2. Fine(h)'
        <4>1. t \in loggedOut => ~Live(t)
          BY <1>11, OrderOfHandshake, NoLongerBlacklisted DEF Connect
        <4>. QED
          BY <1>11, <4>1 DEF Connect, Start, Fine, TypeOK, Transaction, Live, Owner
      <3>. QED BY <3>1, <3>2
    <2>2. FineTokens'
      BY <1>11 DEF Connect, FineTokens
    <2>3. FineSockets'
      BY <1>11 DEF Connect, FineSockets
    <2>. QED BY <2>1, <2>2, <2>3
  <1>12. ASSUME NEW h \in Handlers, ConnectVerify(h)
        PROVE  (\A g \in Handlers : Fine(g)') /\ FineTokens' /\ FineSockets'
    <2>1. \A g \in Handlers : Fine(g)'
      <3>1. ASSUME NEW g \in Handlers \ {h} PROVE Fine(g)'
        <4>1. txn'[g] = txn[g]
          BY <1>12, <3>1 DEF ConnectVerify, Check, TypeOK
        <4>. QED
          BY <1>12, <4>1, StaysFine DEF ConnectVerify
      <3>2. Fine(h)'
        <4>1. txn[h].stage = "checked" /\ txn[h].token \in Tokens
          BY <1>12 DEF ConnectVerify, Check, TypeOK
        <4>2. CASE Live(txn[h].token)
          BY <1>12, <4>1, <4>2, OrderOfHandshake DEF ConnectVerify, Check, Fine, TypeOK, Transaction, Owner
        <4>3. CASE ~Live(txn[h].token)
          BY <1>12, <4>1, <4>3, OrderOfHandshake, IdleIsFine DEF ConnectVerify, Check, TypeOK
        <4>. QED BY <4>2, <4>3
      <3>. QED BY <3>1, <3>2
    <2>2. FineTokens'
      BY <1>12 DEF ConnectVerify, FineTokens
    <2>3. FineSockets'
      BY <1>12 DEF ConnectVerify, FineSockets
    <2>. QED BY <2>1, <2>2, <2>3
  <1>13. ASSUME NEW h \in Handlers, ConnectMember(h)
        PROVE  (\A g \in Handlers : Fine(g)') /\ FineTokens' /\ FineSockets'
    <2>1. \A g \in Handlers : Fine(g)'
      <3>1. ASSUME NEW g \in Handlers \ {h} PROVE Fine(g)'
        <4>1. txn'[g] = txn[g]
          BY <1>13, <3>1 DEF ConnectMember, Finish, TypeOK
        <4>. QED
          BY <1>13, <4>1, StaysFine DEF ConnectMember
      <3>2. Fine(h)'
        BY <1>13, IdleIsFine DEF ConnectMember, Finish, TypeOK
      <3>. QED BY <3>1, <3>2
    <2>2. FineTokens'
      BY <1>13 DEF ConnectMember, FineTokens
    <2>3. FineSockets'
      <3>1. ~txn[h].late /\ (Owner(txn[h].token) \in active => ~txn[h].gone)
        BY <1>13 DEF ConnectMember, Finish, Fine, TypeOK, Transaction
      <3>. QED
        BY <1>13, <3>1 DEF ConnectMember, FineSockets, TypeOK
    <2>. QED BY <2>1, <2>2, <2>3
  <1>14. ASSUME NEW s \in Sockets, Disconnect(s)
        PROVE  (\A g \in Handlers : Fine(g)') /\ FineTokens' /\ FineSockets'
    <2>1. \A g \in Handlers : Fine(g)'
      BY <1>14, StaysFine DEF Disconnect
    <2>2. FineTokens'
      BY <1>14 DEF Disconnect, FineTokens
    <2>3. FineSockets'
      BY <1>14 DEF Disconnect, FineSockets, TypeOK, Closed
    <2>. QED BY <2>1, <2>2, <2>3
  <1>15. ASSUME Tick
        PROVE  (\A g \in Handlers : Fine(g)') /\ FineTokens' /\ FineSockets'
    <2>1. \A g \in Handlers : Fine(g)'
      BY <1>15, StaysFine DEF Tick
    <2>2. FineTokens'
      BY <1>15 DEF Tick, FineTokens
    <2>3. FineSockets'
      BY <1>15 DEF Tick, FineSockets
    <2>. QED BY <2>1, <2>2, <2>3
  <1>16. ASSUME UNCHANGED vars
        PROVE  (\A g \in Handlers : Fine(g)') /\ FineTokens' /\ FineSockets'
    <2>1. \A g \in Handlers : Fine(g)'
      BY <1>16, StaysFine DEF vars
    <2>2. FineTokens'
      BY <1>16 DEF vars, FineTokens
    <2>3. FineSockets'
      BY <1>16 DEF vars, FineSockets
    <2>. QED BY <2>1, <2>2, <2>3
  <1>. QED
    BY <1>3, <1>4, <1>5, <1>6, <1>7, <1>8, <1>9, <1>10, <1>11, <1>12, <1>13, <1>14, <1>15,
       <1>16 DEF Next

LEMMA Inductive == Spec => []IInv
  BY SafeInit, SafeStep, PTL DEF Spec

\* The key of a logged out token does not expire before the token does.
THEOREM KeysOutliveTokens == Spec => []BlacklistOutlivesToken
  <1>1. IInv => BlacklistOutlivesToken
    BY DEF IInv
  <1>. QED BY <1>1, Inductive, PTL

\* No socket is opened with a token that was logged out before the handshake.
THEOREM SocketsInTime == Spec => []NoLateSocket
  <1>1. IInv => NoLateSocket
    BY DEF IInv
  <1>. QED BY <1>1, Inductive, PTL

\* A request with a logged out token gets through only when the token has
\* expired in between, and nothing is done for a member who had withdrawn.
THEOREM RequestsAreRefused == Spec => []RequestsRefused
  <1>1. IInv => RequestsRefused
    BY DEF IInv, RequestsRefused
  <1>. QED BY <1>1, Inductive, PTL
=============================================================================
