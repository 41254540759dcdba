------------------------------ MODULE Settings ------------------------------
(***************************************************************************)
(* Notification preferences, the summary that shows one of them, and the   *)
(* app info (settings.service.ts).  The row of a member's preferences is   *)
(* made when they are first read or changed: it is looked for, inserted,   *)
(* changed and saved, by statements of their own.  A member has several    *)
(* devices, each with a request under way.                                 *)
(*                                                                         *)
(* allEnabled and marketingEnabled stand for the four switches: the others *)
(* are read and written like allEnabled.  The app info is one text; what   *)
(* the environment says of it is a constant.                               *)
(***************************************************************************)
EXTENDS EntityRows, Naturals, Sequences, FiniteSets

CONSTANTS
    Members,   \* members that exist
    Devices,   \* devices of each
    Infos,     \* texts of the app info
    EnvInfo,   \* the one in the environment or in the code
    MaxSaves,  \* bound on updates of preferences
    None

VARIABLES
    preferences,  \* the notification_preference table, in order of its ids
    appSettings,  \* the app_setting table
    txn,          \* per handler: the statement it is at and the entity it holds
    told,         \* per member: each switch as the last answered request set it
    appInfo,      \* the last answer about the app info
    saves         \* updates so far

vars == <<preferences, appSettings, txn, told, appInfo, saves>>

Switches == [allEnabled: BOOLEAN, marketingEnabled: BOOLEAN]
Dto == [allEnabled: BOOLEAN \union {None}, marketingEnabled: BOOLEAN \union {None}]
Row == [memberId: Members, switches: Switches]
Handlers == Members \X Devices

Idle == [stage |-> "idle", dto |-> None, entity |-> None, columns |-> {}]
Refused == "error"

Transaction ==
    [stage: {"idle", "creating", "saving", "updating"}, dto: Dto \union {None},
     entity: Switches \union {None},
     columns: SUBSET {"allEnabled", "marketingEnabled"}]

TypeOK ==
    /\ preferences \in Seq(Row)
    /\ appSettings \in Seq(Infos)
    /\ txn \in [Handlers -> Transaction]
    /\ told \in [Members -> Dto]
    /\ appInfo \in Infos \union {EnvInfo, Refused, None}
    /\ saves \in 0..MaxSaves

\* An app setting that is in the table was put there by hand: see UpdateAppInfo.
Init ==
    /\ preferences = <<>>
    /\ appSettings \in {<<>>} \union {<<i>> : i \in Infos}
    /\ txn = [h \in Handlers |-> Idle]
    /\ told = [m \in Members |-> [allEnabled |-> None, marketingEnabled |-> None]]
    /\ appInfo = None
    /\ saves = 0

-----------------------------------------------------------------------------
(* Notification preferences.                                               *)

Goto(h, t) == txn' = [txn EXCEPT ![h] = t]
Done(h) == Goto(h, Idle)

RowsOf(m) == {i \in DOMAIN preferences : preferences[i].memberId = m}
RowOf(m) == CHOOSE i \in RowsOf(m) : TRUE

Default == [allEnabled |-> TRUE, marketingEnabled |-> FALSE]

\* A switch the request leaves out stays as it was.
Merged(entity, dto) == [c \in DOMAIN entity |-> IF dto[c] = None THEN entity[c] ELSE dto[c]]

\* How a handler goes on with the entity: get answers it, update merges its
\* request into it and saves it.
Continue(dto, entity) ==
    IF dto = None THEN Idle
    ELSE [Idle EXCEPT !.stage = "saving", !.dto = dto, !.entity = Merged(entity, dto)]

\* getOrCreateNotificationPreference looks for the row.
Find(h, dto) ==
    LET m == h[1] IN
    /\ txn[h] = Idle
    /\ dto # None => saves < MaxSaves
    /\ saves' = IF dto = None THEN saves ELSE saves + 1
    /\ IF RowsOf(m) = {}
       THEN Goto(h, [Idle EXCEPT !.stage = "creating", !.dto = dto])
       ELSE Goto(h, Continue(dto, preferences[RowOf(m)].switches))
    /\ UNCHANGED <<preferences, appSettings, told, appInfo>>

\* It inserts the row.  member_id is unique: a handler that comes second fails.
Create(h) ==
    /\ txn[h].stage = "creating"
    /\ IF RowsOf(h[1]) = {}
       THEN /\ preferences' = Append(preferences, [memberId |-> h[1], switches |-> Default])
            /\ Goto(h, Continue(txn[h].dto, Default))
       ELSE /\ Done(h)
            /\ UNCHANGED preferences
    /\ UNCHANGED <<appSettings, told, appInfo, saves>>

SaveSelect(h) ==
    LET t == txn[h] IN
    /\ t.stage = "saving"
    /\ Goto(h, [t EXCEPT !.stage = "updating",
                         !.columns = Changed(t.entity, preferences[RowOf(h[1])].switches)])
    /\ UNCHANGED <<preferences, appSettings, told, appInfo, saves>>

\* Mutant: a switch that was on stays on.
SaveUpdateOn(h) ==
    LET row == RowOf(h[1]) IN
    /\ txn[h].stage = "updating"
    /\ preferences' = [preferences EXCEPT ![row].switches =
                          [c \in DOMAIN @ |-> @[c] \/ txn[h].entity[c]]]
    /\ told' = [told EXCEPT ![h[1]] = Merged(@, txn[h].dto)]
    /\ Done(h)
    /\ UNCHANGED <<appSettings, appInfo, saves>>

SaveUpdate(h) ==
    LET t == txn[h] IN
    /\ t.stage = "updating"
    /\ preferences' = [preferences EXCEPT ![RowOf(h[1])].switches =
                          Written(t.entity, @, t.columns)]
    /\ told' = [told EXCEPT ![h[1]] = Merged(@, t.dto)]
    /\ Done(h)
    /\ UNCHANGED <<appSettings, appInfo, saves>>

\* A statement fails, or the process ends.
Interrupt(h) ==
    /\ txn[h] # Idle
    /\ Done(h)
    /\ UNCHANGED <<preferences, appSettings, told, appInfo, saves>>

-----------------------------------------------------------------------------
(* The app info.                                                           *)

\* findOne({ order }) without a where: TypeORM refuses the call.
LatestAppSetting == Refused

\* What getAppInfo answers, given what findOne gave it: the stored text, or
\* the environment's.
InfoFrom(setting) == IF setting = None THEN EnvInfo ELSE setting

GetAppInfo ==
    /\ appInfo' = IF LatestAppSetting = Refused THEN Refused ELSE InfoFrom(LatestAppSetting)
    /\ UNCHANGED <<preferences, appSettings, txn, told, saves>>

\* updateAppInfo looks for the setting in the same way before it stores one.
UpdateAppInfo(info) ==
    /\ IF LatestAppSetting = Refused
       THEN /\ appInfo' = Refused
            /\ UNCHANGED appSettings
       ELSE /\ appInfo' = info
            /\ appSettings' = IF appSettings = <<>> THEN <<info>>
                              ELSE [appSettings EXCEPT ![Len(appSettings)] = info]
    /\ UNCHANGED <<preferences, txn, told, saves>>

Next ==
    \/ \E h \in Handlers :
          \/ \E dto \in Dto \union {None} : Find(h, dto)
          \/ Create(h) \/ SaveSelect(h) \/ SaveUpdate(h) \/ Interrupt(h)
    \/ GetAppInfo
    \/ \E info \in Infos : UpdateAppInfo(info)

Spec == Init /\ [][Next]_vars

-----------------------------------------------------------------------------
\* What getSummary shows of the preferences, without making a row.
SummaryAllEnabled(m) ==
    IF RowsOf(m) = {} THEN TRUE ELSE preferences[RowOf(m)].switches.allEnabled

\* Two requests of a new member never leave two rows, of which the handlers
\* would read one or the other.
OneRow == \A m \in Members : Cardinality(RowsOf(m)) <= 1

\* A switch stays as the member last set it and was told so: no request about
\* another switch, and none that failed, sets it back.
SwitchesStay ==
    \A m \in Members : (\A d \in Devices : txn[<<m, d>>] = Idle) =>
        \A c \in DOMAIN told[m] : told[m][c] # None =>
            /\ RowsOf(m) # {}
            /\ preferences[RowOf(m)].switches[c] = told[m][c]

\* What the summary shows changes with a saved update only: looking at the
\* preferences, which makes their row, does not change it.
SummaryUndisturbed ==
    [][\A m \in Members : SummaryAllEnabled(m)' # SummaryAllEnabled(m) =>
          \E d \in Devices : txn[<<m, d>>].stage = "updating"]_vars

\* The app info is the stored one where there is one.
StoredInfoFirst ==
    appInfo # None /\ appSettings # <<>> => appInfo = appSettings[Len(appSettings)]
=============================================================================
