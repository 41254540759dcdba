------------------------------ MODULE Services ------------------------------
(***************************************************************************)
(* The tables administrators keep, the settings of members (Preferences),  *)
(* and the list of chat rooms that a client shows (RoomList); and what     *)
(* their handlers promise.  Some of it holds whatever overlaps, some as    *)
(* long as a request is sent after the answer to the one before.  Nothing  *)
(* in the services enforces this order; a behaviour has it or not, as      *)
(* "inTurn" says.                                                          *)
(***************************************************************************)
EXTENDS Catalog

CONSTANTS
    Owners, Devices,    \* members and the devices of each
    Infos, EnvInfo,     \* texts of the app info
    MaxSaves,           \* bound on updates of preferences
    Rooms, Senders,     \* chat rooms of a member, requests that change them
    Statuses, FirstStatus, Final,
    Limit, UnreadOnly, MaxChanges, MaxConnects

VARIABLES
    preferences, appSettings, settingsTxn, told, appInfo, switched,
    room, clock, roomTxn, changes, connected, stale, fetch, shown, unannounced,
    inTurn       \* whether requests wait for each other

settingsVars == <<preferences, appSettings, settingsTxn, told, appInfo, switched>>
listVars == <<room, clock, roomTxn, changes, connected, stale, fetch, shown, unannounced>>

Preferences ==
    INSTANCE Settings
    WITH Members <- Owners, txn <- settingsTxn, saves <- switched

RoomList == INSTANCE ChatLists WITH Handlers <- Senders, txn <- roomTxn

\* At most one request or start of a process is under way.
OneWriter(state, running) ==
    LET writing == {h \in Handlers : state[h].stage # "idle"}
        seeding == {p \in Processes : running[p].stage \in {"finding", "seeding"}}
    IN
    /\ \A g, h \in writing : g = h
    /\ \A p, q \in seeding : p = q
    /\ writing = {} \/ seeding = {}

\* At most one device of a member waits for an answer.
OneDevice(state) ==
    \A m \in Owners, d, e \in Devices :
        state[<<m, d>>].stage # "idle" /\ state[<<m, e>>].stage # "idle" => d = e

CatalogSpec ==
    /\ Init /\ inTurn \in BOOLEAN
    /\ [][Next /\ UNCHANGED inTurn /\ (inTurn => OneWriter(txn', servers'))]_<<vars, inTurn>>

SettingsSpec ==
    /\ Preferences!Init /\ inTurn \in BOOLEAN
    /\ [][Preferences!Next /\ UNCHANGED inTurn
          /\ (inTurn => OneDevice(settingsTxn'))]_<<settingsVars, inTurn>>

ListSpec == RoomList!Init /\ [][RoomList!Next]_listVars

-----------------------------------------------------------------------------
\* One administrator at a time: when nobody is writing, everybody is shown what
\* administrators were last told they had saved, whatever restarts and failed
\* requests came between: no update is forgotten, and a row that was removed
\* stays away.  No two coin products have one amount, whatever is seeded at the
\* starts in between (createCoinProduct, updateCoinProduct, seedCoinProducts).
AnswersHold ==
    /\ TypeOK
    /\ inTurn => ShownAsAnswered /\ (table = "product" => KeysUnique)

\* Devices that wait for each other: a switch stays as the member last set it
\* and was told so; no request about another switch, and none that failed,
\* sets it back (update of the preferences).  Even requests that overlap leave
\* one row of preferences (getOrCreate), and what the summary shows changes with
\* a saved update only: looking at the preferences, which makes their row, does
\* not change it.
SwitchesStay ==
    /\ [](Preferences!TypeOK /\ Preferences!OneRow)
    /\ [](inTurn => Preferences!SwitchesStay)
    /\ Preferences!SummaryUndisturbed
=============================================================================
