----------------------------- MODULE MCServices -----------------------------
(***************************************************************************)
(* The smaller services: the tables administrators keep (coin products,    *)
(* terms, notices), settings, the list of chat rooms as a client shows it, *)
(* and the cron job.                                                       *)
(*                                                                         *)
(* "scene" says which of them a behaviour is about; the others rest.       *)
(***************************************************************************)
EXTENDS Services, TLC

CONSTANTS
    r1, r2, REQUESTED, CANCELLED,  \* chat rooms, statuses
    h1, h2,                        \* handlers of chat rooms
    e1, n1,                        \* an address, a nickname
    NoRow

VARIABLES
    scene,
    members, created, aged, profiles, uploads, objects, memberTxn, cutShort

memberVars == <<members, created, aged, profiles, uploads, objects, memberTxn, cutShort>>

\* RoomList shows the last of two chat rooms; this one both, if they have unread
\* messages.
Unread ==
    INSTANCE ChatLists
    WITH Handlers <- Senders, txn <- roomTxn, Limit <- 2, UnreadOnly <- TRUE

Cron ==
    INSTANCE Members
    WITH txn <- memberTxn, Emails <- {e1}, Nicknames <- {n1}, Handlers <- {h1},
         MaxMembers <- 2, MaxUploads <- 1

-----------------------------------------------------------------------------
MCInit ==
    /\ Init /\ Preferences!Init /\ RoomList!Init /\ Cron!Init
    /\ scene \in {"catalog", "settings", "overlapping settings", "last room",
                  "unread rooms", "cron"}
    /\ inTurn = (scene # "overlapping settings")
    /\ scene # "catalog" => table = "notice"
    /\ scene \notin {"settings", "overlapping settings"} => appSettings = <<>>
    /\ scene \notin {"last room", "unread rooms"} => room = RoomList!NoRooms

\* Two processes, one administrator or start at a time.
CatalogScene == scene = "catalog" /\ Next /\ OneWriter(txn', servers')

\* Two devices of a member that wait for each other, or do not.
SettingsScene ==
    \/ scene = "settings" /\ Preferences!Next /\ OneDevice(settingsTxn')
    \/ scene = "overlapping settings" /\ Preferences!Next /\ switched' <= 2

ListScene ==
    \/ scene = "last room" /\ RoomList!Next
    \/ scene = "unread rooms" /\ Unread!Next

MCNext ==
    /\ UNCHANGED <<scene, inTurn>>
    /\ \/ CatalogScene /\ UNCHANGED <<settingsVars, listVars, memberVars>>
       \/ SettingsScene /\ UNCHANGED <<vars, listVars, memberVars>>
       \/ ListScene /\ UNCHANGED <<vars, settingsVars, memberVars>>
       \/ scene = "cron" /\ Cron!Next /\ UNCHANGED <<vars, settingsVars, listVars>>

\* As in ChatLists and Members: handlers of chat rooms go on, a client that was
\* told of a change asks again, the cron job runs every midnight.
Fairness ==
    /\ WF_listVars(scene = "last room" /\ RoomList!Fetching)
    /\ WF_listVars(scene = "unread rooms" /\ Unread!Fetching)
    /\ \A h \in Senders : WF_listVars(RoomList!Step(h))
    /\ WF_memberVars(Cron!HandleCron)

MCSpec ==
    /\ MCInit
    /\ [][MCNext]_<<vars, settingsVars, listVars, memberVars, inTurn, scene>>
    /\ Fairness

-----------------------------------------------------------------------------
\* A client that stays connected ends up with the current list, unless a change
\* was written by a request that failed before it could tell; and whenever it
\* was told of nothing new and the requests have ended, it shows the rooms in
\* the right order, with their last messages and the right numbers: each of
\* them touched before it told, and no change that came while the list was read
\* is missed (getChatRooms, touchChatRoom, the events).
ListConverges ==
    /\ [](scene = "last room" => RoomList!TypeOK /\ RoomList!ListCurrent)
    /\ [](scene = "unread rooms" => Unread!TypeOK /\ Unread!ListCurrent)
    /\ scene = "last room" => RoomList!Converges
    /\ scene = "unread rooms" => Unread!Converges

\* The cron job gets rid of every member whose registration was not completed
\* within a day, unless in the end an expired member keeps a profile: that of
\* an interrupted uploadProfile or of an updateProfile.
ExpiredGoUnblocked == Cron!ExpiredGoUnblocked
=============================================================================
