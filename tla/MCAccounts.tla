----------------------------- MODULE MCAccounts -----------------------------
(***************************************************************************)
(* What stands around a member: sessions, the codes and passwords mailed,  *)
(* and the member rows themselves.                                         *)
(*                                                                         *)
(* "scene" says which of them a behaviour is about; the others rest.       *)
(* Sessions has the withdrawal of a member as an action of its own.        *)
(***************************************************************************)
EXTENDS Accounts, TLC

CONSTANTS
    g, h1, h2,        \* a single handler, two that overlap
    t1, t2,           \* tokens
    e0, e1, e2, e3,   \* addresses
    n1, n2, n3        \* nicknames

VARIABLE scene

\* A registered address and one that is not; up to two requests at a time.
OverlappingMails ==
    INSTANCE EmailVerification
    WITH stored <- storedCodes, txn <- mailTxn, Emails <- {e0, e1}, Handlers <- {h1, h2}
SerialMails ==
    INSTANCE EmailVerification
    WITH stored <- storedCodes, txn <- mailTxn, Emails <- {e0, e1}, Handlers <- {g}

\* One request at a time: two members who take each other's address and
\* nickname, and one member who changes the picture.  Two requests of a member.
Pairs ==
    INSTANCE Members
    WITH txn <- memberTxn, Emails <- {e2, e3}, Nicknames <- {n1, n2}, Handlers <- {g}
Alone ==
    INSTANCE Members
    WITH txn <- memberTxn, Emails <- {e1}, Nicknames <- {n3}, Handlers <- {g}
Overlapping ==
    INSTANCE Members
    WITH txn <- memberTxn, Emails <- {e1}, Nicknames <- {n3}, Handlers <- {h1, h2}

MCInit ==
    /\ Init /\ Mails!Init /\ Registry!Init
    /\ scene \in {"sessions", "mails", "mails, serial", "members", "pictures",
                  "overlapping members"}
    /\ inTurn = (scene \in {"mails, serial", "members", "pictures"})

MCNext ==
    /\ UNCHANGED <<scene, inTurn>>
    /\ \/ scene = "sessions" /\ Next /\ UNCHANGED <<mailVars, memberVars>>
       \/ /\ UNCHANGED <<vars, memberVars>>
          /\ \/ scene = "mails" /\ OverlappingMails!Next
             \/ scene = "mails, serial" /\ SerialMails!Next
       \/ /\ UNCHANGED <<vars, mailVars>>
          /\ \/ scene = "members" /\ Pairs!Next /\ uploads' <= 1
             \/ scene = "pictures" /\ Alone!Next /\ created' <= 1
             \/ scene = "overlapping members" /\ Overlapping!Next
                  /\ created' <= 1 /\ uploads' <= 1

MCSpec == MCInit /\ [][MCNext]_<<vars, mailVars, memberVars, inTurn, scene>>

Symmetry ==
    Permutations({h1, h2}) \union Permutations({t1, t2})
        \union Permutations({e2, e3}) \union Permutations({n1, n2})
=============================================================================
