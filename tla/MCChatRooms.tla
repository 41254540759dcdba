---------------------------- MODULE MCChatRooms ----------------------------
(***************************************************************************)
(* Chat rooms of a requester m1 and an artist m2, and a coin order that    *)
(* charges m1 with 3 coins; and the summary of an artist's reviews, for    *)
(* which the rooms are no more than completed works.                       *)
(*                                                                         *)
(* "scene" says what a behaviour is about: one room whose handlers overlap, *)
(* two rooms and one handler after the other, or the summary.              *)
(***************************************************************************)
EXTENDS OrderlyRooms, TLC

CONSTANTS
    m1, m2, r1, r2, order, post,
    w1, w2,
    c1, c2, g1, g2     \* reviewed rooms, the handlers of their requests

VARIABLE scene

MCSourceIds == {r1, r2, order}
MCRequester == [r \in Rooms |-> m1]
MCArtist == [r \in Rooms |-> m2]
MCConversation == [r \in Rooms |-> post]
MCCharge == {[member |-> m1, type |-> "CHARGE", source |-> "COIN_ORDER",
              id |-> order, coins |-> 3]}

MCInit ==
    /\ OrderlyInit /\ Works!Init
    /\ scene \in {"overlapping", "serial", "summary"}
    /\ scene # "summary" => inTurn = (scene = "serial")

OneOffer == INSTANCE ChatRooms WITH Revisions <- {1}
OneRoom == scene = "overlapping" /\ OneOffer!Next /\ rooms'[r2] = rooms[r2]
OneByOne == scene = "serial" /\ OrderlyNext

\* Two works, two keywords, of which the summary shows one; the one that wins
\* a tie may go out of use, and is never given alone.
Summing ==
    /\ scene = "summary" /\ Works!Next /\ (inTurn => OneReviewer(summaryTxn'))
    /\ 2 \in isActive'
    /\ \A g \in Reviewers : summaryTxn'[g].keywords # {1}

MCNext ==
    /\ UNCHANGED <<scene, inTurn>>
    /\ \/ (OneRoom \/ OneByOne) /\ UNCHANGED summaryVars
       \/ Summing /\ UNCHANGED vars

MCSpec == MCInit /\ [][MCNext]_<<vars, summaryVars, scene, inTurn>>

Symmetry ==
    Permutations({c1, c2}) \union Permutations({g1, g2}) \union Permutations({w1, w2})
=============================================================================
