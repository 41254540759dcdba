------------------------- MODULE ChatMessagesProofs -------------------------
(***************************************************************************)
(* What module ChatMessages promises, for any number of handlers and       *)
(* messages and any size of a page.                                        *)
(*                                                                         *)
(* A client that has joined is given every message in one of two ways: it  *)
(* was answered before and is on a page, or its event comes.  The first    *)
(* part is about pages: the newest PageSize messages before an id leave no *)
(* gap.  A message marked as read was given to its receiver if the mark    *)
(* names a message and the sender did not send another one before the      *)
(* answer: then every message of a higher id was inserted after the event. *)
(***************************************************************************)
EXTENDS ChatMessages, FiniteSetTheorems, WellFoundedInduction, TLAPS

-----------------------------------------------------------------------------
(* Sets of ids.                                                            *)

\* Bounds are numbers, a page is not empty, and null is no id.
ChatConstants ==
    /\ MaxMessages \in Nat /\ MaxRequests \in Nat /\ PageSize \in Nat \ {0}
    /\ CatchesUp \in BOOLEAN
    /\ None \notin Nat


LEMMA IdsAreNumbers ==
  ASSUME ChatConstants
  PROVE  Ids \subseteq Nat /\ Ids \in SUBSET Nat
  BY DEF ChatConstants, Ids

LEMMA NewestAreSome ==
  ASSUME NEW S
  PROVE  Newest(S) \subseteq S
  BY DEF Newest

LEMMA IdsAreFinite ==
  ASSUME ChatConstants, NEW S \in SUBSET Ids
  PROVE  IsFiniteSet(S) /\ Cardinality(S) \in Nat
  <1>1. IsFiniteSet(Ids)
    BY FS_Interval DEF ChatConstants, Ids
  <1>2. IsFiniteSet(S)
    BY <1>1, FS_Subset
  <1>. QED BY <1>2, FS_CardinalityType

\* A nonempty finite set of numbers has a greatest element ...
LEMMA HasMax ==
  ASSUME NEW S \in SUBSET Nat, IsFiniteSet(S), S # {}
  PROVE  \E x \in S : \A y \in S : x >= y
  <1>. DEFINE Above(x) == {y \in S : y > x}
              T == {Above(x) : x \in S}
  <1>1. T \subseteq FiniteSubsetsOf(S) /\ T # {}
    <2>1. ASSUME NEW x \in S PROVE Above(x) \in FiniteSubsetsOf(S)
      BY FS_Subset DEF FiniteSubsetsOf
    <2>. QED BY <2>1
  <1>2. PICK A \in T : \A B \in T : <<B, A>> \notin StrictSubsetOrdering(S)
    <2>1. IsWellFoundedOn(StrictSubsetOrdering(S), FiniteSubsetsOf(S))
      BY FS_StrictSubsetOrderingWellFounded
    <2>. HIDE DEF T
    <2>. QED
      BY <1>1, <2>1, WFMin
  <1>3. PICK x \in S : A = Above(x)
    BY <1>2
  <1>4. ASSUME NEW y \in S, y > x PROVE FALSE
    <2>0. /\ Above(y) \in T
          /\ \A z \in S : z > y => z > x
          /\ ~(y > y)
      <3>1. S \subseteq Nat /\ x \in Nat /\ y \in Nat
        OBVIOUS
      <3>. QED BY <1>4, <3>1
    <2>1. Above(y) \in T /\ Above(y) \subseteq Above(x) /\ y \in Above(x) /\ y \notin Above(y)
      BY <1>4, <2>0
    <2>2. <<Above(y), A>> \in StrictSubsetOrdering(S)
      BY <1>3, <2>1 DEF StrictSubsetOrdering
    <2>. QED BY <1>2, <2>1, <2>2
  <1>. QED BY <1>4

\* ... and a smallest one.
LEMMA HasMin ==
  ASSUME NEW S \in SUBSET Nat, IsFiniteSet(S), S # {}
  PROVE  \E x \in S : \A y \in S : x <= y
  <1>. DEFINE Below(x) == {y \in S : y < x}
              T == {Below(x) : x \in S}
  <1>1. T \subseteq FiniteSubsetsOf(S) /\ T # {}
    <2>1. ASSUME NEW x \in S PROVE Below(x) \in FiniteSubsetsOf(S)
      BY FS_Subset DEF FiniteSubsetsOf
    <2>. QED BY <2>1
  <1>2. PICK A \in T : \A B \in T : <<B, A>> \notin StrictSubsetOrdering(S)
    <2>1. IsWellFoundedOn(StrictSubsetOrdering(S), FiniteSubsetsOf(S))
      BY FS_StrictSubsetOrderingWellFounded
    <2>. HIDE DEF T
    <2>. QED
      BY <1>1, <2>1, WFMin
  <1>3. PICK x \in S : A = Below(x)
    BY <1>2
  <1>4. ASSUME NEW y \in S, y < x PROVE FALSE
    <2>0. /\ Below(y) \in T
          /\ \A z \in S : z < y => z < x
          /\ ~(y < y)
      <3>1. S \subseteq Nat /\ x \in Nat /\ y \in Nat
        OBVIOUS
      <3>. QED BY <1>4, <3>1
    <2>1. Below(y) \in T /\ Below(y) \subseteq Below(x) /\ y \in Below(x) /\ y \notin Below(y)
      BY <1>4, <2>0
    <2>2. <<Below(y), A>> \in StrictSubsetOrdering(S)
      BY <1>3, <2>1 DEF StrictSubsetOrdering
    <2>. QED BY <1>2, <2>1, <2>2
  <1>. QED BY <1>4

LEMMA MaxIsMax ==
  ASSUME NEW S \in SUBSET Nat, IsFiniteSet(S), S # {}
  PROVE  Max(S) \in S /\ \A y \in S : Max(S) >= y
  BY HasMax DEF Max

LEMMA MinIsMin ==
  ASSUME NEW S \in SUBSET Nat, IsFiniteSet(S), S # {}
  PROVE  Min(S) \in S /\ \A y \in S : Min(S) <= y
  BY HasMin DEF Min

\* A page that is not full is the whole set, a full one has no gap above its
\* smallest id.
LEMMA PageIsWhole ==
  ASSUME ChatConstants, NEW S \in SUBSET Ids, Cardinality(Newest(S)) < PageSize
  PROVE  Newest(S) = S
  <1>. SUFFICES ASSUME S \ Newest(S) # {} PROVE FALSE
    BY DEF Newest
  <1>0. Newest(S) \in SUBSET Ids /\ S \ Newest(S) \in SUBSET Ids /\ Ids \subseteq Nat
    BY IdsAreNumbers, NewestAreSome
  <1>1. S \in SUBSET Nat /\ S \ Newest(S) \in SUBSET Nat /\ IsFiniteSet(S \ Newest(S))
        /\ IsFiniteSet(Newest(S)) /\ Cardinality(Newest(S)) \in Nat /\ PageSize \in Nat
    BY <1>0, IdsAreFinite DEF ChatConstants
  <1>2. PICK x \in S \ Newest(S) : \A y \in S \ Newest(S) : x >= y
    BY <1>1, HasMax
  <1>3. {j \in S : j > x} \subseteq Newest(S)
    BY <1>1, <1>2
  <1>4. /\ Cardinality({j \in S : j > x}) <= Cardinality(Newest(S))
        /\ Cardinality({j \in S : j > x}) \in Nat
    BY <1>1, <1>3, FS_Subset, FS_CardinalityType
  <1>5. x \in Newest(S)
    BY <1>1, <1>2, <1>4 DEF Newest
  <1>. QED BY <1>2, <1>5

LEMMA PageHasNoGap ==
  ASSUME ChatConstants, NEW S \in SUBSET Ids, Newest(S) # {}, NEW i \in S, i >= Min(Newest(S))
  PROVE  i \in Newest(S)
  <1>. DEFINE low == Min(Newest(S))
  <1>0. Newest(S) \in SUBSET Ids /\ Ids \subseteq Nat
    BY IdsAreNumbers, NewestAreSome
  <1>1. Newest(S) \in SUBSET Nat /\ IsFiniteSet(Newest(S)) /\ S \in SUBSET Nat /\ PageSize \in Nat
    BY <1>0, IdsAreFinite DEF ChatConstants
  <1>2. low \in S /\ Cardinality({j \in S : j > low}) < PageSize
    BY <1>1, MinIsMin DEF Newest
  <1>. i >= low
    OBVIOUS
  <1>. HIDE DEF low
  <1>3. {j \in S : j > i} \subseteq {j \in S : j > low} /\ {j \in S : j > low} \in SUBSET Ids
    <2>1. ASSUME NEW j \in S, j > i PROVE j > low
      <3>1. i \in Nat /\ j \in Nat /\ low \in Nat
        BY <1>1, <1>2
      <3>. QED BY <2>1, <3>1
    <2>. QED BY <2>1
  <1>4. /\ Cardinality({j \in S : j > i}) <= Cardinality({j \in S : j > low})
        /\ Cardinality({j \in S : j > i}) \in Nat /\ Cardinality({j \in S : j > low}) \in Nat
    <2>1. {j \in S : j > i} \in SUBSET Ids
      OBVIOUS
    <2>. QED
      BY <1>3, <2>1, IdsAreFinite, FS_Subset
  <1>. QED BY <1>1, <1>2, <1>4 DEF Newest

-----------------------------------------------------------------------------
(* Types, and what a message under way is.                                 *)

Place ==
    [stage: {"idle", "sending", "inserted", "saved", "marking", "emptying", "removing"},
     by: Members \union {None}, process: Processes \union {None}, id: Ids \union {None}]

Pending(h) == txn[h].stage \in {"inserted", "saved"}

UnderWay(h) ==
    /\ Pending(h) => /\ txn[h].id \in 1..given /\ txn[h].id \notin answered
                     /\ message[txn[h].id].sender = txn[h].by
    /\ txn[h].stage = "inserted" => room # "gone"
    /\ txn[h].stage # "idle" => txn[h].by \in Members /\ txn[h].process \in Processes

IdsOfTheirOwn ==
    \A g, h \in Handlers : g # h /\ Pending(g) /\ Pending(h) => txn[g].id # txn[h].id

TypeInv == TypeOK /\ (\A h \in Handlers : UnderWay(h)) /\ IdsOfTheirOwn

LEMMA TypeInit ==
  ASSUME ChatConstants
  PROVE  Init => TypeInv
  BY DEF ChatConstants, Init, TypeInv, TypeOK, UnderWay, IdsOfTheirOwn, Pending, Idle, Ids, FromTop

LEMMA Bounds ==
  ASSUME ChatConstants
  PROVE  MaxMessages \in Nat /\ MaxRequests \in Nat /\ PageSize \in Nat /\ PageSize > 0
  BY DEF ChatConstants

\* What a handler that begins is at, and that the others stay where they are.
LEMMA Begun ==
  ASSUME ChatConstants, TypeInv, NEW h \in Handlers, NEW m \in Members, NEW p \in Processes,
         NEW stage \in {"sending", "marking", "emptying"}, NEW i \in Ids \union {None},
         Begin(h, m, p, stage, i)
  PROVE  /\ txn' \in [Handlers -> Place]
         /\ txn[h].stage = "idle"
         /\ txn'[h].stage = stage /\ txn'[h].by = m /\ txn'[h].process = p /\ txn'[h].id = i
         /\ \A g \in Handlers \ {h} : txn'[g] = txn[g]
  <1>. DEFINE t == [stage |-> stage, by |-> m, process |-> p, id |-> i]
  <1>1. t \in Place
    BY DEF Place
  <1>2. txn[h].stage = "idle" /\ txn' = [txn EXCEPT ![h] = t]
    BY DEF Begin
  <1>3. txn \in [Handlers -> Place]
    BY DEF TypeInv, TypeOK, Place
  <1>. HIDE DEF t
  <1>4. txn' \in [Handlers -> Place] /\ txn'[h] = t /\ \A g \in Handlers \ {h} : txn'[g] = txn[g]
    BY <1>1, <1>2, <1>3
  <1>. QED BY <1>2, <1>4 DEF t

\* A handler that goes on keeps what it holds, one that ends holds nothing.
LEMMA WentOn ==
  ASSUME ChatConstants, TypeInv, NEW h \in Handlers, NEW stage \in {"saved", "removing"}, Goto(h, stage)
  PROVE  /\ txn' \in [Handlers -> Place]
         /\ txn'[h].stage = stage
         /\ txn'[h].by = txn[h].by /\ txn'[h].process = txn[h].process /\ txn'[h].id = txn[h].id
         /\ \A g \in Handlers \ {h} : txn'[g] = txn[g]
  <1>1. txn \in [Handlers -> Place]
    BY DEF TypeInv, TypeOK, Place
  <1>2. txn' = [txn EXCEPT ![h] = [txn[h] EXCEPT !.stage = stage]]
    BY DEF Goto
  <1>3. [txn[h] EXCEPT !.stage = stage] \in Place
    BY <1>1 DEF Place
  <1>. QED BY <1>1, <1>2, <1>3 DEF Place

LEMMA Ended ==
  ASSUME ChatConstants, TypeInv, NEW h \in Handlers, Done(h)
  PROVE  /\ txn' \in [Handlers -> Place]
         /\ txn'[h] = Idle /\ Idle.stage = "idle"
         /\ \A g \in Handlers \ {h} : txn'[g] = txn[g]
  BY DEF Done, Idle, TypeInv, TypeOK, Place

\* A message under way stays so while others work.
LEMMA StaysUnderWay ==
  ASSUME ChatConstants, TypeInv, NEW h \in Handlers, txn'[h] = txn[h],
         given' \in Nat, given' >= given,
         \A i \in 1..given : message'[i].sender = message[i].sender,
         Pending(h) => txn[h].id \notin answered' \ answered,
         txn[h].stage = "inserted" => (room' = "gone" => room = "gone")
  PROVE  UnderWay(h)'
  <1>. given \in Nat
    BY DEF TypeInv, TypeOK
  <1>. QED BY DEF TypeInv, UnderWay, Pending

\* What a client that no longer follows will ask.
LEMMA UnfollowType ==
  ASSUME ChatConstants, TypeInv, NEW m \in Members, Unfollow(m)
  PROVE  /\ joined' \in [Members -> BOOLEAN]
         /\ cursor' \in [Members -> [way: {"before", "after", "whole"}, id: 0..(MaxMessages + 1)]]
  <1>1. Max(seen[m] \union {0}) \in 0..(MaxMessages + 1)
    <2>1. given \in 0..MaxMessages /\ seen[m] \subseteq 1..given /\ MaxMessages \in Nat
      BY Bounds DEF TypeInv, TypeOK
    <2>2. seen[m] \union {0} \subseteq 0..MaxMessages
      BY <2>1
    <2>3. IsFiniteSet(0..MaxMessages) /\ 0..MaxMessages \subseteq Nat
      BY <2>1, FS_Interval
    <2>4. IsFiniteSet(seen[m] \union {0}) /\ seen[m] \union {0} \in SUBSET Nat
      BY <2>2, <2>3, FS_Subset
    <2>5. Max(seen[m] \union {0}) \in seen[m] \union {0}
      BY <2>4, MaxIsMax
    <2>. QED BY <2>1, <2>2, <2>5
  <1>2. FromTop \in [way: {"before", "after", "whole"}, id: 0..(MaxMessages + 1)]
    BY Bounds DEF FromTop
  <1>. QED
    BY <1>1, <1>2 DEF Unfollow, TypeInv, TypeOK

\* A page is of ids given, and so is what the client asks next.
LEMMA PageType ==
  ASSUME ChatConstants, TypeInv, NEW m \in Members, GetMessages(m)
  PROVE  /\ seen' \in [Members -> SUBSET (1..given)]
         /\ cursor' \in [Members -> [way: {"before", "after", "whole"}, id: 0..(MaxMessages + 1)]]
  <1>. DEFINE c == cursor[m]
              page == IF c.way = "after" THEN Oldest(Newer(c.id)) ELSE Newest(Older(c.id))
  <1>1. given \in Nat /\ given <= MaxMessages /\ rows \subseteq 1..given
    BY Bounds DEF TypeInv, TypeOK
  <1>2. page \subseteq rows /\ 1..given \subseteq Ids
    BY <1>1, Bounds DEF Oldest, Newer, Newest, Older, Ids
  <1>3. page \in SUBSET Ids /\ page \in SUBSET Nat /\ IsFiniteSet(page)
    BY <1>1, <1>2, IdsAreFinite, IdsAreNumbers
  <1>4. ASSUME ~(Cardinality(page) < PageSize) PROVE Max(page) \in Ids /\ Min(page) \in Ids
    <2>1. page # {}
      BY <1>4, FS_EmptySet, Bounds
    <2>. QED BY <1>3, <2>1, MaxIsMax, MinIsMin
  <1>5. cursor[m] \in [way: {"before", "after", "whole"}, id: 0..(MaxMessages + 1)]
    BY DEF TypeInv, TypeOK
  <1>6. Ids \subseteq 0..(MaxMessages + 1)
    BY Bounds DEF Ids
  <1>7. /\ seen' = [seen EXCEPT ![m] = @ \union page]
        /\ cursor' = [cursor EXCEPT ![m] =
                        IF Cardinality(page) < PageSize THEN Whole
                        ELSE [c EXCEPT !.id = IF c.way = "after" THEN Max(page) ELSE Min(page)]]
    BY DEF GetMessages
  <1>8. Whole \in [way: {"before", "after", "whole"}, id: 0..(MaxMessages + 1)]
    BY Bounds DEF Whole
  <1>. HIDE DEF page
  <1>9. cursor' \in [Members -> [way: {"before", "after", "whole"}, id: 0..(MaxMessages + 1)]]
    BY <1>4, <1>5, <1>6, <1>7, <1>8 DEF TypeInv, TypeOK
  <1>10. seen' \in [Members -> SUBSET (1..given)]
    BY <1>1, <1>2, <1>7 DEF TypeInv, TypeOK
  <1>. QED BY <1>9, <1>10

LEMMA TypeStep ==
  ASSUME ChatConstants
  PROVE  TypeInv /\ [Next]_vars => TypeInv'
  <1>. SUFFICES ASSUME TypeInv, [Next]_vars PROVE TypeInv'
    OBVIOUS
  <1>0. /\ txn \in [Handlers -> Place] /\ given \in Nat /\ given <= MaxMessages
        /\ \A g \in Handlers : UnderWay(g)
        /\ answered \subseteq 1..given /\ rows \subseteq 1..given
    BY Bounds DEF TypeInv, TypeOK, Place
  <1>1. ASSUME NEW h \in Handlers, NEW m \in Members, NEW p \in Processes, Send(h, m, p) PROVE TypeInv'
    <2>0. PICK i \in Ids \union {None} : Begin(h, m, p, "sending", i)
      BY <1>1 DEF Send
    <2>4. /\ txn' \in [Handlers -> Place]
          /\ txn'[h].stage = "sending" /\ txn'[h].by = m /\ txn'[h].process = p
          /\ \A g \in Handlers \ {h} : txn'[g] = txn[g]
      <3>1. "sending" \in {"sending", "marking", "emptying"}
        OBVIOUS
      <3>. QED BY <2>0, <3>1, Begun
    <2>1. TypeOK'
      BY <1>1, <2>4, Bounds DEF Send, TypeInv, TypeOK, Place, table, clients, marks
    <2>2. \A g \in Handlers : UnderWay(g)'
      <3>1. ASSUME NEW g \in Handlers \ {h} PROVE UnderWay(g)'
        BY <1>1, <1>0, <2>4, StaysUnderWay DEF Send, table, clients, marks
      <3>2. UnderWay(h)'
        BY <2>4 DEF UnderWay, Pending
      <3>. QED BY <3>1, <3>2
    <2>3. IdsOfTheirOwn'
      BY <1>0, <2>4 DEF IdsOfTheirOwn, TypeInv, Pending
    <2>. QED BY <2>1, <2>2, <2>3 DEF TypeInv
  <1>2. ASSUME NEW h \in Handlers, NEW m \in Members, NEW p \in Processes, MarkFind(h, m, p) PROVE TypeInv'
    <2>0. PICK i \in Ids \union {None} : Begin(h, m, p, "marking", i)
      <3>1. ASSUME Readable(m) # {} PROVE Max(Readable(m)) \in Ids
        <4>1. Readable(m) \in SUBSET Ids
          BY <1>0, Bounds DEF Readable, TypeInv, TypeOK, Ids
        <4>2. Max(Readable(m)) \in Readable(m)
          BY <3>1, <4>1, IdsAreFinite, IdsAreNumbers, MaxIsMax
        <4>. QED BY <4>1, <4>2
      <3>. QED BY <1>2, <3>1 DEF MarkFind
    <2>4. /\ txn' \in [Handlers -> Place]
          /\ txn'[h].stage = "marking" /\ txn'[h].by = m /\ txn'[h].process = p
          /\ \A g \in Handlers \ {h} : txn'[g] = txn[g]
      <3>1. "marking" \in {"sending", "marking", "emptying"}
        OBVIOUS
      <3>. QED BY <2>0, <3>1, Begun
    <2>1. TypeOK'
      BY <1>2, <2>4, Bounds DEF MarkFind, TypeInv, TypeOK, Place, table, clients, marks
    <2>2. \A g \in Handlers : UnderWay(g)'
      <3>1. ASSUME NEW g \in Handlers \ {h} PROVE UnderWay(g)'
        BY <1>2, <1>0, <2>4, StaysUnderWay DEF MarkFind, table, clients, marks
      <3>2. UnderWay(h)'
        BY <2>4 DEF UnderWay, Pending
      <3>. QED BY <3>1, <3>2
    <2>3. IdsOfTheirOwn'
      BY <1>0, <2>4 DEF IdsOfTheirOwn, TypeInv, Pending
    <2>. QED BY <2>1, <2>2, <2>3 DEF TypeInv
  <1>3. ASSUME NEW h \in Handlers, NEW m \in Members, NEW p \in Processes, DeleteFind(h, m, p) PROVE TypeInv'
    <2>0. PICK i \in Ids \union {None} : Begin(h, m, p, "emptying", i)
      BY <1>3 DEF DeleteFind
    <2>4. /\ txn' \in [Handlers -> Place]
          /\ txn'[h].stage = "emptying" /\ txn'[h].by = m /\ txn'[h].process = p
          /\ \A g \in Handlers \ {h} : txn'[g] = txn[g]
      <3>1. "emptying" \in {"sending", "marking", "emptying"}
        OBVIOUS
      <3>. QED BY <2>0, <3>1, Begun
    <2>1. TypeOK'
      BY <1>3, <2>4, Bounds DEF DeleteFind, TypeInv, TypeOK, Place, table, clients, marks
    <2>2. \A g \in Handlers : UnderWay(g)'
      <3>1. ASSUME NEW g \in Handlers \ {h} PROVE UnderWay(g)'
        BY <1>3, <1>0, <2>4, StaysUnderWay DEF DeleteFind, table, clients, marks
      <3>2. UnderWay(h)'
        BY <2>4 DEF UnderWay, Pending
      <3>. QED BY <3>1, <3>2
    <2>3. IdsOfTheirOwn'
      BY <1>0, <2>4 DEF IdsOfTheirOwn, TypeInv, Pending
    <2>. QED BY <2>1, <2>2, <2>3 DEF TypeInv
  <1>4. ASSUME NEW h \in Handlers, Insert(h) PROVE TypeInv'
    <2>1. CASE room = "gone"
      <3>1. /\ txn' \in [Handlers -> Place]
            /\ txn'[h] = Idle /\ Idle.stage = "idle"
            /\ \A g \in Handlers \ {h} : txn'[g] = txn[g]
        BY <1>4, <2>1, Ended DEF Insert
      <3>2. UNCHANGED <<room, table, requests, clients, answered, marks, hurried>>
        BY <1>4, <2>1 DEF Insert, table
      <3>3. TypeOK'
        BY <3>1, <3>2 DEF TypeInv, TypeOK, Place, table, clients, marks
      <3>4. ASSUME NEW g \in Handlers PROVE UnderWay(g)'
        <4>1. CASE g = h
          BY <3>1, <4>1 DEF UnderWay, Pending
        <4>2. CASE g # h
          BY <1>0, <3>1, <3>2, <4>2, StaysUnderWay DEF table
        <4>. QED BY <4>1, <4>2
      <3>5. IdsOfTheirOwn'
        BY <1>0, <3>1 DEF IdsOfTheirOwn, TypeInv, Pending
      <3>. QED BY <3>3, <3>4, <3>5 DEF TypeInv
    <2>2. CASE room # "gone"
      <3>. DEFINE new == given + 1
                  t == [txn[h] EXCEPT !.stage = "inserted", !.id = new]
      <3>1. /\ given' = new /\ given < MaxMessages
            /\ message' = [message EXCEPT ![new] = [sender |-> txn[h].by, read |-> FALSE]]
            /\ txn' = [txn EXCEPT ![h] = t]
            /\ txn[h].stage = "sending" /\ txn[h].by \in Members /\ txn[h].process \in Processes
            /\ UNCHANGED <<room, rows, requests, clients, answered, marks, hurried>>
        BY <1>0, <1>4, <2>2 DEF Insert, UnderWay
      <3>2. new \in Ids /\ new \in 1..given' /\ new \notin 1..given /\ given' \in 0..MaxMessages
        BY <1>0, <3>1, Bounds DEF Ids
      <3>3. /\ txn' \in [Handlers -> Place]
            /\ txn'[h].stage = "inserted" /\ txn'[h].id = new /\ txn'[h].by = txn[h].by
            /\ txn'[h].process = txn[h].process
            /\ \A g \in Handlers \ {h} : txn'[g] = txn[g]
        <4>1. t \in Place
          BY <1>0, <3>2 DEF Place
        <4>. QED BY <1>0, <3>1, <4>1 DEF Place
      <3>4. /\ message' \in [Ids -> [sender: Members \union {None}, read: BOOLEAN]]
            /\ message'[new].sender = txn[h].by
            /\ \A i \in 1..given : message'[i] = message[i]
        <4>1. message \in [Ids -> [sender: Members \union {None}, read: BOOLEAN]]
          BY DEF TypeInv, TypeOK
        <4>. QED BY <3>1, <3>2, <4>1, <1>0 DEF Ids
      <3>5. 1..given \subseteq 1..given'
        BY <1>0, <3>1
      <3>6. TypeOK'
        BY <1>0, <3>1, <3>2, <3>3, <3>4, <3>5 DEF TypeInv, TypeOK, Place, clients, marks
      <3>7. ASSUME NEW g \in Handlers PROVE UnderWay(g)'
        <4>1. CASE g = h
          BY <1>0, <2>2, <3>1, <3>2, <3>3, <3>4, <4>1 DEF UnderWay, Pending
        <4>2. CASE g # h
          BY <1>0, <3>1, <3>3, <3>4, <4>2, StaysUnderWay
        <4>. QED BY <4>1, <4>2
      <3>8. ASSUME NEW g \in Handlers, NEW k \in Handlers, g # k, Pending(g)', Pending(k)'
            PROVE  txn'[g].id # txn'[k].id
        <4>1. \A j \in Handlers \ {h} : Pending(j)' => Pending(j) /\ txn'[j].id \in 1..given
          BY <1>0, <3>3 DEF Pending, UnderWay
        <4>2. CASE g # h /\ k # h
          BY <3>3, <3>8, <4>1, <4>2 DEF TypeInv, IdsOfTheirOwn
        <4>3. CASE g = h \/ k = h
          BY <3>2, <3>3, <3>8, <4>1, <4>3
        <4>. QED BY <4>2, <4>3
      <3>. QED BY <3>6, <3>7, <3>8 DEF TypeInv, IdsOfTheirOwn
    <2>. QED BY <2>1, <2>2
  <1>5. ASSUME NEW h \in Handlers, Commit(h) PROVE TypeInv'
    <2>4. /\ txn' \in [Handlers -> Place]
          /\ txn'[h].stage = "saved" /\ txn[h].stage = "inserted"
          /\ txn'[h].by = txn[h].by /\ txn'[h].process = txn[h].process /\ txn'[h].id = txn[h].id
          /\ \A g \in Handlers \ {h} : txn'[g] = txn[g]
      BY <1>5, WentOn DEF Commit
    <2>5. txn[h].id \in 1..given /\ room # "gone"
      BY <1>0, <2>4 DEF UnderWay, Pending
    <2>1. TypeOK'
      BY <1>5, <2>4, <2>5 DEF Commit, TypeInv, TypeOK, Place, clients, marks
    <2>2. \A g \in Handlers : UnderWay(g)'
      <3>1. ASSUME NEW g \in Handlers \ {h} PROVE UnderWay(g)'
        BY <1>5, <1>0, <2>4, StaysUnderWay DEF Commit
      <3>2. UnderWay(h)'
        BY <1>5, <1>0, <2>4 DEF Commit, UnderWay, Pending
      <3>. QED BY <3>1, <3>2
    <2>3. IdsOfTheirOwn'
      BY <1>0, <2>4 DEF IdsOfTheirOwn, TypeInv, Pending
    <2>. QED BY <2>1, <2>2, <2>3 DEF TypeInv
  <1>6. ASSUME NEW h \in Handlers, EmitMessageCreated(h) PROVE TypeInv'
    <2>4. /\ txn' \in [Handlers -> Place]
          /\ txn'[h] = Idle /\ Idle.stage = "idle"
          /\ \A g \in Handlers \ {h} : txn'[g] = txn[g]
      BY <1>6, Ended DEF EmitMessageCreated
    <2>1. TypeOK'
      <3>1. txn[h].id \in 1..given
        BY <1>0, <1>6 DEF EmitMessageCreated, UnderWay, Pending
      <3>2. hurried' \subseteq Ids
        <4>1. txn[h].id \in Ids
          BY <1>0, <3>1, Bounds DEF Ids
        <4>2. hurried' \subseteq hurried \union {txn[h].id} /\ hurried \subseteq Ids
          BY <1>6 DEF EmitMessageCreated, TypeInv, TypeOK
        <4>. QED BY <4>1, <4>2
      <3>. QED BY <1>6, <2>4, <3>1, <3>2 DEF EmitMessageCreated, TypeInv, TypeOK, Place, table, marks
    <2>2. \A g \in Handlers : UnderWay(g)'
      <3>1. ASSUME NEW g \in Handlers \ {h} PROVE UnderWay(g)'
        <4>1. Pending(g) => txn[g].id # txn[h].id
          BY <1>6, <3>1 DEF EmitMessageCreated, TypeInv, IdsOfTheirOwn, Pending
        <4>. QED
          BY <1>6, <1>0, <2>4, <4>1, StaysUnderWay DEF EmitMessageCreated, table
      <3>2. UnderWay(h)'
        BY <2>4 DEF UnderWay, Pending
      <3>. QED BY <3>1, <3>2
    <2>3. IdsOfTheirOwn'
      BY <1>0, <2>4 DEF IdsOfTheirOwn, TypeInv, Pending
    <2>. QED BY <2>1, <2>2, <2>3 DEF TypeInv
  <1>7. ASSUME NEW h \in Handlers, MarkAsRead(h) PROVE TypeInv'
    <2>4. /\ txn' \in [Handlers -> Place]
          /\ txn'[h] = Idle /\ Idle.stage = "idle"
          /\ \A g \in Handlers \ {h} : txn'[g] = txn[g]
      BY <1>7, Ended DEF MarkAsRead
    <2>1. TypeOK'
      <3>1. Cardinality(Marked(txn[h])) \in Nat
        <4>1. Marked(txn[h]) \subseteq rows
          BY DEF Marked, Unread
        <4>2. 1..given \subseteq Ids
          BY <1>0, Bounds DEF Ids
        <4>. QED BY <1>0, <4>1, <4>2, IdsAreFinite
      <3>2. counted' \in Nat
        BY <1>7, <3>1 DEF MarkAsRead, TypeInv, TypeOK
      <3>3. message' \in [Ids -> [sender: Members \union {None}, read: BOOLEAN]]
        <4>1. \A i \in Ids : message[i] \in [sender: Members \union {None}, read: BOOLEAN]
          BY DEF TypeInv, TypeOK
        <4>2. \A i \in Ids : [message[i] EXCEPT !.read = TRUE] \in [sender: Members \union {None}, read: BOOLEAN]
          BY <4>1
        <4>. QED BY <1>7, <4>1, <4>2 DEF MarkAsRead
      <3>4. blind' \subseteq Ids
        <4>1. Marked(txn[h]) \subseteq rows /\ rows \subseteq Ids
          BY <1>0, Bounds DEF Marked, Unread, Ids
        <4>. QED BY <1>7, <4>1 DEF MarkAsRead, TypeInv, TypeOK
      <3>. QED BY <1>7, <2>4, <3>2, <3>3, <3>4 DEF MarkAsRead, TypeInv, TypeOK, Place, clients, marks
    <2>2. \A g \in Handlers : UnderWay(g)'
      <3>1. ASSUME NEW g \in Handlers \ {h} PROVE UnderWay(g)'
        <4>1. \A i \in 1..given : message'[i].sender = message[i].sender
          <5>1. \A i \in Ids : message[i] \in [sender: Members \union {None}, read: BOOLEAN]
            BY DEF TypeInv, TypeOK
          <5>2. 1..given \subseteq Ids
            BY <1>0, Bounds DEF Ids
          <5>. QED BY <1>7, <5>1, <5>2 DEF MarkAsRead
        <4>. QED
          BY <1>7, <1>0, <2>4, <4>1, StaysUnderWay DEF MarkAsRead
      <3>2. UnderWay(h)'
        BY <2>4 DEF UnderWay, Pending
      <3>. QED BY <3>1, <3>2
    <2>3. IdsOfTheirOwn'
      BY <1>0, <2>4 DEF IdsOfTheirOwn, TypeInv, Pending
    <2>. QED BY <2>1, <2>2, <2>3 DEF TypeInv
  <1>8. ASSUME NEW h \in Handlers, DeleteMessages(h) PROVE TypeInv'
    <2>4. /\ txn' \in [Handlers -> Place]
          /\ txn'[h].stage = "removing" /\ txn[h].stage = "emptying"
          /\ txn'[h].by = txn[h].by /\ txn'[h].process = txn[h].process
          /\ \A g \in Handlers \ {h} : txn'[g] = txn[g]
      BY <1>8, WentOn DEF DeleteMessages
    <2>1. TypeOK'
      BY <1>8, <2>4 DEF DeleteMessages, TypeInv, TypeOK, Place, clients, marks
    <2>2. \A g \in Handlers : UnderWay(g)'
      <3>1. ASSUME NEW g \in Handlers \ {h} PROVE UnderWay(g)'
        BY <1>8, <1>0, <2>4, StaysUnderWay DEF DeleteMessages
      <3>2. UnderWay(h)'
        BY <1>8, <1>0, <2>4 DEF UnderWay, Pending
      <3>. QED BY <3>1, <3>2
    <2>3. IdsOfTheirOwn'
      BY <1>0, <2>4 DEF IdsOfTheirOwn, TypeInv, Pending
    <2>. QED BY <2>1, <2>2, <2>3 DEF TypeInv
  <1>9. ASSUME NEW h \in Handlers, DeleteRoom(h) PROVE TypeInv'
    <2>4. /\ txn' \in [Handlers -> Place]
          /\ txn'[h] = Idle /\ Idle.stage = "idle"
          /\ \A g \in Handlers \ {h} : txn'[g] = txn[g]
      BY <1>9, Ended DEF DeleteRoom
    <2>1. TypeOK'
      BY <1>9, <2>4 DEF DeleteRoom, TypeInv, TypeOK, Place, table, clients, marks
    <2>2. \A g \in Handlers : UnderWay(g)'
      <3>1. ASSUME NEW g \in Handlers \ {h} PROVE UnderWay(g)'
        <4>1. txn[g].stage # "inserted"
          BY <1>9, <3>1 DEF DeleteRoom, Inserting
        <4>. QED
          BY <1>9, <1>0, <2>4, <4>1, StaysUnderWay DEF DeleteRoom, table
      <3>2. UnderWay(h)'
        BY <2>4 DEF UnderWay, Pending
      <3>. QED BY <3>1, <3>2
    <2>3. IdsOfTheirOwn'
      BY <1>0, <2>4 DEF IdsOfTheirOwn, TypeInv, Pending
    <2>. QED BY <2>1, <2>2, <2>3 DEF TypeInv
  <1>10. ASSUME NEW h \in Handlers, Interrupt(h) PROVE TypeInv'
    <2>4. /\ txn' \in [Handlers -> Place]
          /\ txn'[h] = Idle /\ Idle.stage = "idle"
          /\ \A g \in Handlers \ {h} : txn'[g] = txn[g]
      BY <1>10, Ended DEF Interrupt
    <2>1. TypeOK'
      BY <1>10, <2>4 DEF Interrupt, TypeInv, TypeOK, Place, table, clients, marks
    <2>2. \A g \in Handlers : UnderWay(g)'
      <3>1. ASSUME NEW g \in Handlers \ {h} PROVE UnderWay(g)'
        BY <1>10, <1>0, <2>4, StaysUnderWay DEF Interrupt, table, clients, marks
      <3>2. UnderWay(h)'
        BY <2>4 DEF UnderWay, Pending
      <3>. QED BY <3>1, <3>2
    <2>3. IdsOfTheirOwn'
      BY <1>0, <2>4 DEF IdsOfTheirOwn, TypeInv, Pending
    <2>. QED BY <2>1, <2>2, <2>3 DEF TypeInv
  <1>11. ASSUME Close PROVE TypeInv'
    <2>1. TypeOK'
      BY <1>11, Bounds DEF Close, TypeInv, TypeOK, table, clients, marks
    <2>2. \A g \in Handlers : UnderWay(g)'
      BY <1>11, <1>0, StaysUnderWay DEF Close, table
    <2>3. IdsOfTheirOwn'
      BY <1>11 DEF Close, IdsOfTheirOwn, TypeInv, Pending
    <2>. QED BY <2>1, <2>2, <2>3 DEF TypeInv
  <1>12. ASSUME NEW m \in Members, NEW p \in Processes, Connect(m, p) PROVE TypeInv'
    <2>1. TypeOK'
      BY <1>12, Bounds DEF Connect, TypeInv, TypeOK, table, clients, marks
    <2>2. \A g \in Handlers : UnderWay(g)'
      BY <1>12, <1>0, StaysUnderWay DEF Connect, table
    <2>3. IdsOfTheirOwn'
      BY <1>12 DEF Connect, IdsOfTheirOwn, TypeInv, Pending
    <2>. QED BY <2>1, <2>2, <2>3 DEF TypeInv
  <1>13. ASSUME NEW m \in Members, Join(m) PROVE TypeInv'
    <2>1. TypeOK'
      BY <1>13 DEF Join, TypeInv, TypeOK, table, clients, marks
    <2>2. \A g \in Handlers : UnderWay(g)'
      BY <1>13, <1>0, StaysUnderWay DEF Join, table
    <2>3. IdsOfTheirOwn'
      BY <1>13 DEF Join, IdsOfTheirOwn, TypeInv, Pending
    <2>. QED BY <2>1, <2>2, <2>3 DEF TypeInv
  <1>14. ASSUME NEW m \in Members, Leave(m) PROVE TypeInv'
    <2>1. TypeOK'
      BY <1>14, UnfollowType DEF Leave, TypeInv, TypeOK, table, clients, marks
    <2>2. \A g \in Handlers : UnderWay(g)'
      BY <1>14, <1>0, StaysUnderWay DEF Leave, table
    <2>3. IdsOfTheirOwn'
      BY <1>14 DEF Leave, IdsOfTheirOwn, TypeInv, Pending
    <2>. QED BY <2>1, <2>2, <2>3 DEF TypeInv
  <1>15. ASSUME NEW m \in Members, Disconnect(m) PROVE TypeInv'
    <2>1. TypeOK'
      BY <1>15, UnfollowType DEF Disconnect, TypeInv, TypeOK, table, clients, marks
    <2>2. \A g \in Handlers : UnderWay(g)'
      BY <1>15, <1>0, StaysUnderWay DEF Disconnect, table
    <2>3. IdsOfTheirOwn'
      BY <1>15 DEF Disconnect, IdsOfTheirOwn, TypeInv, Pending
    <2>. QED BY <2>1, <2>2, <2>3 DEF TypeInv
  <1>16. ASSUME NEW m \in Members, GetMessages(m) PROVE TypeInv'
    <2>1. TypeOK'
      BY <1>16, PageType DEF GetMessages, TypeInv, TypeOK, table, clients, marks
    <2>2. \A g \in Handlers : UnderWay(g)'
      BY <1>16, <1>0, StaysUnderWay DEF GetMessages, table
    <2>3. IdsOfTheirOwn'
      BY <1>16 DEF GetMessages, IdsOfTheirOwn, TypeInv, Pending
    <2>. QED BY <2>1, <2>2, <2>3 DEF TypeInv
  <1>17. ASSUME UNCHANGED vars PROVE TypeInv'
    BY <1>17 DEF vars, TypeInv, TypeOK, UnderWay, IdsOfTheirOwn, Pending
  <1>. QED
    BY <1>1, <1>2, <1>3, <1>4, <1>5, <1>6, <1>7, <1>8, <1>9, <1>10, <1>11, <1>12, <1>13,
       <1>14, <1>15, <1>16, <1>17 DEF Next

\* Every variable has its type.
THEOREM TypeCorrect ==
  ASSUME ChatConstants
  PROVE  Spec => []TypeOK
  <1>1. TypeInv => TypeOK
    BY DEF TypeInv
  <1>. QED BY <1>1, TypeInit, TypeStep, PTL DEF Spec

-----------------------------------------------------------------------------
(* Counting.                                                               *)

ReadIds == {i \in Ids : message[i].read}

\* Ids that were not given yet are not read.
CountInv == TypeInv /\ ReadIds \subseteq 1..given /\ CountsAddUp

LEMMA CountInit ==
  ASSUME ChatConstants
  PROVE  Init => CountInv
  <1>. SUFFICES ASSUME Init PROVE CountInv
    OBVIOUS
  <1>1. ReadIds = {} /\ counted = 0
    BY DEF Init, ReadIds
  <1>. QED BY <1>1, TypeInit, FS_EmptySet DEF CountInv, CountsAddUp, ReadIds

LEMMA CountStep ==
  ASSUME ChatConstants
  PROVE  CountInv /\ [Next]_vars => CountInv'
  <1>. SUFFICES ASSUME CountInv, [Next]_vars PROVE CountInv'
    OBVIOUS
  <1>0. /\ TypeInv /\ TypeInv' /\ given \in Nat /\ given <= MaxMessages
        /\ rows \subseteq 1..given /\ 1..given \subseteq Ids
        /\ message \in [Ids -> [sender: Members \union {None}, read: BOOLEAN]]
    <2>1. TypeInv /\ TypeInv'
      BY TypeStep DEF CountInv
    <2>2. /\ given \in Nat /\ given <= MaxMessages /\ rows \subseteq 1..given
          /\ message \in [Ids -> [sender: Members \union {None}, read: BOOLEAN]]
      BY <2>1, Bounds DEF TypeInv, TypeOK
    <2>. QED BY <2>1, <2>2, Bounds DEF Ids
  <1>. SUFFICES ReadIds' \subseteq 1..given' /\ CountsAddUp'
    BY <1>0 DEF CountInv
  <1>1. ASSUME NEW h \in Handlers, Insert(h), room # "gone"
        PROVE  ReadIds' \subseteq 1..given' /\ CountsAddUp'
    <2>1. /\ given' = given + 1 /\ given < MaxMessages /\ counted' = counted
          /\ message' = [message EXCEPT ![given'] = [sender |-> txn[h].by, read |-> FALSE]]
      BY <1>1 DEF Insert, marks
    <2>2. given' \in Ids /\ given' \notin 1..given /\ 1..given \subseteq 1..given'
      BY <1>0, <2>1, Bounds DEF Ids
    <2>3. ReadIds' = ReadIds
      BY <1>0, <2>1, <2>2 DEF ReadIds, CountInv
    <2>. QED BY <2>1, <2>2, <2>3 DEF CountInv, CountsAddUp, ReadIds
  <1>2. ASSUME NEW h \in Handlers, MarkAsRead(h)
        PROVE  ReadIds' \subseteq 1..given' /\ CountsAddUp'
    <2>. DEFINE marked == Marked(txn[h])
    <2>1. marked \subseteq rows /\ marked \intersect ReadIds = {}
      BY DEF Marked, Unread, ReadIds
    <2>2. ReadIds' = ReadIds \union marked
      BY <1>0, <1>2, <2>1 DEF MarkAsRead, ReadIds
    <2>3. marked \in SUBSET Ids /\ ReadIds \in SUBSET Ids
      BY <1>0, <2>1 DEF ReadIds
    <2>4. counted' = counted + Cardinality(marked) /\ given' = given
      BY <1>2 DEF MarkAsRead
    <2>. HIDE DEF marked
    <2>5. /\ Cardinality(ReadIds \union marked) = Cardinality(ReadIds) + Cardinality(marked)
          /\ Cardinality(ReadIds) \in Nat /\ Cardinality(marked) \in Nat
      <3>1. Cardinality(ReadIds \intersect marked) = 0
        BY <2>1, FS_EmptySet
      <3>2. IsFiniteSet(ReadIds) /\ IsFiniteSet(marked)
            /\ Cardinality(ReadIds) \in Nat /\ Cardinality(marked) \in Nat
        BY <2>3, IdsAreFinite
      <3>3. Cardinality(ReadIds \union marked)
               = Cardinality(ReadIds) + Cardinality(marked) - Cardinality(ReadIds \intersect marked)
        BY <3>2, FS_Union
      <3>. QED BY <3>1, <3>2, <3>3
    <2>6. CountsAddUp'
      BY <2>2, <2>4, <2>5 DEF CountInv, CountsAddUp, ReadIds
    <2>. QED BY <1>0, <2>1, <2>2, <2>4, <2>6 DEF CountInv
  <1>3. ASSUME UNCHANGED <<message, given, counted>>
        PROVE  ReadIds' \subseteq 1..given' /\ CountsAddUp'
    BY <1>3 DEF CountInv, CountsAddUp, ReadIds
  <1>4. \/ \E h \in Handlers : (Insert(h) /\ room # "gone") \/ MarkAsRead(h)
        \/ UNCHANGED <<message, given, counted>>
    <2>1. ASSUME NEW h \in Handlers, NEW m \in Members, NEW p \in Processes,
                 Send(h, m, p) \/ MarkFind(h, m, p) \/ DeleteFind(h, m, p)
          PROVE  UNCHANGED <<message, given, counted>>
      BY <2>1 DEF Send, MarkFind, DeleteFind, table, marks
    <2>2. ASSUME NEW h \in Handlers,
                 \/ Insert(h) /\ room = "gone"
                 \/ Commit(h) \/ EmitMessageCreated(h)
                 \/ DeleteMessages(h) \/ DeleteRoom(h) \/ Interrupt(h)
          PROVE  UNCHANGED <<message, given, counted>>
      BY <2>2 DEF Insert, Commit, EmitMessageCreated, DeleteMessages, DeleteRoom, Interrupt, table, marks
    <2>3. ASSUME Close \/ \E m \in Members :
                    \/ Join(m) \/ Leave(m) \/ Disconnect(m) \/ GetMessages(m)
                    \/ \E p \in Processes : Connect(m, p)
          PROVE  UNCHANGED <<message, given, counted>>
      BY <2>3 DEF Close, Join, Leave, Disconnect, GetMessages, Connect, table, marks
    <2>. QED BY <2>1, <2>2, <2>3 DEF Next, vars, marks
  <1>. QED BY <1>1, <1>2, <1>3, <1>4

\* The updatedCounts of the answers add up to the messages that are read.
THEOREM MarksCountedOnce ==
  ASSUME ChatConstants
  PROVE  Spec => []CountsAddUp
  <1>1. CountInv => CountsAddUp
    BY DEF CountInv
  <1>. QED BY <1>1, CountInit, CountStep, PTL DEF Spec

-----------------------------------------------------------------------------
(* Following a room.                                                       *)

\* All requests and sockets are served by one process, and a client that
\* comes back reads the history from its end.
OneServer == (\E p : Processes = {p}) /\ ~CatchesUp

\* A client has every answered message of the room from its cursor on; one
\* that does not follow the room is at the end of the history.
FollowInv ==
    \A m \in Members :
        /\ joined[m] => socket[m] \in Processes
        /\ ~joined[m] => cursor[m] = FromTop
        /\ cursor[m].way # "after"
        /\ \A i \in answered \intersect rows : i >= cursor[m].id => i \in seen[m]

LEMMA FollowInit ==
  ASSUME ChatConstants
  PROVE  Init => FollowInv
  BY DEF Init, FollowInv, FromTop

\* The next page closes the gap between its smallest id and the cursor.
LEMMA PageReaches ==
  ASSUME ChatConstants, TypeInv, FollowInv, NEW m \in Members, GetMessages(m)
  PROVE  /\ cursor'[m].way # "after"
         /\ \A i \in answered \intersect rows : i >= cursor'[m].id => i \in seen'[m]
  <1>. DEFINE c == cursor[m]
              page == Newest(Older(c.id))
  <1>1. /\ c.way # "after" /\ c \in [way: {"before", "after", "whole"}, id: 0..(MaxMessages + 1)]
        /\ given \in Nat /\ given <= MaxMessages /\ rows \subseteq 1..given
        /\ seen[m] \subseteq 1..given
    BY Bounds DEF FollowInv, TypeInv, TypeOK
  <1>2. /\ seen'[m] = seen[m] \union page
        /\ cursor'[m] = IF Cardinality(page) < PageSize THEN Whole ELSE [c EXCEPT !.id = Min(page)]
    BY <1>1 DEF GetMessages, TypeInv, TypeOK
  <1>3. Older(c.id) \in SUBSET Ids
    <2>1. 1..given \subseteq Ids
      BY <1>1, Bounds DEF Ids
    <2>2. Older(c.id) \subseteq rows
      BY DEF Older
    <2>. QED BY <1>1, <2>1, <2>2
  <1>4. ASSUME NEW i \in answered \intersect rows, i >= c.id PROVE i \in seen'[m]
    BY <1>2, <1>4 DEF FollowInv
  <1>5. ASSUME NEW i \in rows PROVE i >= c.id \/ i \in Older(c.id)
    BY <1>1, <1>5 DEF Older
  <1>6. CASE Cardinality(page) < PageSize
    <2>1. page = Older(c.id)
      BY <1>3, <1>6, PageIsWhole
    <2>. QED BY <1>2, <1>4, <1>5, <1>6, <2>1 DEF Whole
  <1>7. CASE ~(Cardinality(page) < PageSize)
    <2>1. page # {}
      BY <1>7, FS_EmptySet, Bounds
    <2>2. cursor'[m].id = Min(page) /\ cursor'[m].way = c.way
      BY <1>1, <1>2, <1>7
    <2>3. ASSUME NEW i \in answered \intersect rows, i >= Min(page) PROVE i \in seen'[m]
      <3>1. CASE i >= c.id
        BY <1>4, <3>1
      <3>2. CASE i \in Older(c.id)
        <4>1. i \in page
          BY <1>3, <2>1, <2>3, <3>2, PageHasNoGap
        <4>. QED BY <1>2, <4>1
      <3>. QED BY <1>5, <3>1, <3>2
    <2>. HIDE DEF page
    <2>. QED BY <1>1, <2>2, <2>3
  <1>. QED BY <1>6, <1>7

LEMMA FollowStep ==
  ASSUME ChatConstants, OneServer
  PROVE  TypeInv /\ FollowInv /\ [Next]_vars => FollowInv'
  <1>. SUFFICES ASSUME TypeInv, FollowInv, [Next]_vars PROVE FollowInv'
    OBVIOUS
  <1>0. /\ given \in Nat /\ given <= MaxMessages /\ rows \subseteq 1..given
        /\ MaxMessages \in Nat
        /\ \A g \in Handlers : UnderWay(g)
        /\ seen \in [Members -> SUBSET (1..given)]
        /\ joined \in [Members -> BOOLEAN] /\ socket \in [Members -> Processes \union {None}]
        /\ cursor \in [Members -> [way: {"before", "after", "whole"}, id: 0..(MaxMessages + 1)]]
    BY Bounds DEF TypeInv, TypeOK
  <1>1. ASSUME UNCHANGED <<socket, joined, cursor, seen, answered>>, rows' \subseteq rows
        PROVE  FollowInv'
    BY <1>1 DEF FollowInv
  <1>2. ASSUME NEW h \in Handlers, Commit(h) PROVE FollowInv'
    <2>1. txn[h].id \notin answered
      BY <1>0, <1>2 DEF Commit, UnderWay, Pending
    <2>. QED BY <1>2, <2>1 DEF Commit, FollowInv, clients
  <1>3. ASSUME NEW h \in Handlers, EmitMessageCreated(h) PROVE FollowInv'
    <2>1. txn[h].process \in Processes /\ txn[h].id \in 1..given
      BY <1>0, <1>3 DEF EmitMessageCreated, UnderWay, Pending
    <2>2. ASSUME NEW m \in Members, joined[m] PROVE m \in Receivers(h)
      BY <2>1, <2>2 DEF Receivers, FollowInv, OneServer
    <2>3. ASSUME NEW m \in Members, NEW i \in answered' \intersect rows', i >= cursor'[m].id
          PROVE  i \in seen'[m]
      <3>1. CASE i \in answered
        BY <1>0, <1>3, <2>3, <3>1 DEF EmitMessageCreated, FollowInv, table
      <3>2. CASE i = txn[h].id /\ joined[m]
        BY <1>3, <2>2, <3>2 DEF EmitMessageCreated
      <3>3. CASE i = txn[h].id /\ ~joined[m]
        BY <1>0, <1>3, <2>1, <2>3, <3>3 DEF EmitMessageCreated, FollowInv, FromTop
      <3>. QED BY <1>3, <3>1, <3>2, <3>3 DEF EmitMessageCreated
    <2>. QED BY <1>3, <2>3 DEF EmitMessageCreated, FollowInv
  <1>4. ASSUME NEW m \in Members, NEW p \in Processes, Connect(m, p) PROVE FollowInv'
    BY <1>0, <1>4 DEF Connect, FollowInv, table
  <1>5. ASSUME NEW m \in Members, Join(m) PROVE FollowInv'
    BY <1>0, <1>5 DEF Join, FollowInv, table
  <1>6. ASSUME NEW m \in Members, Leave(m) \/ Disconnect(m) PROVE FollowInv'
    <2>1. /\ cursor' = [cursor EXCEPT ![m] = FromTop] /\ joined' = [joined EXCEPT ![m] = FALSE]
          /\ UNCHANGED <<rows, answered, seen>>
      BY <1>6 DEF Leave, Disconnect, Unfollow, OneServer, table
    <2>2. \A n \in Members \ {m} : socket'[n] = socket[n]
      BY <1>0, <1>6 DEF Leave, Disconnect
    <2>3. ASSUME NEW n \in Members
          PROVE  /\ joined'[n] => socket'[n] \in Processes
                 /\ ~joined'[n] => cursor'[n] = FromTop
                 /\ cursor'[n].way # "after"
                 /\ \A i \in answered' \intersect rows' : i >= cursor'[n].id => i \in seen'[n]
      <3>1. CASE n = m
        <4>1. ~joined'[n] /\ cursor'[n] = FromTop
          BY <1>0, <2>1, <3>1
        <4>2. \A i \in rows : ~(i >= FromTop.id)
          BY <1>0 DEF FromTop
        <4>. QED BY <2>1, <4>1, <4>2 DEF FromTop
      <3>2. CASE n # m
        BY <1>0, <2>1, <2>2, <3>2 DEF FollowInv
      <3>. QED BY <3>1, <3>2
    <2>. QED BY <2>3 DEF FollowInv
  <1>7. ASSUME NEW m \in Members, GetMessages(m) PROVE FollowInv'
    <2>1. /\ \A n \in Members \ {m} : cursor'[n] = cursor[n] /\ seen'[n] = seen[n]
          /\ joined[m] /\ UNCHANGED <<rows, answered, socket, joined>>
      BY <1>0, <1>7 DEF GetMessages, table
    <2>. QED BY <1>7, <2>1, PageReaches DEF FollowInv
  <1>8. \/ UNCHANGED <<socket, joined, cursor, seen, answered>> /\ rows' \subseteq rows
        \/ \E h \in Handlers : Commit(h) \/ EmitMessageCreated(h)
        \/ \E m \in Members : \/ Join(m) \/ Leave(m) \/ Disconnect(m) \/ GetMessages(m)
                              \/ \E p \in Processes : Connect(m, p)
    <2>1. ASSUME NEW h \in Handlers, NEW m \in Members, NEW p \in Processes,
                 Send(h, m, p) \/ MarkFind(h, m, p) \/ DeleteFind(h, m, p)
          PROVE  UNCHANGED <<socket, joined, cursor, seen, answered, rows>>
      BY <2>1 DEF Send, MarkFind, DeleteFind, table, clients, marks
    <2>2. ASSUME NEW h \in Handlers,
                 Insert(h) \/ MarkAsRead(h) \/ DeleteMessages(h) \/ DeleteRoom(h) \/ Interrupt(h)
          PROVE  UNCHANGED <<socket, joined, cursor, seen, answered>> /\ rows' \subseteq rows
      BY <2>2 DEF Insert, MarkAsRead, DeleteMessages, DeleteRoom, Interrupt, table, clients, marks
    <2>3. ASSUME Close \/ UNCHANGED vars
          PROVE  UNCHANGED <<socket, joined, cursor, seen, answered, rows>>
      BY <2>3 DEF Close, vars, table, clients, marks
    <2>. QED BY <2>1, <2>2, <2>3 DEF Next
  <1>. QED BY <1>1, <1>2, <1>3, <1>4, <1>5, <1>6, <1>7, <1>8

\* With one server process, a client that has read the history to its end
\* shows every message that was answered.
THEOREM EverythingSeen == ASSUME ChatConstants, OneServer PROVE Spec => []FollowersSeeAll
  <1>1. Init => TypeInv /\ FollowInv
    BY TypeInit, FollowInit
  <1>2. TypeInv /\ FollowInv /\ [Next]_vars => (TypeInv /\ FollowInv)'
    BY TypeStep, FollowStep
  <1>3. TypeInv /\ FollowInv => FollowersSeeAll
    <2>. SUFFICES ASSUME TypeInv, FollowInv, NEW m \in Members, cursor[m] = Whole,
                         NEW i \in answered \intersect rows
                  PROVE  i \in seen[m]
      BY DEF FollowersSeeAll
    <2>1. i \in Nat /\ cursor[m].id = 0
      BY DEF Whole, TypeInv, TypeOK
    <2>. QED BY <2>1 DEF FollowInv
  <1>. QED BY <1>1, <1>2, <1>3, PTL DEF Spec

-----------------------------------------------------------------------------
(* Marking as read.                                                        *)

\* A chat room has a requester and an artist.
TwoMembers == \E a, b : Members = {a, b}

Senders == \A i \in 1..given : message[i].sender \in Members

\* Who marks up to a message has been given what the mark covers, the part of
\* it that is answered and was not followed by another message before.
MarkCoversSeen ==
    \A h \in Handlers : txn[h].stage = "marking" /\ txn[h].id # None =>
        LET m == txn[h].by
            k == txn[h].id
        IN  /\ k \in seen[m] /\ message[k].sender # m
            /\ \A i \in rows \intersect answered :
                  i <= k /\ message[i].sender # m => i \in seen[m] \union hurried

\* A message that is not answered yet and has been followed by another one of
\* its sender: it will be a hurried one.
Passed(i) == i \notin answered /\ SentOn(i)

ReadIsSeen ==
    \A i \in 1..given, m \in Members :
        message[i].read /\ message[i].sender # m =>
            i \in seen[m] \union blind \union hurried \/ Passed(i)

ReadInv == Senders /\ MarkCoversSeen /\ ReadIsSeen

LEMMA ReadInit ==
  ASSUME ChatConstants
  PROVE  Init => ReadInv
  BY DEF Init, ReadInv, Senders, MarkCoversSeen, ReadIsSeen, Idle

\* Two members: who is not the one is the other.
LEMMA OtherMember ==
  ASSUME TwoMembers, NEW m \in Members, NEW s \in Members, NEW t \in Members,
         s # m, t # m
  PROVE  s = t
  BY DEF TwoMembers

\* The steps that neither add nor answer nor read messages.
LEMMA StaysRead ==
  ASSUME ChatConstants, TypeInv, ReadInv, UNCHANGED <<message, given, answered, marks, hurried>>,
         rows' \subseteq rows,
         \A m \in Members : seen[m] \subseteq seen'[m],
         \A h \in Handlers : txn'[h].stage = "marking" =>
            txn[h].stage = "marking" /\ txn'[h].id = txn[h].id /\ txn'[h].by = txn[h].by
  PROVE  ReadInv'
  <1>0. \A h \in Handlers : UnderWay(h)
    BY DEF TypeInv
  <1>1. Senders'
    BY DEF ReadInv, Senders
  <1>2. MarkCoversSeen'
    <2>1. ASSUME NEW h \in Handlers, txn'[h].stage = "marking", txn'[h].id # None
          PROVE  /\ txn'[h].id \in seen'[txn'[h].by] /\ message[txn'[h].id].sender # txn'[h].by
                 /\ \A i \in rows' \intersect answered :
                       i <= txn'[h].id /\ message[i].sender # txn'[h].by =>
                          i \in seen'[txn'[h].by] \union hurried
      <3>1. txn[h].by \in Members
        BY <1>0, <2>1 DEF UnderWay
      <3>. QED BY <2>1, <3>1 DEF ReadInv, MarkCoversSeen
    <2>. QED BY <2>1 DEF MarkCoversSeen
  <1>3. ReadIsSeen'
    BY DEF ReadInv, ReadIsSeen, Passed, SentOn, marks
  <1>. QED BY <1>1, <1>2, <1>3 DEF ReadInv

\* A request that begins; one that marks has been given what it covers.
LEMMA BeginsRead ==
  ASSUME ChatConstants, TypeInv, ReadInv,
         UNCHANGED <<message, given, answered, rows, seen, marks, hurried>>,
         NEW h \in Handlers, NEW m \in Members, NEW p \in Processes,
         NEW stage \in {"sending", "marking", "emptying"}, NEW i \in Ids \union {None},
         Begin(h, m, p, stage, i),
         stage = "marking" /\ i # None =>
            /\ i \in seen[m] /\ message[i].sender # m
            /\ \A j \in rows \intersect answered :
                  j <= i /\ message[j].sender # m => j \in seen[m]
  PROVE  ReadInv'
  <1>1. /\ txn'[h].stage = stage /\ txn'[h].by = m /\ txn'[h].id = i
        /\ \A g \in Handlers \ {h} : txn'[g] = txn[g]
    BY Begun
  <1>2. Senders'
    BY DEF ReadInv, Senders
  <1>3. MarkCoversSeen'
    <2>1. ASSUME NEW g \in Handlers, txn'[g].stage = "marking", txn'[g].id # None
          PROVE  /\ txn'[g].id \in seen[txn'[g].by] /\ message[txn'[g].id].sender # txn'[g].by
                 /\ \A j \in rows \intersect answered :
                       j <= txn'[g].id /\ message[j].sender # txn'[g].by =>
                          j \in seen[txn'[g].by] \union hurried
      <3>1. CASE g = h
        BY <1>1, <2>1, <3>1
      <3>2. CASE g # h
        BY <1>1, <2>1, <3>2 DEF ReadInv, MarkCoversSeen
      <3>. QED BY <3>1, <3>2
    <2>. QED BY <2>1 DEF MarkCoversSeen
  <1>4. ReadIsSeen'
    BY DEF ReadInv, ReadIsSeen, Passed, SentOn, marks
  <1>. QED BY <1>2, <1>3, <1>4 DEF ReadInv

LEMMA InsertRead ==
  ASSUME ChatConstants, TypeInv, ReadInv, NEW h \in Handlers, Insert(h), room # "gone"
  PROVE  ReadInv'
  <1>. DEFINE new == given + 1
  <1>0. /\ given \in Nat /\ given < MaxMessages /\ given' = new /\ MaxMessages \in Nat
        /\ message \in [Ids -> [sender: Members \union {None}, read: BOOLEAN]]
        /\ message' = [message EXCEPT ![new] = [sender |-> txn[h].by, read |-> FALSE]]
        /\ txn \in [Handlers -> Place]
        /\ txn' = [txn EXCEPT ![h].stage = "inserted", ![h].id = new]
        /\ txn[h].stage = "sending"
        /\ UNCHANGED <<rows, seen, answered, blind, hurried>>
    <2>1. /\ given \in Nat /\ MaxMessages \in Nat /\ txn \in [Handlers -> Place]
          /\ message \in [Ids -> [sender: Members \union {None}, read: BOOLEAN]]
      BY Bounds DEF TypeInv, TypeOK, Place
    <2>2. /\ given < MaxMessages /\ given' = new
          /\ message' = [message EXCEPT ![given'] = [sender |-> txn[h].by, read |-> FALSE]]
          /\ txn' = [txn EXCEPT ![h].stage = "inserted", ![h].id = given']
          /\ txn[h].stage = "sending"
          /\ UNCHANGED <<rows, seen, answered, blind, hurried>>
      BY DEF Insert, clients, marks
    <2>. QED BY <2>1, <2>2
  <1>1. /\ 1..new = 1..given \union {new} /\ new \in Ids /\ new \notin 1..given
        /\ 1..given \subseteq Ids /\ rows \subseteq 1..given /\ answered \subseteq 1..given
    BY <1>0 DEF Ids, TypeInv, TypeOK
  <1>2. /\ message'[new].sender = txn[h].by /\ ~message'[new].read
        /\ \A i \in 1..given : message'[i] = message[i]
    BY <1>0, <1>1
  <1>3. /\ txn'[h].stage = "inserted"
        /\ \A g \in Handlers \ {h} : txn'[g] = txn[g]
    BY <1>0 DEF Place
  <1>4. txn[h].by \in Members /\ \A g \in Handlers : txn[g].stage # "idle" => txn[g].by \in Members
    BY <1>0 DEF TypeInv, UnderWay
  <1>5. Senders'
    BY <1>0, <1>1, <1>2, <1>4 DEF ReadInv, Senders
  <1>6. MarkCoversSeen'
    <2>1. ASSUME NEW g \in Handlers, txn'[g].stage = "marking", txn'[g].id # None
          PROVE  /\ txn'[g].id \in seen[txn'[g].by] /\ message'[txn'[g].id].sender # txn'[g].by
                 /\ \A j \in rows \intersect answered :
                       j <= txn'[g].id /\ message'[j].sender # txn'[g].by =>
                          j \in seen[txn'[g].by] \union hurried
      <3>1. g # h /\ txn'[g] = txn[g] /\ txn[g].by \in Members
        BY <1>3, <1>4, <2>1
      <3>2. seen[txn[g].by] \subseteq 1..given
        BY <3>1 DEF TypeInv, TypeOK
      <3>. QED BY <1>1, <1>2, <2>1, <3>1, <3>2 DEF ReadInv, MarkCoversSeen
    <2>. QED BY <1>0, <2>1 DEF MarkCoversSeen
  <1>7. ReadIsSeen'
    <2>1. ASSUME NEW i \in 1..new, NEW m \in Members, message'[i].read, message'[i].sender # m,
                 i \notin seen[m] \union blind \union hurried
          PROVE  Passed(i)'
      <3>1. i \in 1..given /\ i # new
        BY <1>1, <1>2, <2>1
      <3>2. Passed(i)
        BY <1>2, <2>1, <3>1 DEF ReadInv, ReadIsSeen
      <3>. QED BY <1>0, <1>1, <1>2, <3>1, <3>2 DEF Passed, SentOn
    <2>. QED BY <1>0, <2>1 DEF ReadIsSeen
  <1>. QED BY <1>5, <1>6, <1>7 DEF ReadInv

LEMMA CommitRead ==
  ASSUME ChatConstants, TypeInv, ReadInv, NEW h \in Handlers, Commit(h)
  PROVE  ReadInv'
  <1>1. /\ txn'[h].stage = "saved" /\ txn[h].stage = "inserted"
        /\ \A g \in Handlers \ {h} : txn'[g] = txn[g]
    BY WentOn DEF Commit
  <1>2. /\ rows' = rows \union {txn[h].id} /\ txn[h].id \notin answered
        /\ UNCHANGED <<message, given, answered, seen, blind, hurried>>
    BY <1>1 DEF Commit, TypeInv, UnderWay, Pending, clients, marks
  <1>3. Senders'
    BY <1>2 DEF ReadInv, Senders
  <1>4. MarkCoversSeen'
    <2>1. \A g \in Handlers : txn'[g].stage = "marking" => txn'[g] = txn[g]
      BY <1>1
    <2>2. rows' \intersect answered' = rows \intersect answered
      BY <1>2
    <2>. QED BY <1>2, <2>1, <2>2 DEF ReadInv, MarkCoversSeen
  <1>5. ReadIsSeen'
    BY <1>2 DEF ReadInv, ReadIsSeen, Passed, SentOn
  <1>. QED BY <1>3, <1>4, <1>5 DEF ReadInv

\* The answer comes before or after the sender's next message: a message that a
\* mark covers is the one it names, or is hurried.
LEMMA EmitRead ==
  ASSUME ChatConstants, TwoMembers, TypeInv, ReadInv, NEW h \in Handlers, EmitMessageCreated(h)
  PROVE  ReadInv'
  <1>0. /\ given \in Nat /\ seen \in [Members -> SUBSET (1..given)]
        /\ \A g \in Handlers : UnderWay(g)
    BY DEF TypeInv, TypeOK
  <1>1. /\ txn[h].stage = "saved" /\ txn'[h].stage = "idle"
        /\ \A g \in Handlers \ {h} : txn'[g] = txn[g]
    BY Ended DEF EmitMessageCreated
  <1>2. /\ answered' = answered \union {txn[h].id}
        /\ hurried \subseteq hurried' /\ (SentOn(txn[h].id) => txn[h].id \in hurried')
        /\ \A m \in Members : seen[m] \subseteq seen'[m]
        /\ UNCHANGED <<message, given, rows, blind>>
    BY DEF EmitMessageCreated, table, marks
  <1>3. /\ txn[h].id \in 1..given /\ txn[h].by \in Members
        /\ message[txn[h].id].sender = txn[h].by
    BY <1>0, <1>1 DEF UnderWay, Pending
  <1>4. Senders'
    BY <1>2 DEF ReadInv, Senders
  <1>5. MarkCoversSeen'
    <2>1. ASSUME NEW g \in Handlers, txn'[g].stage = "marking", txn'[g].id # None
          PROVE  LET m == txn'[g].by
                     k == txn'[g].id
                 IN  /\ k \in seen'[m] /\ message[k].sender # m
                     /\ \A i \in rows \intersect answered' :
                           i <= k /\ message[i].sender # m => i \in seen'[m] \union hurried'
      <3>. DEFINE m == txn[g].by
                  k == txn[g].id
      <3>1. g # h /\ txn'[g] = txn[g] /\ m \in Members
        BY <1>0, <1>1, <2>1 DEF UnderWay
      <3>2. /\ k \in seen[m] /\ message[k].sender # m
            /\ \A i \in rows \intersect answered :
                  i <= k /\ message[i].sender # m => i \in seen[m] \union hurried
        BY <2>1, <3>1 DEF ReadInv, MarkCoversSeen
      <3>3. k \in 1..given
        BY <1>0, <3>1, <3>2
      <3>4. ASSUME txn[h].id <= k, message[txn[h].id].sender # m, txn[h].id # k
            PROVE  SentOn(txn[h].id)
        <4>1. message[k].sender = message[txn[h].id].sender
          BY <1>3, <3>1, <3>2, <3>3, <3>4, OtherMember DEF ReadInv, Senders
        <4>2. k > txn[h].id
          BY <1>0, <1>3, <3>3, <3>4
        <4>. QED BY <3>3, <4>1, <4>2 DEF SentOn
      <3>. HIDE DEF m, k
      <3>5. \A i \in rows \intersect answered' :
               i <= k /\ message[i].sender # m => i \in seen'[m] \union hurried'
        BY <1>2, <3>1, <3>2, <3>4
      <3>. QED BY <1>2, <3>1, <3>2, <3>5 DEF m, k
    <2>. QED BY <1>2, <2>1 DEF MarkCoversSeen
  <1>6. ReadIsSeen'
    <2>1. ASSUME NEW i \in 1..given, NEW m \in Members, message[i].read, message[i].sender # m,
                 i \notin seen'[m] \union blind \union hurried'
          PROVE  Passed(i)'
      <3>1. Passed(i)
        BY <1>2, <2>1 DEF ReadInv, ReadIsSeen
      <3>2. i # txn[h].id
        BY <1>2, <2>1, <3>1 DEF Passed
      <3>. QED BY <1>2, <3>1, <3>2 DEF Passed, SentOn
    <2>. QED BY <1>2, <2>1 DEF ReadIsSeen
  <1>. QED BY <1>4, <1>5, <1>6 DEF ReadInv

LEMMA MarkRead ==
  ASSUME ChatConstants, TwoMembers, TypeInv, ReadInv, NEW h \in Handlers, MarkAsRead(h)
  PROVE  ReadInv'
  <1>0. /\ given \in Nat /\ given <= MaxMessages /\ seen \in [Members -> SUBSET (1..given)]
        /\ message \in [Ids -> [sender: Members \union {None}, read: BOOLEAN]]
        /\ rows \subseteq 1..given /\ 1..given \subseteq Ids
        /\ \A g \in Handlers : UnderWay(g)
    BY Bounds DEF TypeInv, TypeOK, Ids
  <1>1. /\ txn[h].stage = "marking" /\ txn'[h].stage = "idle"
        /\ \A g \in Handlers \ {h} : txn'[g] = txn[g]
    BY Ended DEF MarkAsRead
  <1>2. /\ UNCHANGED <<rows, given, seen, answered, hurried>>
        /\ blind \subseteq blind' /\ (txn[h].id = None => Marked(txn[h]) \subseteq blind')
    BY DEF MarkAsRead, clients
  <1>3. /\ \A i \in 1..given : message'[i].sender = message[i].sender
        /\ \A i \in 1..given : message'[i].read => message[i].read \/ i \in Marked(txn[h])
    BY <1>0 DEF MarkAsRead
  <1>4. Senders'
    BY <1>2, <1>3 DEF ReadInv, Senders
  <1>5. MarkCoversSeen'
    <2>1. ASSUME NEW g \in Handlers, txn'[g].stage = "marking", txn'[g].id # None
          PROVE  /\ txn'[g].id \in seen[txn'[g].by] /\ message'[txn'[g].id].sender # txn'[g].by
                 /\ \A j \in rows \intersect answered :
                       j <= txn'[g].id /\ message'[j].sender # txn'[g].by =>
                          j \in seen[txn'[g].by] \union hurried
      <3>1. g # h /\ txn'[g] = txn[g] /\ txn[g].by \in Members
        BY <1>0, <1>1, <2>1 DEF UnderWay
      <3>2. txn[g].id \in 1..given
        BY <1>0, <2>1, <3>1 DEF ReadInv, MarkCoversSeen
      <3>. QED BY <1>0, <1>3, <2>1, <3>1, <3>2 DEF ReadInv, MarkCoversSeen
    <2>. QED BY <1>2, <2>1 DEF MarkCoversSeen
  <1>6. ReadIsSeen'
    <2>1. ASSUME NEW i \in 1..given, NEW m \in Members, message'[i].read, message[i].sender # m
          PROVE  i \in seen[m] \union blind' \union hurried \/ Passed(i)
      <3>1. CASE message[i].read
        BY <1>2, <2>1, <3>1 DEF ReadInv, ReadIsSeen
      <3>2. CASE i \in Marked(txn[h]) /\ txn[h].id = None
        BY <1>2, <3>2
      <3>3. CASE i \in Marked(txn[h]) /\ txn[h].id # None
        <4>. DEFINE by == txn[h].by
                    k == txn[h].id
        <4>1. /\ by \in Members /\ k \in seen[by] /\ message[k].sender # by
              /\ \A j \in rows \intersect answered :
                    j <= k /\ message[j].sender # by => j \in seen[by] \union hurried
          BY <1>0, <1>1, <3>3 DEF ReadInv, MarkCoversSeen, UnderWay
        <4>2. k \in 1..given
          BY <1>0, <4>1
        <4>3. i \in rows /\ message[i].sender # by /\ i <= k
          BY <3>3 DEF Marked, Unread
        <4>4. message[i].sender \in Members /\ message[k].sender \in Members
          BY <4>2 DEF ReadInv, Senders
        <4>5. m = by /\ message[i].sender = message[k].sender
          BY <2>1, <4>1, <4>3, <4>4, OtherMember
        <4>. HIDE DEF by, k
        <4>6. CASE i \in answered \/ i = k
          BY <4>1, <4>3, <4>5, <4>6
        <4>7. CASE i \notin answered /\ i # k
          <5>1. k > i
            BY <1>0, <4>2, <4>3, <4>7
          <5>. QED BY <4>2, <4>5, <4>7, <5>1 DEF Passed, SentOn
        <4>. QED BY <4>6, <4>7
      <3>. QED BY <1>3, <2>1, <3>1, <3>2, <3>3
    <2>2. \A i \in 1..given : Passed(i) => Passed(i)'
      BY <1>2, <1>3 DEF Passed, SentOn
    <2>. QED BY <1>2, <1>3, <2>1, <2>2 DEF ReadIsSeen
  <1>. QED BY <1>4, <1>5, <1>6 DEF ReadInv

LEMMA ReadStep ==
  ASSUME ChatConstants, TwoMembers
  PROVE  TypeInv /\ FollowInv /\ ReadInv /\ [Next]_vars => ReadInv'
  <1>. SUFFICES ASSUME TypeInv, FollowInv, ReadInv, [Next]_vars PROVE ReadInv'
    OBVIOUS
  <1>0. /\ \A m \in Members : seen[m] \subseteq 1..given
        /\ given \in Nat /\ given <= MaxMessages /\ MaxMessages \in Nat
    BY Bounds DEF TypeInv, TypeOK
  <1>1. ASSUME NEW h \in Handlers, NEW m \in Members, NEW p \in Processes,
               Send(h, m, p) \/ DeleteFind(h, m, p)
        PROVE  ReadInv'
    <2>1. /\ Begin(h, m, p, "sending", None) \/ Begin(h, m, p, "emptying", None)
          /\ UNCHANGED <<message, given, answered, rows, seen, marks, hurried>>
      BY <1>1 DEF Send, DeleteFind, table, clients
    <2>. QED BY <2>1, BeginsRead
  <1>2. ASSUME NEW h \in Handlers, NEW m \in Members, NEW p \in Processes, MarkFind(h, m, p)
        PROVE  ReadInv'
    <2>0. UNCHANGED <<message, given, answered, rows, seen, marks, hurried>>
      BY <1>2 DEF MarkFind, table, clients
    <2>1. CASE Begin(h, m, p, "marking", None)
      BY <2>0, <2>1, BeginsRead
    <2>2. CASE Readable(m) # {} /\ cursor[m] = Whole /\ Begin(h, m, p, "marking", Max(Readable(m)))
      <3>. DEFINE k == Max(Readable(m))
      <3>1. Readable(m) \in SUBSET Ids
        BY <1>0 DEF Readable, Ids
      <3>2. k \in Readable(m)
        BY <2>2, <3>1, IdsAreFinite, IdsAreNumbers, MaxIsMax
      <3>3. k \in Ids /\ k \in seen[m] /\ message[k].sender # m
        BY <3>1, <3>2 DEF Readable
      <3>4. \A j \in rows \intersect answered : j \in seen[m]
        BY <1>0, <2>2 DEF FollowInv, Whole, TypeInv, TypeOK
      <3>. HIDE DEF k
      <3>5. Begin(h, m, p, "marking", k)
        BY <2>2 DEF k
      <3>. QED BY <2>0, <3>3, <3>4, <3>5, BeginsRead
    <2>. QED BY <1>2, <2>1, <2>2 DEF MarkFind
  <1>3. ASSUME NEW h \in Handlers, Insert(h), room # "gone" PROVE ReadInv'
    BY <1>3, InsertRead
  <1>4. ASSUME NEW h \in Handlers,
               (Insert(h) /\ room = "gone") \/ DeleteRoom(h) \/ Interrupt(h)
        PROVE  ReadInv'
    <2>1. Done(h) /\ UNCHANGED <<message, given, answered, rows, seen, marks, hurried>>
      BY <1>4 DEF Insert, DeleteRoom, Interrupt, table, clients
    <2>2. /\ txn'[h].stage = "idle"
          /\ \A g \in Handlers \ {h} : txn'[g] = txn[g]
      BY <2>1, Ended
    <2>. QED BY <2>1, <2>2, StaysRead
  <1>5. ASSUME NEW h \in Handlers, DeleteMessages(h) PROVE ReadInv'
    <2>1. /\ txn'[h].stage = "removing"
          /\ \A g \in Handlers \ {h} : txn'[g] = txn[g]
          /\ rows' = {} /\ UNCHANGED <<message, given, answered, seen, marks, hurried>>
      BY <1>5, WentOn DEF DeleteMessages, clients
    <2>. QED BY <2>1, StaysRead
  <1>6. ASSUME NEW m \in Members,
               \/ Join(m) \/ Leave(m) \/ Disconnect(m) \/ GetMessages(m)
               \/ \E p \in Processes : Connect(m, p)
        PROVE  ReadInv'
    <2>1. /\ UNCHANGED <<txn, message, given, answered, rows, marks, hurried>>
          /\ \A n \in Members : seen[n] \subseteq seen'[n]
      BY <1>6 DEF Join, Leave, Disconnect, GetMessages, Connect, table, TypeInv, TypeOK
    <2>. QED BY <2>1, StaysRead
  <1>7. ASSUME Close \/ UNCHANGED vars PROVE ReadInv'
    <2>1. UNCHANGED <<txn, message, given, answered, rows, seen, marks, hurried>>
      BY <1>7 DEF Close, vars, table, clients, marks
    <2>. QED BY <2>1, StaysRead
  <1>8. ASSUME NEW h \in Handlers, Commit(h) \/ EmitMessageCreated(h) \/ MarkAsRead(h)
        PROVE  ReadInv'
    BY <1>8, CommitRead, EmitRead, MarkRead
  <1>. QED BY <1>1, <1>2, <1>3, <1>4, <1>5, <1>6, <1>7, <1>8 DEF Next

\* A message that is marked as read was given to its receiver, unless the mark
\* named no message or the sender had sent on before the answer.
THEOREM MarksCoverTheSeen == ASSUME ChatConstants, OneServer, TwoMembers PROVE Spec => []ReadWasSeen
  <1>1. Init => TypeInv /\ FollowInv /\ ReadInv
    BY TypeInit, FollowInit, ReadInit
  <1>2. TypeInv /\ FollowInv /\ ReadInv /\ [Next]_vars => (TypeInv /\ FollowInv /\ ReadInv)'
    BY TypeStep, FollowStep, ReadStep
  <1>3. TypeInv /\ FollowInv /\ ReadInv => ReadWasSeen
    <2>. SUFFICES ASSUME TypeInv, ReadInv, NEW i \in answered, NEW m \in Members,
                         message[i].read, message[i].sender # m
                  PROVE  i \in seen[m] \union blind \union hurried
      BY DEF ReadWasSeen
    <2>1. i \in 1..given
      BY DEF TypeInv, TypeOK
    <2>. QED BY <2>1 DEF ReadInv, ReadIsSeen, Passed
  <1>. QED BY <1>1, <1>2, <1>3, PTL DEF Spec

=============================================================================
