--------------------------- MODULE ServicesProofs ---------------------------
(***************************************************************************)
(* Theorems about the tables administrators keep, with the rows that are   *)
(* seeded at the start of a process, about the settings of members, and    *)
(* about the list of chat rooms a client shows.                            *)
(***************************************************************************)
EXTENDS Services, FiniteSetTheorems, FunctionTheorems, SequenceTheorems, TLAPS

-----------------------------------------------------------------------------
\* The tables of administrators.

\* There are finitely many default rows, and null is no id and no row.
CatalogConstants ==
    /\ IsFiniteSet(DefaultProducts) /\ DefaultProducts \subseteq Keys
    /\ IsFiniteSet(DefaultTerms) /\ DefaultTerms \subseteq Keys
    /\ Texts # {} /\ MaxRows \in Nat /\ MaxStarts \in Nat
    /\ None \notin Nat /\ None \notin Row

\* What a record holds at each stage: the row it is about has existed.
Record(t) ==
    /\ t.stage = "idle" => t = Idle
    /\ t.id # None => t.id \in DOMAIN answered
    /\ t.stage \in {"checking", "saving", "updating", "removing"} => t.id # None
    /\ t.stage \in {"checking", "saving", "updating", "inserting"} => t.entity \in Row
    /\ t.stage = "checking" => t.dto \in Dto

\* The rows, their ids and those that have been answered.
Tables ==
    /\ \E ids \in SUBSET Ids : rows \in [ids -> Row]
    /\ nextId \in 1..(MaxRows + 1)
    /\ DOMAIN rows \subseteq DOMAIN answered
    /\ DOMAIN answered \subseteq 1..(nextId - 1)

Servers ==
    servers \in [Processes -> [stage: {"off", "finding", "seeding", "up"},
                               missing: SUBSET Defaults, starts: 0..MaxStarts]]

CatalogInv ==
    /\ table \in {"product", "term", "notice"}
    /\ Tables /\ Servers
    /\ txn \in [Handlers -> Transaction]
    /\ \A h \in Handlers : Record(txn[h])

LEMMA CatalogTypes ==
    ASSUME CatalogInv
    PROVE  TypeOK
  <1>1. \A h \in Handlers : txn[h].stage \in {"saving", "updating", "inserting"} =>
            txn[h].entity \in Row
    BY DEF CatalogInv, Record
  <1>2. QED
    BY <1>1 DEF CatalogInv, Tables, Servers, TypeOK

LEMMA CatalogIdle == Idle \in Transaction /\ Record(Idle)
  <1>1. PICK t : t = Idle
    OBVIOUS
  <1>2. t \in Transaction /\ t.stage = "idle" /\ t.id = None
    BY <1>1 DEF Idle, Transaction
  <1>3. Record(t)
    BY <1>1, <1>2 DEF Record
  <1>4. QED
    BY <1>1, <1>2, <1>3

\* An entity with the columns that a request changes.
LEMMA MergedRow ==
    ASSUME NEW row \in Row, NEW dto \in Dto, CatalogConstants
    PROVE  /\ Merged(row, dto) \in Row
           /\ dto.key # None => Merged(row, dto).key = dto.key
           /\ dto.key = None => Merged(row, dto).key = row.key
  <1> DEFINE m == Merged(row, dto)
  <1>1. DOMAIN row = {"key", "text", "active"}
    BY DEF Row
  <1>2. /\ m.key = IF dto.key = None THEN row.key ELSE dto.key
        /\ m.text = IF dto.text = None THEN row.text ELSE dto.text
        /\ m.active = IF dto.active = None THEN row.active ELSE dto.active
    BY <1>1 DEF Merged
  <1>3. m = [key |-> m.key, text |-> m.text, active |-> m.active]
    BY <1>1 DEF Merged
  <1>4. m.key \in Keys /\ m.text \in Texts
    BY <1>2 DEF Row, Dto
  <1>5. m.active \in BOOLEAN
    BY <1>2 DEF Row, Dto
  <1>6. m \in Row
    BY <1>3, <1>4, <1>5 DEF Row
  <1>7. QED
    BY <1>2, <1>6

\* The row after an UPDATE of the columns that differ is the entity.
LEMMA WrittenRow ==
    ASSUME NEW entity \in Row, NEW row \in Row, NEW columns
    PROVE  /\ Written(entity, row, columns) \in Row
           /\ columns = Changed(entity, row) => Written(entity, row, columns) = entity
  <1> DEFINE w == Written(entity, row, columns)
  <1>1. DOMAIN row = {"key", "text", "active"} /\ DOMAIN entity = DOMAIN row
    BY DEF Row
  <1>2. /\ w.key = IF "key" \in columns THEN entity.key ELSE row.key
        /\ w.text = IF "text" \in columns THEN entity.text ELSE row.text
        /\ w.active = IF "active" \in columns THEN entity.active ELSE row.active
    BY <1>1 DEF Written
  <1>3. w = [key |-> w.key, text |-> w.text, active |-> w.active]
    BY <1>1 DEF Written
  <1>4. w \in Row
    BY <1>2, <1>3 DEF Row
  <1>5. ASSUME columns = Changed(entity, row)
        PROVE  w = entity
    <2>1. \A c \in DOMAIN row : w[c] = entity[c]
      BY <1>5 DEF Written, Changed
    <2>2. entity = [c \in DOMAIN row |-> entity[c]]
      BY <1>1 DEF Row
    <2>3. w = [c \in DOMAIN row |-> w[c]]
      BY DEF Written
    <2>4. QED
      BY <2>1, <2>2, <2>3
  <1>6. QED
    BY <1>4, <1>5

\* A step of one handler.
LEMMA CatalogAfter ==
    ASSUME CatalogInv, NEW h \in Handlers, NEW next \in Transaction,
           txn' = [txn EXCEPT ![h] = next], Record(next)',
           Tables', DOMAIN answered \subseteq DOMAIN answered', UNCHANGED <<table, servers>>
    PROVE  CatalogInv'
  <1>1. /\ txn' \in [Handlers -> Transaction] /\ txn'[h] = next
        /\ \A g \in Handlers \ {h} : txn'[g] = txn[g]
    BY DEF CatalogInv
  <1>2. Servers'
    BY DEF CatalogInv, Servers, Defaults
  <1>3. ASSUME NEW g \in Handlers
        PROVE  Record(txn[g])'
    <2>1. CASE g = h
      BY <1>1, <2>1 DEF Record
    <2>2. CASE g # h
      <3>1. Record(txn[g]) /\ txn'[g] = txn[g]
        BY <1>1, <2>2 DEF CatalogInv
      <3>2. QED
        BY <3>1 DEF Record
    <2>3. QED
      BY <2>1, <2>2
  <1>4. QED
    BY <1>1, <1>2, <1>3 DEF CatalogInv

\* A step that leaves the rows alone.
LEMMA CatalogQuiet ==
    ASSUME CatalogInv, NEW h \in Handlers, NEW next \in Transaction,
           txn' = [txn EXCEPT ![h] = next], Record(next),
           UNCHANGED <<table, rows, nextId, servers, answered>>
    PROVE  CatalogInv'
  <1>1. Tables'
    BY DEF CatalogInv, Tables
  <1>2. Record(next)'
    BY DEF Record
  <1>3. QED
    BY <1>1, <1>2, CatalogAfter

\* A row is there and was answered.
LEMMA CatalogRow ==
    ASSUME CatalogInv, CatalogConstants, NEW id \in DOMAIN rows
    PROVE  rows[id] \in Row /\ id \in DOMAIN answered /\ id \in Ids /\ id # None
  <1>1. PICK ids \in SUBSET Ids : rows \in [ids -> Row]
    BY DEF CatalogInv, Tables
  <1>2. QED
    BY <1>1 DEF CatalogInv, Tables, CatalogConstants, Ids

\* createCoinProduct, createTerm and create of a notice, before the INSERT.
LEMMA CreatingMoves ==
    ASSUME CatalogInv, CatalogConstants, NEW h \in Handlers, NEW k \in Keys, NEW t \in Texts,
           NEW active \in BOOLEAN, Creating(h, k, t, active)
    PROVE  \E next \in Transaction :
              /\ txn' = [txn EXCEPT ![h] = next] /\ Record(next)
              /\ next.stage = "inserting" /\ next.id = None
              /\ next.entity \in Row /\ next.entity.key = k
  <1>1. PICK row \in Row : row = [key |-> k, text |-> t, active |-> active]
    BY DEF Row
  <1>2. PICK next \in Transaction :
            next = [Idle EXCEPT !.stage = "inserting", !.entity = row]
    BY <1>1 DEF Idle, Transaction
  <1>3. next.stage = "inserting" /\ next.id = None /\ next.entity = row /\ row.key = k
    BY <1>1, <1>2 DEF Idle
  <1>4. txn' = [txn EXCEPT ![h] = next]
    BY <1>1, <1>2 DEF Creating, Goto
  <1>5. Record(next)
    BY <1>3 DEF Record
  <1>6. QED
    BY <1>3, <1>4, <1>5

\* updateCoinProduct, updateTerm and update of a notice have found the row.
LEMMA UpdatingMoves ==
    ASSUME CatalogInv, CatalogConstants, NEW h \in Handlers, NEW id \in Ids, NEW dto \in Dto,
           NEW checks \in BOOLEAN, Updating(h, id, dto, checks)
    PROVE  /\ id \in DOMAIN rows
           /\ \E next \in Transaction :
              /\ txn' = [txn EXCEPT ![h] = next] /\ Record(next)
              /\ next.stage = IF checks THEN "checking" ELSE "saving"
              /\ next.id = id /\ next.dto = dto
              /\ next.entity = IF checks THEN rows[id] ELSE Merged(rows[id], dto)
  <1>1. id \in DOMAIN rows
    BY DEF Updating
  <1>2. rows[id] \in Row /\ id \in DOMAIN answered /\ id # None
    BY <1>1, CatalogRow
  <1>3. PICK e \in Row : e = IF checks THEN rows[id] ELSE Merged(rows[id], dto)
    BY <1>2, MergedRow
  <1>4. PICK next \in Transaction :
            next = [Idle EXCEPT !.stage = IF checks THEN "checking" ELSE "saving",
                                !.id = id, !.entity = e, !.dto = dto]
    BY <1>3 DEF Idle, Transaction
  <1>5. /\ next.stage = IF checks THEN "checking" ELSE "saving"
        /\ next.id = id /\ next.entity = e /\ next.dto = dto
    BY <1>4 DEF Idle
  <1>6. txn' = [txn EXCEPT ![h] = next]
    BY <1>3, <1>4 DEF Updating, Goto
  <1>7. Record(next)
    BY <1>2, <1>5 DEF Record
  <1>8. QED
    BY <1>1, <1>3, <1>5, <1>6, <1>7

\* updateCoinProduct may go on with the amount.
LEMMA UpdateCheckMoves ==
    ASSUME CatalogInv, CatalogConstants, NEW h \in Handlers, UpdateCheck(h)
    PROVE  /\ txn[h].stage = "checking"
           /\ \/ txn' = [txn EXCEPT ![h] = Idle]
              \/ /\ MayTake(txn[h].dto.key, txn[h].id)
                 /\ \E next \in Transaction :
                       /\ txn' = [txn EXCEPT ![h] = next] /\ Record(next)
                       /\ next.stage = "saving" /\ next.id = txn[h].id
                       /\ txn[h].dto.key # None => next.entity.key = txn[h].dto.key
  <1>1. PICK t \in Transaction : t = txn[h]
    BY DEF CatalogInv
  <1>2. t.stage = "checking" /\ Record(t)
    BY <1>1 DEF UpdateCheck, CatalogInv
  <1>3. t.id # None /\ t.id \in DOMAIN answered /\ t.entity \in Row /\ t.dto \in Dto
    BY <1>2 DEF Record
  <1>4. PICK e \in Row : e = Merged(t.entity, t.dto)
    BY <1>3, MergedRow
  <1>5. t.dto.key # None => e.key = t.dto.key
    BY <1>3, <1>4, MergedRow
  <1>6. PICK next \in Transaction : next = [t EXCEPT !.stage = "saving", !.entity = e]
    BY <1>4 DEF Transaction
  <1>7. next.stage = "saving" /\ next.id = t.id /\ next.entity = e
    BY <1>1, <1>6 DEF Transaction
  <1>8. Record(next)
    BY <1>3, <1>7 DEF Record
  <1>9. \/ txn' = [txn EXCEPT ![h] = Idle]
        \/ MayTake(t.dto.key, t.id) /\ txn' = [txn EXCEPT ![h] = next]
    BY <1>1, <1>4, <1>6 DEF UpdateCheck, Done, Goto
  <1>10. QED
    BY <1>1, <1>2, <1>5, <1>7, <1>8, <1>9

\* save has read the row again.
LEMMA SaveSelectMoves ==
    ASSUME CatalogInv, CatalogConstants, NEW h \in Handlers, SaveSelect(h)
    PROVE  /\ txn[h].stage = "saving"
           /\ \E next \in Transaction :
                 /\ txn' = [txn EXCEPT ![h] = next] /\ Record(next)
                 /\ next.id = txn[h].id /\ next.entity = txn[h].entity
                 /\ IF txn[h].id \in DOMAIN rows
                    THEN /\ next.stage = "updating"
                         /\ next.columns = Changed(txn[h].entity, rows[txn[h].id])
                    ELSE next.stage = "inserting"
  <1>1. PICK t \in Transaction : t = txn[h]
    BY DEF CatalogInv
  <1>2. t.stage = "saving" /\ Record(t)
    BY <1>1 DEF SaveSelect, CatalogInv
  <1>3. t.id # None /\ t.id \in DOMAIN answered /\ t.entity \in Row
    BY <1>2 DEF Record
  <1>4. CASE t.id \in DOMAIN rows
    <2>1. PICK row \in Row : row = rows[t.id]
      BY <1>4, CatalogRow
    <2>2. PICK C \in SUBSET {"key", "text", "active"} : C = Changed(t.entity, row)
      BY <2>1 DEF Changed, Row
    <2>3. PICK next \in Transaction : next = [t EXCEPT !.stage = "updating", !.columns = C]
      BY <2>2 DEF Transaction
    <2>4. /\ next.stage = "updating" /\ next.id = t.id /\ next.entity = t.entity
          /\ next.columns = C
      BY <2>3 DEF Transaction
    <2>5. txn' = [txn EXCEPT ![h] = next]
      BY <1>1, <1>4, <2>1, <2>2, <2>3 DEF SaveSelect, Goto
    <2>6. Record(next)
      BY <1>3, <2>4 DEF Record
    <2>7. QED
      BY <1>1, <1>2, <1>4, <2>1, <2>2, <2>4, <2>5, <2>6
  <1>5. CASE t.id \notin DOMAIN rows
    <2>1. PICK next \in Transaction : next = [t EXCEPT !.stage = "inserting"]
      BY DEF Transaction
    <2>2. next.stage = "inserting" /\ next.id = t.id /\ next.entity = t.entity
      BY <2>1 DEF Transaction
    <2>3. txn' = [txn EXCEPT ![h] = next]
      BY <1>1, <1>5, <2>1 DEF SaveSelect, Goto
    <2>4. Record(next)
      BY <1>3, <2>2 DEF Record
    <2>5. QED
      BY <1>1, <1>2, <1>5, <2>2, <2>3, <2>4
  <1>6. QED
    BY <1>4, <1>5

\* removeTerm and remove of a notice have found the row.
LEMMA RemovingMoves ==
    ASSUME CatalogInv, CatalogConstants, NEW h \in Handlers, NEW id \in Ids, Removing(h, id)
    PROVE  /\ id \in DOMAIN rows
           /\ \E next \in Transaction :
                 /\ txn' = [txn EXCEPT ![h] = next] /\ Record(next)
                 /\ next.stage = "removing" /\ next.id = id
  <1>1. id \in DOMAIN rows
    BY DEF Removing
  <1>2. id \in DOMAIN answered /\ id # None
    BY <1>1, CatalogRow
  <1>3. PICK next \in Transaction : next = [Idle EXCEPT !.stage = "removing", !.id = id]
    BY DEF Idle, Transaction
  <1>4. next.stage = "removing" /\ next.id = id
    BY <1>3 DEF Idle
  <1>5. Record(next)
    BY <1>2, <1>4 DEF Record
  <1>6. QED
    BY <1>1, <1>3, <1>4, <1>5 DEF Removing, Goto

\* The row after the UPDATE, or none.
LEMMA SaveUpdateRows ==
    ASSUME CatalogInv, CatalogConstants, NEW h \in Handlers, SaveUpdate(h),
           NEW t \in Transaction, t = txn[h]
    PROVE  /\ t.stage = "updating" /\ t.id # None /\ t.entity \in Row
           /\ txn' = [txn EXCEPT ![h] = Idle]
           /\ Tables' /\ DOMAIN rows' = DOMAIN rows /\ DOMAIN answered' = DOMAIN answered
           /\ \A i \in DOMAIN rows : i # t.id => rows'[i] = rows[i]
           /\ \A i \in DOMAIN answered : i # t.id => answered'[i] = answered[i]
           /\ t.id \in DOMAIN rows =>
                 /\ rows'[t.id] = Written(t.entity, rows[t.id], t.columns)
                 /\ answered'[t.id] = t.entity
  <1>1. t.stage = "updating" /\ Record(t) /\ txn' = [txn EXCEPT ![h] = Idle] /\ nextId' = nextId
    BY DEF SaveUpdate, Done, Goto, CatalogInv
  <1>2. t.id # None /\ t.id \in DOMAIN answered /\ t.entity \in Row
    BY <1>1 DEF Record
  <1>3. CASE t.id \in DOMAIN rows
    <2>1. PICK row \in Row : row = rows[t.id]
      BY <1>3, CatalogRow
    <2>2. PICK w \in Row : w = Written(t.entity, row, t.columns)
      BY <1>2, <2>1, WrittenRow
    <2>3. /\ rows' = [rows EXCEPT ![t.id] = w]
          /\ answered' = [i \in DOMAIN answered \union {t.id} |->
                             IF i = t.id THEN t.entity ELSE answered[i]]
      BY <1>3, <2>1, <2>2 DEF SaveUpdate, With
    <2>4. DOMAIN rows' = DOMAIN rows /\ DOMAIN answered' = DOMAIN answered
      BY <1>2, <2>3
    <2>5. Tables'
      <3>1. PICK ids \in SUBSET Ids : rows \in [ids -> Row]
        BY DEF CatalogInv, Tables
      <3>2. rows' \in [ids -> Row]
        BY <1>3, <2>3, <3>1
      <3>3. QED
        BY <1>1, <2>4, <3>2 DEF CatalogInv, Tables
    <2>6. QED
      BY <1>1, <1>2, <1>3, <2>1, <2>2, <2>3, <2>4, <2>5
  <1>4. CASE t.id \notin DOMAIN rows
    <2>1. UNCHANGED <<rows, answered>>
      BY <1>4 DEF SaveUpdate
    <2>2. Tables'
      BY <1>1, <2>1 DEF CatalogInv, Tables
    <2>3. QED
      BY <1>1, <1>2, <1>4, <2>1, <2>2
  <1>5. QED
    BY <1>3, <1>4

\* A new row, or an old one once more.
LEMMA InsertRows ==
    ASSUME CatalogInv, CatalogConstants, NEW h \in Handlers, Insert(h),
           NEW t \in Transaction, t = txn[h]
    PROVE  /\ t.stage = "inserting" /\ t.entity \in Row
           /\ txn' = [txn EXCEPT ![h] = Idle]
           /\ Tables' /\ DOMAIN answered \subseteq DOMAIN answered'
           /\ t.id = None =>
                 /\ nextId \notin DOMAIN answered
                 /\ rows' = With(rows, nextId, t.entity)
                 /\ answered' = With(answered, nextId, t.entity)
  <1>1. /\ t.stage = "inserting" /\ Record(t) /\ txn' = [txn EXCEPT ![h] = Idle]
        /\ nextId' = IF t.id = None THEN nextId + 1 ELSE nextId
    BY DEF Insert, Done, Goto, CatalogInv
  <1>2. /\ t.entity \in Row
        /\ t.id # None => t.id \in DOMAIN answered
        /\ nextId \in 1..(MaxRows + 1) /\ MaxRows \in Nat
        /\ DOMAIN rows \subseteq DOMAIN answered /\ DOMAIN answered \subseteq 1..(nextId - 1)
    BY <1>1 DEF Record, CatalogInv, Tables, CatalogConstants
  <1>3. PICK ids \in SUBSET Ids : rows \in [ids -> Row]
    BY DEF CatalogInv, Tables
  <1>4. CASE t.id = None
    <2>1. nextId <= MaxRows /\ nextId \notin DOMAIN answered /\ nextId \notin DOMAIN rows
      BY <1>2, <1>4 DEF Insert
    <2>2. /\ rows' = With(rows, nextId, t.entity)
          /\ answered' = With(answered, nextId, t.entity) /\ nextId' = nextId + 1
      BY <1>1, <1>4, <2>1 DEF Insert
    <2>3. /\ DOMAIN rows' = DOMAIN rows \union {nextId}
          /\ DOMAIN answered' = DOMAIN answered \union {nextId}
      BY <2>2 DEF With
    <2>4. rows' \in [ids \union {nextId} -> Row] /\ ids \union {nextId} \in SUBSET Ids
      <3>1. nextId \in Ids
        BY <1>2, <2>1 DEF Ids
      <3>2. DOMAIN rows = ids
        BY <1>3
      <3>3. rows' = [i \in ids \union {nextId} |-> IF i = nextId THEN t.entity ELSE rows[i]]
        BY <2>2, <3>2 DEF With
      <3>4. QED
        BY <1>2, <1>3, <3>1, <3>3
    <2>5. DOMAIN answered' \subseteq 1..(nextId' - 1) /\ nextId' \in 1..(MaxRows + 1)
      BY <1>2, <2>1, <2>2, <2>3
    <2>6. Tables'
      BY <1>2, <2>3, <2>4, <2>5 DEF Tables
    <2>7. DOMAIN answered \subseteq DOMAIN answered'
      BY <2>3
    <2>8. QED
      BY <1>1, <1>2, <1>4, <2>1, <2>2, <2>6, <2>7
  <1>5. CASE t.id # None
    <2>1. answered' = answered /\ nextId' = nextId
      BY <1>1, <1>5 DEF Insert
    <2>2. t.id \in Ids
      BY <1>5 DEF Transaction
    <2>3. CASE t.id \in DOMAIN rows
      <3>1. rows' = rows
        BY <1>5, <2>3 DEF Insert
      <3>2. Tables'
        BY <2>1, <3>1 DEF Tables, CatalogInv
      <3>3. QED
        BY <1>1, <1>2, <1>5, <2>1, <3>2
    <2>4. CASE t.id \notin DOMAIN rows
      <3>1. rows' = With(rows, t.id, t.entity)
        BY <1>5, <2>4 DEF Insert
      <3>2. /\ DOMAIN rows' = DOMAIN rows \union {t.id}
            /\ rows' \in [ids \union {t.id} -> Row] /\ ids \union {t.id} \in SUBSET Ids
        <4>1. DOMAIN rows = ids
          BY <1>3
        <4>2. rows' = [i \in ids \union {t.id} |-> IF i = t.id THEN t.entity ELSE rows[i]]
          BY <3>1, <4>1 DEF With
        <4>3. QED
          BY <1>2, <1>3, <2>2, <4>1, <4>2
      <3>3. Tables'
        <4>1. DOMAIN rows' \subseteq DOMAIN answered'
          BY <1>2, <1>5, <2>1, <3>2
        <4>2. QED
          BY <1>2, <2>1, <3>2, <4>1 DEF Tables
      <3>4. QED
        BY <1>1, <1>2, <1>5, <2>1, <3>3
    <2>5. QED
      BY <2>3, <2>4
  <1>6. QED
    BY <1>4, <1>5

\* The row is gone.
LEMMA RemoveRows ==
    ASSUME CatalogInv, CatalogConstants, NEW h \in Handlers, RemoveDelete(h),
           NEW t \in Transaction, t = txn[h]
    PROVE  /\ t.stage = "removing" /\ t.id \in DOMAIN answered
           /\ txn' = [txn EXCEPT ![h] = Idle]
           /\ Tables' /\ DOMAIN answered' = DOMAIN answered
           /\ DOMAIN rows' = DOMAIN rows \ {t.id}
           /\ \A i \in DOMAIN rows' : rows'[i] = rows[i]
           /\ \A i \in DOMAIN answered :
                 answered'[i] = IF i = t.id THEN None ELSE answered[i]
  <1>1. t.stage = "removing" /\ Record(t) /\ txn' = [txn EXCEPT ![h] = Idle] /\ nextId' = nextId
    BY DEF RemoveDelete, Done, Goto, CatalogInv
  <1>2. t.id \in DOMAIN answered
    BY <1>1 DEF Record
  <1>3. rows' = Without(rows, t.id) /\ answered' = With(answered, t.id, None)
    BY DEF RemoveDelete
  <1>4. DOMAIN rows' = DOMAIN rows \ {t.id} /\ DOMAIN answered' = DOMAIN answered
    BY <1>2, <1>3 DEF With, Without
  <1>5. PICK ids \in SUBSET Ids : rows \in [ids -> Row]
    BY DEF CatalogInv, Tables
  <1>6. rows' \in [ids \ {t.id} -> Row] /\ ids \ {t.id} \in SUBSET Ids
    BY <1>3, <1>5 DEF Without
  <1>7. Tables'
    BY <1>1, <1>4, <1>6 DEF Tables, CatalogInv
  <1>8. QED
    BY <1>1, <1>2, <1>3, <1>4, <1>7 DEF With, Without

\* A finite set as a sequence without repetitions.
LEMMA SeedSequence ==
    ASSUME NEW S, IsFiniteSet(S)
    PROVE  \E n \in Nat :
              /\ SetToSeq(S) \in [1..n -> S] /\ Len(SetToSeq(S)) = n
              /\ \A i, j \in 1..n : SetToSeq(S)[i] = SetToSeq(S)[j] => i = j
  <1> DEFINE f == SetToSeq(S)
  <1>1. PICK n \in Nat : n = Cardinality(S)
    BY FS_CardinalityType
  <1>2. \E b \in Bijection(1..n, S) : TRUE
    BY <1>1, FS_CardinalityType DEF ExistsBijection
  <1>3. f \in [1..n -> S] /\ \A i, j \in DOMAIN f : f[i] = f[j] => i = j
    BY <1>1, <1>2 DEF SetToSeq, IsInjective, Bijection, Injection
  <1>4. f \in Seq(S)
    BY <1>3, SeqDef
  <1>5. Len(f) = n
    BY <1>3, <1>4, LenProperties
  <1>6. QED
    BY <1>3, <1>5

\* The default rows that a start adds: new ids, and a row for each missing key.
LEMMA SeedRows ==
    ASSUME CatalogInv, CatalogConstants, NEW p \in Processes, SeedSave(p)
    PROVE  /\ servers[p].stage = "seeding" /\ UNCHANGED txn
           /\ Tables' /\ DOMAIN answered \subseteq DOMAIN answered'
           /\ \E n \in Nat : \E keys \in [1..n -> servers[p].missing] :
                 LET new == nextId..(nextId + n - 1) IN
                 /\ \A i, j \in 1..n : keys[i] = keys[j] => i = j
                 /\ DOMAIN rows' = DOMAIN rows \union new
                 /\ DOMAIN answered' = DOMAIN answered \union new
                 /\ \A i \in DOMAIN answered : i < nextId /\ answered'[i] = answered[i]
                 /\ \A i \in DOMAIN rows : i < nextId /\ rows'[i] = rows[i]
                 /\ \A i \in new : /\ i - nextId + 1 \in 1..n /\ i >= nextId
                                   /\ rows'[i] = DefaultRow(keys[i - nextId + 1])
                                   /\ answered'[i] = rows'[i]
  <1>1. /\ table \in {"product", "term", "notice"}
        /\ servers[p].missing \subseteq Defaults /\ servers[p].stage = "seeding"
        /\ UNCHANGED txn
    BY DEF SeedSave, CatalogInv, Servers
  <1>2. IsFiniteSet(Defaults) /\ Defaults \subseteq Keys
    BY <1>1, FS_EmptySet DEF CatalogConstants, Defaults
  <1>3. IsFiniteSet(servers[p].missing)
    BY <1>1, <1>2, FS_Subset
  <1>4. PICK keys : keys = SetToSeq(servers[p].missing)
    OBVIOUS
  <1>5. PICK n \in Nat :
            /\ keys \in [1..n -> servers[p].missing] /\ Len(keys) = n
            /\ \A i, j \in 1..n : keys[i] = keys[j] => i = j
    BY <1>3, <1>4, SeedSequence
  <1>6. PICK new : new = nextId..(nextId + n - 1)
    OBVIOUS
  <1>7. /\ nextId \in 1..(MaxRows + 1) /\ MaxRows \in Nat
        /\ DOMAIN rows \subseteq DOMAIN answered /\ DOMAIN answered \subseteq 1..(nextId - 1)
    BY DEF CatalogInv, Tables, CatalogConstants
  <1>8. /\ nextId + n - 1 <= MaxRows /\ nextId' = nextId + n - 1 + 1
        /\ rows' = [i \in DOMAIN rows \union new |->
                       IF i < nextId THEN rows[i] ELSE DefaultRow(keys[i - nextId + 1])]
        /\ answered' = [i \in DOMAIN answered \union new |->
                           IF i < nextId THEN answered[i] ELSE DefaultRow(keys[i - nextId + 1])]
    BY <1>4, <1>5, <1>6 DEF SeedSave
  <1>9. /\ \A i \in DOMAIN answered : i < nextId
        /\ \A i \in new : i - nextId + 1 \in 1..n /\ i >= nextId /\ ~(i < nextId) /\ i <= MaxRows
    BY <1>5, <1>6, <1>7, <1>8
  <1>10. /\ \A i \in DOMAIN answered : i < nextId /\ answered'[i] = answered[i]
         /\ \A i \in DOMAIN rows : i < nextId /\ rows'[i] = rows[i]
         /\ \A i \in new : /\ i - nextId + 1 \in 1..n /\ i >= nextId
                           /\ rows'[i] = DefaultRow(keys[i - nextId + 1])
                           /\ answered'[i] = rows'[i]
         /\ DOMAIN rows' = DOMAIN rows \union new /\ DOMAIN answered' = DOMAIN answered \union new
    BY <1>7, <1>8, <1>9
  <1>11. Tables'
    <2>1. PICK ids \in SUBSET Ids : rows \in [ids -> Row]
      BY DEF CatalogInv, Tables
    <2>2. new \subseteq Ids
      BY <1>6, <1>7, <1>9 DEF Ids
    <2>3. \A k \in Keys : DefaultRow(k) \in Row
      BY DEF DefaultRow, DefaultText, CatalogConstants, Row
    <2>4. \A i \in new : rows'[i] \in Row
      BY <1>1, <1>2, <1>5, <1>10, <2>3
    <2>5. \A i \in ids : rows'[i] \in Row
      BY <1>10, <2>1
    <2>6. rows' \in [ids \union new -> Row] /\ ids \union new \in SUBSET Ids
      BY <1>8, <1>10, <2>1, <2>2, <2>4, <2>5
    <2>7. nextId' \in 1..(MaxRows + 1)
      BY <1>5, <1>7, <1>8
    <2>8. DOMAIN answered' \subseteq 1..(nextId' - 1)
      <3>1. \A i \in 1..(nextId - 1) : i \in 1..(nextId' - 1)
        BY <1>5, <1>7, <1>8
      <3>2. \A i \in new : i \in 1..(nextId' - 1)
        BY <1>5, <1>6, <1>7, <1>8
      <3>3. QED
        BY <1>7, <1>10, <3>1, <3>2
    <2>9. QED
      BY <1>7, <1>10, <2>6, <2>7, <2>8 DEF Tables
  <1>12. QED
    BY <1>1, <1>5, <1>6, <1>10, <1>11

\* A step of a process: handlers go on or are ended with it.
LEMMA CatalogProcess ==
    ASSUME CatalogInv, Tables', Servers', DOMAIN answered \subseteq DOMAIN answered',
           txn' \in [Handlers -> Transaction], UNCHANGED table,
           \A h \in Handlers : txn'[h] \in {txn[h], Idle}
    PROVE  CatalogInv'
  <1>1. ASSUME NEW h \in Handlers
        PROVE  Record(txn[h])'
    <2>1. PICK t : t = txn[h]
      OBVIOUS
    <2>2. Record(t) /\ Record(Idle)
      BY <2>1, CatalogIdle DEF CatalogInv
    <2>3. Record(t)' /\ Record(Idle)'
      BY <2>2 DEF Record, Idle
    <2>4. txn'[h] = t \/ txn'[h] = Idle
      BY <2>1
    <2>5. CASE txn'[h] = t
      BY <2>3, <2>5 DEF Record
    <2>6. CASE txn'[h] = Idle
      BY <2>3, <2>6 DEF Record
    <2>7. QED
      BY <2>4, <2>5, <2>6
  <1>2. QED
    BY <1>1 DEF CatalogInv

\* How far the start of a process may come.
LEMMA ServerMoves ==
    ASSUME CatalogInv, NEW p \in Processes, UNCHANGED table,
           NEW stage \in {"off", "finding", "seeding", "up"}, NEW missing \in SUBSET Defaults,
           NEW starts \in 0..MaxStarts,
           servers' = [servers EXCEPT ![p] = [stage |-> stage, missing |-> missing,
                                              starts |-> starts]]
    PROVE  /\ Servers' /\ servers'[p].stage = stage /\ servers'[p].missing = missing
           /\ \A q \in Processes \ {p} : servers'[q] = servers[q]
  <1>1. Defaults' = Defaults
    BY DEF Defaults
  <1>2. servers \in [Processes -> [stage: {"off", "finding", "seeding", "up"},
                                   missing: SUBSET Defaults, starts: 0..MaxStarts]]
    BY DEF CatalogInv, Servers
  <1>3. /\ servers'[p] = [stage |-> stage, missing |-> missing, starts |-> starts]
        /\ \A q \in Processes \ {p} : servers'[q] = servers[q]
    BY <1>2
  <1>4. servers' \in [Processes -> [stage: {"off", "finding", "seeding", "up"},
                                    missing: SUBSET Defaults, starts: 0..MaxStarts]]
    BY <1>2
  <1>5. Servers'
    BY <1>1, <1>4 DEF Servers
  <1>6. QED
    BY <1>3, <1>5

\* A start that goes on, or a process that serves.
LEMMA Serves ==
    ASSUME CatalogInv, NEW p \in Processes, UNCHANGED table,
           NEW stage \in {"off", "finding", "seeding", "up"}, NEW missing \in SUBSET Defaults,
           Serve(p, stage, missing)
    PROVE  /\ Servers' /\ servers'[p].stage = stage /\ servers'[p].missing = missing
           /\ \A q \in Processes \ {p} : servers'[q] = servers[q]
  <1>1. PICK starts \in 0..MaxStarts : starts = servers[p].starts
    BY DEF CatalogInv, Servers
  <1>2. servers' = [servers EXCEPT ![p] = [stage |-> stage, missing |-> missing,
                                           starts |-> starts]]
    BY <1>1 DEF Serve
  <1>3. QED
    BY <1>2, ServerMoves

\* Every step of a handler or a process keeps the types.
LEMMA CatalogInductive ==
    ASSUME CatalogConstants, CatalogInv, [Next]_vars
    PROVE  CatalogInv'
  <1>1. CASE UNCHANGED vars
    BY <1>1 DEF vars, CatalogInv, Tables, Servers, Record, Defaults
  <1>2. CASE Next
    <2>1. UNCHANGED table /\ Step
      BY <1>2 DEF Next
    <2>2. ASSUME NEW h \in Handlers, NEW k \in Keys, NEW t \in Texts,
                 NEW active \in BOOLEAN, Creating(h, k, t, active)
          PROVE  CatalogInv'
      BY <2>1, <2>2, CreatingMoves, CatalogQuiet DEF Creating
    <2>3. ASSUME NEW h \in Handlers, NEW id \in Ids, NEW dto \in Dto,
                 NEW checks \in BOOLEAN, Updating(h, id, dto, checks)
          PROVE  CatalogInv'
      <3>1. PICK next \in Transaction : txn' = [txn EXCEPT ![h] = next] /\ Record(next)
        BY <2>3, UpdatingMoves
      <3>2. QED
        BY <2>1, <2>3, <3>1, CatalogQuiet DEF Updating
    <2>4. ASSUME NEW h \in Handlers, NEW id \in Ids, Removing(h, id)
          PROVE  CatalogInv'
      <3>1. PICK next \in Transaction : txn' = [txn EXCEPT ![h] = next] /\ Record(next)
        BY <2>4, RemovingMoves
      <3>2. QED
        BY <2>1, <2>4, <3>1, CatalogQuiet DEF Removing
    <2>5. ASSUME NEW h \in Handlers, UpdateCheck(h)
          PROVE  CatalogInv'
      <3>1. PICK next \in Transaction : txn' = [txn EXCEPT ![h] = next] /\ Record(next)
        BY <2>5, UpdateCheckMoves, CatalogIdle
      <3>2. QED
        BY <2>1, <2>5, <3>1, CatalogQuiet DEF UpdateCheck
    <2>6. ASSUME NEW h \in Handlers, SaveSelect(h)
          PROVE  CatalogInv'
      <3>1. PICK next \in Transaction : txn' = [txn EXCEPT ![h] = next] /\ Record(next)
        BY <2>6, SaveSelectMoves
      <3>2. QED
        BY <2>1, <2>6, <3>1, CatalogQuiet DEF SaveSelect
    <2>7. ASSUME NEW h \in Handlers, Tables', DOMAIN answered \subseteq DOMAIN answered',
                 txn' = [txn EXCEPT ![h] = Idle], UNCHANGED servers
          PROVE  CatalogInv'
      <3>1. Idle \in Transaction /\ Record(Idle)'
        BY CatalogIdle DEF Record, Idle
      <3>2. QED
        BY <2>1, <2>7, <3>1, CatalogAfter
    <2>8. ASSUME NEW h \in Handlers, SaveUpdate(h) \/ Insert(h) \/ RemoveDelete(h)
          PROVE  CatalogInv'
      <3>1. PICK t \in Transaction : t = txn[h]
        BY DEF CatalogInv
      <3>2. /\ Tables' /\ DOMAIN answered \subseteq DOMAIN answered'
            /\ txn' = [txn EXCEPT ![h] = Idle]
        BY <2>8, <3>1, SaveUpdateRows, InsertRows, RemoveRows
      <3>3. UNCHANGED servers
        BY <2>8 DEF SaveUpdate, Insert, RemoveDelete
      <3>4. QED
        BY <2>7, <3>2, <3>3
    <2>9. ASSUME NEW h \in Handlers, Interrupt(h)
          PROVE  CatalogInv'
      BY <2>1, <2>9, CatalogIdle, CatalogQuiet DEF Interrupt, Done, Goto
    <2>10. ASSUME NEW p \in Processes, Start(p) \/ SeedFind(p) \/ SeedSkip(p) \/ Stop(p)
           PROVE  CatalogInv'
      <3>1. Servers'
        <4>1. {} \in SUBSET Defaults /\ Missing \in SUBSET Defaults
          BY DEF Missing
        <4>2. CASE Start(p)
          <5>1. PICK starts \in 0..MaxStarts : starts = servers[p].starts + 1
            BY <4>2 DEF Start, CatalogInv, Servers, CatalogConstants
          <5>2. servers' = [servers EXCEPT ![p] = [stage |-> "finding", missing |-> {},
                                                   starts |-> starts]]
            BY <4>2, <5>1 DEF Start
          <5>3. QED
            BY <2>1, <4>1, <5>2, ServerMoves
        <4>3. CASE SeedFind(p)
          <5>1. PICK stage \in {"off", "finding", "seeding", "up"} :
                    Serve(p, stage, Missing)
            BY <4>3 DEF SeedFind
          <5>2. QED
            BY <2>1, <4>1, <5>1, Serves
        <4>4. CASE SeedSkip(p)
          BY <2>1, <4>1, <4>4, Serves DEF SeedSkip
        <4>5. CASE Stop(p)
          BY <2>1, <4>1, <4>5, Serves DEF Stop
        <4>6. QED
          BY <2>10, <4>2, <4>3, <4>4, <4>5
      <3>2. Tables' /\ UNCHANGED answered
        BY <2>10 DEF Start, SeedFind, SeedSkip, Stop, CatalogInv, Tables
      <3>3. /\ txn' \in [Handlers -> Transaction]
            /\ \A h \in Handlers : txn'[h] \in {txn[h], Idle}
        BY <2>10, CatalogIdle DEF Start, SeedFind, SeedSkip, Stop, CatalogInv
      <3>4. QED
        BY <2>1, <3>1, <3>2, <3>3, CatalogProcess
    <2>11. ASSUME NEW p \in Processes, SeedSave(p)
           PROVE  CatalogInv'
      <3>1. Tables' /\ DOMAIN answered \subseteq DOMAIN answered' /\ UNCHANGED txn
        BY <2>11, SeedRows
      <3>2. {} \in SUBSET Defaults
        OBVIOUS
      <3>3. Servers'
        BY <2>1, <2>11, <3>2, Serves DEF SeedSave
      <3>4. QED
        BY <2>1, <3>1, <3>3, CatalogProcess DEF CatalogInv
    <2>12. ASSUME NEW h \in Handlers, NEW id \in Ids, NEW dto \in Dto,
                  \/ UpdateCoinProduct(h, id, dto)
                  \/ UpdateTerm(h, id, dto) \/ UpdateNotice(h, id, dto)
           PROVE  CatalogInv'
      <3>1. PICK checks \in BOOLEAN : Updating(h, id, dto, checks)
        BY <2>12 DEF UpdateCoinProduct, UpdateTerm, UpdateNotice, NewKey
      <3>2. QED
        BY <2>3, <3>1
    <2>13. ASSUME NEW h \in Handlers, NEW k \in Keys, NEW t \in Texts,
                  \/ \E active \in BOOLEAN : CreateCoinProduct(h, k, t, active)
                  \/ CreateTerm(h, k, t) \/ CreateNotice(h, k, t)
           PROVE  CatalogInv'
      BY <2>2, <2>13 DEF CreateCoinProduct, CreateTerm, CreateNotice
    <2>14. QED
      BY <2>1, <2>4, <2>5, <2>6, <2>8, <2>9, <2>10, <2>11, <2>12, <2>13
         DEF Step, RemoveTerm, RemoveNotice, SeedCoinProducts, SeedTerms
  <1>3. QED
    BY <1>1, <1>2

-----------------------------------------------------------------------------
\* One request or start at a time.

\* A row is as it was answered, and gone if that was the answer.
AsAnswered ==
    \A i \in DOMAIN answered :
        IF i \in DOMAIN rows THEN answered[i] = rows[i] ELSE answered[i] = None

\* The row a handler works on is there; an UPDATE makes it the entity.
Writes(t) ==
    /\ t.stage \in {"checking", "saving", "updating", "removing"} => t.id \in DOMAIN rows
    /\ t.stage = "inserting" => t.id = None
    /\ t.stage = "updating" => t.columns = Changed(t.entity, rows[t.id])

\* The amount that a handler is about to save is no other product's.
Free(t) ==
    /\ t.stage = "checking" => t.dto.key # None
    /\ t.stage \in {"saving", "updating"} => Same(t.entity.key) \subseteq {t.id}
    /\ t.stage = "inserting" => Same(t.entity.key) = {}

\* What a start has found missing is still missing.
SeedsFree ==
    \A p \in Processes : servers[p].stage = "seeding" =>
        \A k \in servers[p].missing : Same(k) = {}

CatalogSerial ==
    /\ AsAnswered
    /\ \A h \in Handlers : Writes(txn[h])
    /\ table = "product" => KeysUnique /\ SeedsFree /\ \A h \in Handlers : Free(txn[h])

\* Before and after a step of a handler, nobody else does anything.
LEMMA CatalogOthersRest ==
    ASSUME CatalogInv, OneWriter(txn, servers), OneWriter(txn', servers'),
           NEW h \in Handlers, NEW next, txn' = [txn EXCEPT ![h] = next], UNCHANGED servers,
           txn[h].stage # "idle" \/ next.stage # "idle"
    PROVE  /\ txn'[h] = next
           /\ \A g \in Handlers \ {h} : txn[g] = Idle /\ txn'[g] = Idle
           /\ \A p \in Processes : servers[p].stage # "seeding"
  <1>1. txn'[h] = next /\ \A g \in Handlers \ {h} : txn'[g] = txn[g]
    BY DEF CatalogInv
  <1>2. \A g \in Handlers \ {h} : txn[g].stage = "idle"
    BY <1>1 DEF OneWriter
  <1>3. \A p \in Processes : servers[p].stage # "seeding"
    BY <1>1 DEF OneWriter
  <1>4. QED
    BY <1>1, <1>2, <1>3 DEF CatalogInv, Record

\* A step of a handler.
LEMMA CatalogSerialAfter ==
    ASSUME CatalogInv, OneWriter(txn, servers), OneWriter(txn', servers'),
           NEW h \in Handlers, NEW next, txn' = [txn EXCEPT ![h] = next],
           UNCHANGED <<table, servers>>, txn[h].stage # "idle" \/ next.stage # "idle",
           AsAnswered', Writes(next)', table = "product" => KeysUnique' /\ Free(next)'
    PROVE  CatalogSerial'
  <1>1. /\ txn'[h] = next
        /\ \A g \in Handlers \ {h} : txn[g] = Idle /\ txn'[g] = Idle
        /\ \A p \in Processes : servers[p].stage # "seeding"
    BY CatalogOthersRest
  <1>2. Idle.stage = "idle"
    BY DEF Idle
  <1>3. ASSUME NEW g \in Handlers
        PROVE  Writes(txn[g])' /\ (table = "product" => Free(txn[g])')
    <2>1. CASE g = h
      BY <1>1, <2>1 DEF Writes, Free
    <2>2. CASE g # h
      BY <1>1, <1>2, <2>2 DEF Writes, Free
    <2>3. QED
      BY <2>1, <2>2
  <1>4. SeedsFree'
    BY <1>1 DEF SeedsFree
  <1>5. QED
    BY <1>3, <1>4 DEF CatalogSerial

\* A step of a handler that leaves the rows alone.
LEMMA CatalogSerialQuiet ==
    ASSUME CatalogInv, CatalogSerial, OneWriter(txn, servers), OneWriter(txn', servers'),
           NEW h \in Handlers, NEW next, txn' = [txn EXCEPT ![h] = next],
           UNCHANGED <<table, rows, servers, answered>>,
           txn[h].stage # "idle" \/ next.stage # "idle",
           Writes(next), table = "product" => Free(next)
    PROVE  CatalogSerial'
  <1>1. AsAnswered' /\ (table = "product" => KeysUnique')
    BY DEF CatalogSerial, AsAnswered, KeysUnique
  <1>2. Writes(next)' /\ (table = "product" => Free(next)')
    BY DEF Writes, Free, Same
  <1>3. QED
    BY <1>1, <1>2, CatalogSerialAfter

\* create of the three tables.
LEMMA SerialCreating ==
    ASSUME CatalogConstants, CatalogInv, CatalogSerial,
           OneWriter(txn, servers), OneWriter(txn', servers'), UNCHANGED table,
           NEW h \in Handlers, NEW k \in Keys, NEW t \in Texts, NEW active \in BOOLEAN,
           Creating(h, k, t, active), table = "product" => MayTake(k, None)
    PROVE  CatalogSerial'
  <1>1. PICK next \in Transaction :
            /\ txn' = [txn EXCEPT ![h] = next]
            /\ next.stage = "inserting" /\ next.id = None /\ next.entity.key = k
    BY CreatingMoves
  <1>2. table = "product" => Same(k) = {}
    BY CatalogRow DEF MayTake, Same
  <1>3. Writes(next) /\ (table = "product" => Free(next))
    BY <1>1, <1>2 DEF Writes, Free
  <1>4. QED
    BY <1>1, <1>3, CatalogSerialQuiet DEF Creating

\* update of the three tables finds the row.
LEMMA SerialUpdating ==
    ASSUME CatalogConstants, CatalogInv, CatalogSerial,
           OneWriter(txn, servers), OneWriter(txn', servers'), UNCHANGED table,
           NEW h \in Handlers, NEW id \in Ids, NEW dto \in Dto, NEW checks \in BOOLEAN,
           Updating(h, id, dto, checks),
           table = "product" => checks = NewKey(rows[id], dto)
    PROVE  CatalogSerial'
  <1>1. id \in DOMAIN rows
    BY UpdatingMoves
  <1>2. PICK next \in Transaction :
            /\ txn' = [txn EXCEPT ![h] = next]
            /\ next.stage = IF checks THEN "checking" ELSE "saving"
            /\ next.id = id /\ next.dto = dto
            /\ next.entity = IF checks THEN rows[id] ELSE Merged(rows[id], dto)
    BY UpdatingMoves
  <1>3. Writes(next)
    BY <1>1, <1>2 DEF Writes
  <1>4. ASSUME table = "product"
        PROVE  Free(next)
    <2>1. CASE checks
      BY <1>2, <1>4, <2>1 DEF Free, NewKey
    <2>2. CASE ~checks
      <3>1. rows[id] \in Row /\ KeysUnique
        BY <1>1, <1>4, CatalogRow DEF CatalogSerial
      <3>2. Merged(rows[id], dto).key = rows[id].key
        BY <1>4, <2>2, <3>1, MergedRow DEF NewKey
      <3>3. Same(rows[id].key) \subseteq {id}
        BY <1>1, <3>1 DEF Same, KeysUnique
      <3>4. QED
        BY <1>2, <2>2, <3>2, <3>3 DEF Free
    <2>3. QED
      BY <2>1, <2>2
  <1>5. next.stage # "idle"
    BY <1>2
  <1>6. QED
    BY <1>2, <1>3, <1>4, <1>5, CatalogSerialQuiet DEF Updating

\* The amount is looked for, the row is read again.
LEMMA SerialChecks ==
    ASSUME CatalogConstants, CatalogInv, CatalogSerial,
           OneWriter(txn, servers), OneWriter(txn', servers'), UNCHANGED table,
           NEW h \in Handlers, UpdateCheck(h) \/ SaveSelect(h)
    PROVE  CatalogSerial'
  <1>1. PICK t \in Transaction : t = txn[h]
    BY DEF CatalogInv
  <1>2. /\ Record(t) /\ Writes(t)
        /\ table = "product" => Free(t) /\ KeysUnique
    BY <1>1 DEF CatalogSerial, CatalogInv
  <1>3. Writes(Idle) /\ Free(Idle)
    BY DEF Writes, Free, Idle
  <1>4. CASE UpdateCheck(h)
    <2>1. t.stage = "checking" /\ t.id \in DOMAIN rows
      BY <1>1, <1>2, <1>4, UpdateCheckMoves DEF Writes
    <2>2. CASE txn' = [txn EXCEPT ![h] = Idle]
      BY <1>1, <1>3, <1>4, <2>1, <2>2, CatalogSerialQuiet DEF UpdateCheck
    <2>3. CASE txn' # [txn EXCEPT ![h] = Idle]
      <3>1. PICK next \in Transaction :
                /\ MayTake(t.dto.key, t.id) /\ txn' = [txn EXCEPT ![h] = next]
                /\ next.stage = "saving" /\ next.id = t.id
                /\ t.dto.key # None => next.entity.key = t.dto.key
        BY <1>1, <1>4, <2>3, UpdateCheckMoves
      <3>2. Writes(next)
        BY <2>1, <3>1 DEF Writes
      <3>3. ASSUME table = "product"
            PROVE  Free(next)
        <4>1. next.entity.key = t.dto.key
          BY <1>2, <2>1, <3>1, <3>3 DEF Free
        <4>2. Same(t.dto.key) \subseteq {t.id}
          BY <1>2, <3>1, <3>3 DEF MayTake, Same, KeysUnique
        <4>3. QED
          BY <3>1, <4>1, <4>2 DEF Free
      <3>4. QED
        BY <1>1, <1>4, <2>1, <3>1, <3>2, <3>3, CatalogSerialQuiet DEF UpdateCheck
    <2>4. QED
      BY <2>2, <2>3
  <1>5. CASE SaveSelect(h)
    <2>1. t.stage = "saving" /\ t.id \in DOMAIN rows
      BY <1>1, <1>2, <1>5, SaveSelectMoves DEF Writes
    <2>2. PICK next \in Transaction :
              /\ txn' = [txn EXCEPT ![h] = next] /\ next.stage = "updating"
              /\ next.id = t.id /\ next.entity = t.entity
              /\ next.columns = Changed(t.entity, rows[t.id])
      BY <1>1, <1>5, <2>1, SaveSelectMoves
    <2>3. Writes(next)
      BY <2>1, <2>2 DEF Writes
    <2>4. table = "product" => Free(next)
      BY <1>2, <2>1, <2>2 DEF Free
    <2>5. QED
      BY <1>1, <1>5, <2>1, <2>2, <2>3, <2>4, CatalogSerialQuiet DEF SaveSelect
  <1>6. QED
    BY <1>4, <1>5

\* The UPDATE makes the row the entity, and that is the answer.
LEMMA SerialSaveUpdate ==
    ASSUME CatalogConstants, CatalogInv, CatalogSerial,
           OneWriter(txn, servers), OneWriter(txn', servers'), UNCHANGED table,
           NEW h \in Handlers, SaveUpdate(h)
    PROVE  CatalogSerial'
  <1>1. PICK t \in Transaction : t = txn[h]
    BY DEF CatalogInv
  <1>2. /\ t.stage = "updating" /\ t.entity \in Row
        /\ txn' = [txn EXCEPT ![h] = Idle]
        /\ DOMAIN rows' = DOMAIN rows /\ DOMAIN answered' = DOMAIN answered
        /\ \A i \in DOMAIN rows : i # t.id => rows'[i] = rows[i]
        /\ \A i \in DOMAIN answered : i # t.id => answered'[i] = answered[i]
        /\ t.id \in DOMAIN rows =>
              /\ rows'[t.id] = Written(t.entity, rows[t.id], t.columns)
              /\ answered'[t.id] = t.entity
    BY <1>1, SaveUpdateRows
  <1>3. /\ Writes(t) /\ AsAnswered
        /\ table = "product" => Free(t) /\ KeysUnique
    BY <1>1 DEF CatalogSerial
  <1>4. PICK row \in Row : row = rows[t.id] /\ t.id \in DOMAIN rows
    BY <1>2, <1>3, CatalogRow DEF Writes
  <1>5. rows'[t.id] = t.entity /\ answered'[t.id] = t.entity
    BY <1>2, <1>3, <1>4, WrittenRow DEF Writes
  <1>6. AsAnswered'
    BY <1>2, <1>3, <1>4, <1>5 DEF AsAnswered
  <1>7. ASSUME table = "product"
        PROVE  KeysUnique'
    <2>1. \A j \in DOMAIN rows : j # t.id => rows[j].key # t.entity.key
      BY <1>2, <1>3, <1>7 DEF Free, Same
    <2>2. QED
      BY <1>2, <1>3, <1>5, <1>7, <2>1 DEF KeysUnique
  <1>8. Writes(Idle)' /\ Free(Idle)'
    BY DEF Writes, Free, Idle
  <1>9. UNCHANGED servers
    BY DEF SaveUpdate
  <1>10. QED
    BY <1>1, <1>2, <1>6, <1>7, <1>8, <1>9, CatalogSerialAfter

\* The INSERT of a new row.
LEMMA SerialInsert ==
    ASSUME CatalogConstants, CatalogInv, CatalogSerial,
           OneWriter(txn, servers), OneWriter(txn', servers'), UNCHANGED table,
           NEW h \in Handlers, Insert(h)
    PROVE  CatalogSerial'
  <1>1. PICK t \in Transaction : t = txn[h]
    BY DEF CatalogInv
  <1>2. /\ t.stage = "inserting" /\ t.entity \in Row
        /\ txn' = [txn EXCEPT ![h] = Idle]
    BY <1>1, InsertRows
  <1>3. /\ Writes(t) /\ AsAnswered
        /\ table = "product" => Free(t) /\ KeysUnique
    BY <1>1 DEF CatalogSerial
  <1>4. t.id = None
    BY <1>2, <1>3 DEF Writes
  <1>5. /\ nextId \notin DOMAIN answered /\ DOMAIN rows \subseteq DOMAIN answered
        /\ rows' = With(rows, nextId, t.entity) /\ answered' = With(answered, nextId, t.entity)
    BY <1>1, <1>4, InsertRows DEF CatalogInv, Tables
  <1>6. /\ DOMAIN rows' = DOMAIN rows \union {nextId} /\ rows'[nextId] = t.entity
        /\ DOMAIN answered' = DOMAIN answered \union {nextId} /\ answered'[nextId] = t.entity
        /\ \A i \in DOMAIN rows : rows'[i] = rows[i]
        /\ \A i \in DOMAIN answered : answered'[i] = answered[i]
    BY <1>5 DEF With
  <1>7. AsAnswered'
    BY <1>3, <1>5, <1>6 DEF AsAnswered
  <1>8. ASSUME table = "product"
        PROVE  KeysUnique'
    <2>1. \A j \in DOMAIN rows : rows[j].key # t.entity.key
      BY <1>2, <1>3, <1>8 DEF Free, Same
    <2>2. QED
      BY <1>3, <1>6, <1>8, <2>1 DEF KeysUnique
  <1>9. Writes(Idle)' /\ Free(Idle)'
    BY DEF Writes, Free, Idle
  <1>10. UNCHANGED servers
    BY DEF Insert
  <1>11. QED
    BY <1>1, <1>2, <1>7, <1>8, <1>9, <1>10, CatalogSerialAfter

\* A row that is removed stays away.
LEMMA SerialRemove ==
    ASSUME CatalogConstants, CatalogInv, CatalogSerial,
           OneWriter(txn, servers), OneWriter(txn', servers'), UNCHANGED table,
           NEW h \in Handlers, RemoveDelete(h)
    PROVE  CatalogSerial'
  <1>1. PICK t \in Transaction : t = txn[h]
    BY DEF CatalogInv
  <1>2. /\ t.stage = "removing" /\ t.id \in DOMAIN answered
        /\ txn' = [txn EXCEPT ![h] = Idle]
        /\ DOMAIN answered' = DOMAIN answered
        /\ DOMAIN rows' = DOMAIN rows \ {t.id}
        /\ \A i \in DOMAIN rows' : rows'[i] = rows[i]
        /\ \A i \in DOMAIN answered :
              answered'[i] = IF i = t.id THEN None ELSE answered[i]
    BY <1>1, RemoveRows
  <1>3. AsAnswered'
    BY <1>2 DEF CatalogSerial, AsAnswered
  <1>4. table = "product" => KeysUnique'
    BY <1>2 DEF CatalogSerial, KeysUnique
  <1>5. Writes(Idle)' /\ Free(Idle)'
    BY DEF Writes, Free, Idle
  <1>6. UNCHANGED servers
    BY DEF RemoveDelete
  <1>7. QED
    BY <1>1, <1>2, <1>3, <1>4, <1>5, <1>6, CatalogSerialAfter

\* What a start adds is new, though products were changed since it was last
\* looked for.
LEMMA SerialSeedSave ==
    ASSUME CatalogConstants, CatalogInv, CatalogSerial,
           OneWriter(txn, servers), OneWriter(txn', servers'), UNCHANGED table,
           NEW p \in Processes, SeedSave(p)
    PROVE  CatalogSerial'
  <1>1. PICK missing : missing = servers[p].missing
    OBVIOUS
  <1>2. PICK n \in Nat : \E keys \in [1..n -> missing] :
            /\ \A i, j \in 1..n : keys[i] = keys[j] => i = j
            /\ DOMAIN rows' = DOMAIN rows \union (nextId..(nextId + n - 1))
            /\ DOMAIN answered' = DOMAIN answered \union (nextId..(nextId + n - 1))
            /\ \A i \in DOMAIN answered : i < nextId /\ answered'[i] = answered[i]
            /\ \A i \in DOMAIN rows : i < nextId /\ rows'[i] = rows[i]
            /\ \A i \in nextId..(nextId + n - 1) :
                  /\ i - nextId + 1 \in 1..n /\ i >= nextId
                  /\ rows'[i] = DefaultRow(keys[i - nextId + 1])
                  /\ answered'[i] = rows'[i]
    BY <1>1, SeedRows
  <1>3. PICK keys \in [1..n -> missing] :
            /\ \A i, j \in 1..n : keys[i] = keys[j] => i = j
            /\ DOMAIN rows' = DOMAIN rows \union (nextId..(nextId + n - 1))
            /\ DOMAIN answered' = DOMAIN answered \union (nextId..(nextId + n - 1))
            /\ \A i \in DOMAIN answered : i < nextId /\ answered'[i] = answered[i]
            /\ \A i \in DOMAIN rows : i < nextId /\ rows'[i] = rows[i]
            /\ \A i \in nextId..(nextId + n - 1) :
                  /\ i - nextId + 1 \in 1..n /\ i >= nextId
                  /\ rows'[i] = DefaultRow(keys[i - nextId + 1])
                  /\ answered'[i] = rows'[i]
    BY <1>2
  <1>4. PICK new : new = nextId..(nextId + n - 1)
    OBVIOUS
  <1>5. /\ DOMAIN rows' = DOMAIN rows \union new
        /\ DOMAIN answered' = DOMAIN answered \union new
        /\ \A i \in DOMAIN answered : i \notin new /\ answered'[i] = answered[i]
        /\ \A i \in DOMAIN rows : i \notin new /\ rows'[i] = rows[i]
        /\ \A i \in new : answered'[i] = rows'[i]
    <2>1. nextId \in Nat /\ \A i \in new : i \in Int
      BY <1>4 DEF CatalogInv, Tables
    <2>2. \A i \in new : ~(i < nextId)
      BY <1>4, <2>1
    <2>3. QED
      BY <1>3, <1>4, <2>2
  <1>6. AsAnswered'
    BY <1>5 DEF CatalogSerial, AsAnswered
  <1>7. UNCHANGED txn /\ servers[p].stage = "seeding"
    BY SeedRows
  <1>8. \A h \in Handlers : txn[h].stage = "idle"
    BY <1>7 DEF OneWriter
  <1>9. \A h \in Handlers : Writes(txn[h])' /\ Free(txn[h])'
    BY <1>7, <1>8 DEF Writes, Free
  <1>10. \A q \in Processes : servers'[q].stage # "seeding"
    <2>1. /\ servers'[p].stage = "up" /\ \A q \in Processes \ {p} : servers'[q] = servers[q]
      <3>1. {} \in SUBSET Defaults
        OBVIOUS
      <3>2. QED
        BY <3>1, Serves DEF SeedSave
    <2>2. \A q \in Processes : servers[q].stage = "seeding" => q = p
      BY <1>7 DEF OneWriter
    <2>3. QED
      BY <2>1, <2>2
  <1>11. ASSUME table = "product"
         PROVE  KeysUnique'
    <2>1. KeysUnique /\ \A k \in missing : Same(k) = {}
      BY <1>1, <1>7, <1>11 DEF CatalogSerial, SeedsFree
    <2>2. \A i \in new : /\ i - nextId + 1 \in 1..n
                         /\ rows'[i].key = keys[i - nextId + 1]
                         /\ keys[i - nextId + 1] \in missing
      <3>1. ASSUME NEW i \in new
            PROVE  /\ i - nextId + 1 \in 1..n
                   /\ rows'[i] = DefaultRow(keys[i - nextId + 1])
        BY <1>3, <1>4
      <3>2. \A k : DefaultRow(k).key = k
        BY DEF DefaultRow
      <3>3. \A m \in 1..n : keys[m] \in missing
        OBVIOUS
      <3>4. QED
        BY <3>1, <3>2, <3>3
    <2>3. ASSUME NEW i \in new, NEW j \in new, rows'[i].key = rows'[j].key
          PROVE  i = j
      <3>1. i - nextId + 1 = j - nextId + 1
        BY <1>3, <2>2, <2>3
      <3>2. i \in Int /\ j \in Int /\ nextId \in Int
        BY <1>4, <2>3 DEF CatalogInv, Tables
      <3>3. QED
        BY <3>1, <3>2
    <2>4. \A i \in new, j \in DOMAIN rows : rows'[i].key # rows'[j].key
      BY <1>5, <2>1, <2>2 DEF Same
    <2>5. \A i, j \in DOMAIN rows : rows'[i].key = rows'[j].key => i = j
      BY <1>5, <2>1 DEF KeysUnique
    <2>6. QED
      BY <1>5, <2>3, <2>4, <2>5 DEF KeysUnique
  <1>12. QED
    BY <1>6, <1>9, <1>10, <1>11 DEF CatalogSerial, SeedsFree

\* The other steps of a process.
LEMMA SerialProcess ==
    ASSUME CatalogConstants, CatalogInv, CatalogSerial, UNCHANGED table,
           NEW p \in Processes, Start(p) \/ SeedFind(p) \/ SeedSkip(p) \/ Stop(p)
    PROVE  CatalogSerial'
  <1>1. UNCHANGED <<rows, answered>> /\ \A h \in Handlers : txn'[h] \in {txn[h], Idle}
    BY DEF Start, SeedFind, SeedSkip, Stop
  <1>2. AsAnswered' /\ (table = "product" => KeysUnique')
    BY <1>1 DEF CatalogSerial, AsAnswered, KeysUnique
  <1>3. ASSUME NEW h \in Handlers
        PROVE  Writes(txn[h])' /\ (table = "product" => Free(txn[h])')
    <2>1. CASE txn'[h] = txn[h]
      BY <1>1, <2>1 DEF CatalogSerial, Writes, Free, Same
    <2>2. CASE txn'[h] = Idle
      BY <2>2 DEF Writes, Free, Idle
    <2>3. QED
      BY <1>1, <2>1, <2>2
  <1>4. ASSUME table = "product"
        PROVE  SeedsFree'
    <2>1. SeedsFree /\ \A k : Same(k)' = Same(k)
      BY <1>1, <1>4 DEF CatalogSerial, Same
    <2>2. {} \in SUBSET Defaults /\ Missing \in SUBSET Defaults
      BY DEF Missing
    <2>3. /\ \A q \in Processes \ {p} : servers'[q] = servers[q]
          /\ servers'[p].stage = "seeding" => servers'[p].missing = Missing
      <3>1. CASE Start(p)
        <4>1. servers'[p].stage = "finding" /\ \A q \in Processes \ {p} : servers'[q] = servers[q]
          BY <3>1 DEF Start, CatalogInv, Servers
        <4>2. QED
          BY <4>1
      <3>2. CASE SeedFind(p)
        <4>1. PICK stage \in {"off", "finding", "seeding", "up"} : Serve(p, stage, Missing)
          BY <3>2 DEF SeedFind
        <4>2. QED
          BY <2>2, <4>1, Serves
      <3>3. CASE SeedSkip(p)
        BY <2>2, <3>3, Serves DEF SeedSkip
      <3>4. CASE Stop(p)
        BY <2>2, <3>4, Serves DEF Stop
      <3>5. QED
        BY <3>1, <3>2, <3>3, <3>4
    <2>4. \A k \in Missing : Same(k) = {}
      BY DEF Missing
    <2>5. QED
      BY <2>1, <2>3, <2>4 DEF SeedsFree
  <1>5. QED
    BY <1>2, <1>3, <1>4 DEF CatalogSerial

LEMMA CatalogSerialInductive ==
    ASSUME CatalogConstants, CatalogInv, CatalogSerial,
           OneWriter(txn, servers), OneWriter(txn', servers'), [Next]_vars
    PROVE  CatalogSerial'
  <1>1. CASE UNCHANGED vars
    BY <1>1 DEF vars, CatalogSerial, AsAnswered, Writes, Free, Same, KeysUnique, SeedsFree
  <1>2. CASE Next
    <2>1. UNCHANGED table /\ Step
      BY <1>2 DEF Next
    <2>2. ASSUME NEW h \in Handlers, NEW k \in Keys, NEW t \in Texts,
                 \/ \E active \in BOOLEAN : CreateCoinProduct(h, k, t, active)
                 \/ CreateTerm(h, k, t) \/ CreateNotice(h, k, t)
          PROVE  CatalogSerial'
      <3>1. PICK active \in BOOLEAN :
                Creating(h, k, t, active) /\ (table = "product" => MayTake(k, None))
        BY <2>2 DEF CreateCoinProduct, CreateTerm, CreateNotice
      <3>2. QED
        BY <2>1, <3>1, SerialCreating
    <2>3. ASSUME NEW h \in Handlers, NEW id \in Ids, NEW dto \in Dto,
                 \/ UpdateCoinProduct(h, id, dto)
                 \/ UpdateTerm(h, id, dto) \/ UpdateNotice(h, id, dto)
          PROVE  CatalogSerial'
      <3>1. PICK checks \in BOOLEAN : /\ Updating(h, id, dto, checks)
                                      /\ table = "product" => checks = NewKey(rows[id], dto)
        <4>1. NewKey(rows[id], dto) \in BOOLEAN
          BY DEF NewKey
        <4>2. QED
          BY <2>3, <4>1 DEF UpdateCoinProduct, UpdateTerm, UpdateNotice
      <3>2. QED
        BY <2>1, <3>1, SerialUpdating
    <2>4. ASSUME NEW h \in Handlers, NEW id \in Ids, RemoveTerm(h, id) \/ RemoveNotice(h, id)
          PROVE  CatalogSerial'
      <3>1. Removing(h, id) /\ table # "product"
        BY <2>4 DEF RemoveTerm, RemoveNotice
      <3>2. PICK next \in Transaction :
                /\ txn' = [txn EXCEPT ![h] = next] /\ next.stage = "removing"
                /\ next.id = id /\ id \in DOMAIN rows
        BY <3>1, RemovingMoves
      <3>3. Writes(next)
        BY <3>2 DEF Writes
      <3>4. QED
        BY <2>1, <3>1, <3>2, <3>3, CatalogSerialQuiet DEF Removing
    <2>5. ASSUME NEW h \in Handlers, Interrupt(h)
          PROVE  CatalogSerial'
      <3>1. txn[h].stage # "idle"
        BY <2>5 DEF Interrupt, CatalogInv, Record
      <3>2. Writes(Idle) /\ Free(Idle)
        BY DEF Writes, Free, Idle
      <3>3. QED
        BY <2>1, <2>5, <3>1, <3>2, CatalogSerialQuiet DEF Interrupt, Done, Goto
    <2>6. QED
      BY <2>1, <2>2, <2>3, <2>4, <2>5, SerialChecks, SerialSaveUpdate, SerialInsert,
         SerialRemove, SerialSeedSave, SerialProcess DEF Step, SeedCoinProducts, SeedTerms
  <1>3. QED
    BY <1>1, <1>2

LEMMA CatalogInit ==
    ASSUME CatalogConstants, Init
    PROVE  CatalogInv /\ CatalogSerial /\ OneWriter(txn, servers)
  <1>1. /\ rows = <<>> /\ answered = <<>> /\ nextId = 1
        /\ txn = [h \in Handlers |-> Idle] /\ servers = [p \in Processes |-> Off]
        /\ table \in {"product", "term", "notice"}
    BY DEF Init
  <1>2. DOMAIN rows = {} /\ DOMAIN answered = {}
    BY <1>1
  <1>3. Tables
    <2>1. rows \in [{} -> Row] /\ {} \in SUBSET Ids
      BY <1>1, <1>2
    <2>2. nextId \in 1..(MaxRows + 1)
      BY <1>1 DEF CatalogConstants
    <2>3. QED
      BY <1>2, <2>1, <2>2 DEF Tables
  <1>4. Servers
    BY <1>1 DEF Servers, Off, CatalogConstants
  <1>5. \A h \in Handlers : txn[h].stage = "idle" /\ Record(txn[h]) /\ Writes(txn[h]) /\ Free(txn[h])
    BY <1>1, CatalogIdle DEF Idle, Writes, Free
  <1>6. \A p \in Processes : servers[p].stage = "off"
    BY <1>1 DEF Off
  <1>7. CatalogInv
    BY <1>1, <1>3, <1>4, <1>5, CatalogIdle DEF CatalogInv
  <1>8. CatalogSerial
    BY <1>2, <1>5, <1>6 DEF CatalogSerial, AsAnswered, KeysUnique, SeedsFree
  <1>9. OneWriter(txn, servers)
    BY <1>5, <1>6 DEF OneWriter
  <1>10. QED
    BY <1>7, <1>8, <1>9

\* One administrator and one start at a time: when nobody is writing, everybody
\* is shown what administrators were last told they had saved, whatever
\* restarts, seeds and failed requests came between; a row that was removed
\* stays away, and no two coin products have one amount (the services of coin
\* products, terms and notices, AppInitService).
THEOREM AnswersAreShown ==
    ASSUME CatalogConstants
    PROVE  CatalogSpec => []AnswersHold
  <1> DEFINE Inv == CatalogInv /\ (inTurn => OneWriter(txn, servers) /\ CatalogSerial)
             Moves == Next /\ UNCHANGED inTurn /\ (inTurn => OneWriter(txn', servers'))
  <1>1. Init => Inv
    BY CatalogInit
  <1>2. Inv /\ [Moves]_<<vars, inTurn>> => Inv'
    <2> SUFFICES ASSUME Inv, [Moves]_<<vars, inTurn>>
                 PROVE  Inv'
      OBVIOUS
    <2>1. [Next]_vars /\ inTurn' = inTurn
      OBVIOUS
    <2>2. inTurn /\ OneWriter(txn, servers) => OneWriter(txn', servers')
      BY DEF vars
    <2>3. CatalogInv'
      BY <2>1, CatalogInductive
    <2>4. inTurn => OneWriter(txn, servers)' /\ CatalogSerial'
      <3>1. SUFFICES ASSUME inTurn
                     PROVE  OneWriter(txn', servers') /\ CatalogSerial'
        BY DEF OneWriter
      <3>2. OneWriter(txn, servers) /\ OneWriter(txn', servers')
        BY <2>2, <3>1
      <3>3. QED
        BY <2>1, <3>1, <3>2, CatalogSerialInductive
    <2>5. QED
      BY <2>1, <2>3, <2>4
  <1>3. Inv => AnswersHold
    <2>1. ASSUME CatalogInv, CatalogSerial
          PROVE  ShownAsAnswered
      <3>1. \A i \in DOMAIN rows : /\ i \in DOMAIN answered /\ answered[i] = rows[i]
                                   /\ answered[i] # None
        BY <2>1, CatalogRow DEF CatalogSerial, AsAnswered, CatalogConstants
      <3>2. \A i \in DOMAIN answered : answered[i] # None => i \in DOMAIN rows
        BY <2>1 DEF CatalogSerial, AsAnswered
      <3>3. QED
        BY <3>1, <3>2 DEF ShownAsAnswered, Listed, Offered
    <2>2. QED
      BY <2>1, CatalogTypes DEF AnswersHold, CatalogSerial
  <1>4. QED
    BY <1>1, <1>2, <1>3, PTL DEF CatalogSpec

-----------------------------------------------------------------------------
\* Settings of members.

SettingsConstants == MaxSaves \in Nat

\* A member has one row of preferences.
OneEach ==
    \A i, j \in DOMAIN preferences : preferences[i].memberId = preferences[j].memberId => i = j

\* What a handler of a member holds at each stage.
SettingsRecord(m, t) ==
    /\ t.stage = "idle" => t = Preferences!Idle
    /\ t.stage \in {"saving", "updating"} =>
          /\ t.dto \in Preferences!Dto /\ t.entity \in Preferences!Switches
          /\ Preferences!RowsOf(m) # {}

SettingsRows ==
    /\ preferences \in Seq(Preferences!Row)
    /\ OneEach

SettingsInv ==
    /\ Preferences!TypeOK
    /\ OneEach
    /\ \A h \in Preferences!Handlers : SettingsRecord(h[1], settingsTxn[h])

\* A handler is a device of a member.
LEMMA SettingsHandler ==
    ASSUME NEW h \in Preferences!Handlers
    PROVE  h[1] \in Owners /\ h[2] \in Devices /\ h = <<h[1], h[2]>>
  BY DEF Preferences!Handlers

\* The row of a member that has one.
LEMMA TheRow ==
    ASSUME SettingsRows, NEW m, Preferences!RowsOf(m) # {}
    PROVE  \E row \in DOMAIN preferences :
              /\ row = Preferences!RowOf(m) /\ preferences[row].memberId = m
              /\ preferences[row] \in Preferences!Row
              /\ preferences[row].switches \in Preferences!Switches
              /\ \A i \in DOMAIN preferences : preferences[i].memberId = m => i = row
  <1>1. PICK row : row = Preferences!RowOf(m) /\ row \in Preferences!RowsOf(m)
    BY DEF Preferences!RowOf
  <1>2. row \in DOMAIN preferences /\ preferences[row].memberId = m
    BY <1>1 DEF Preferences!RowsOf
  <1>3. preferences[row] \in Preferences!Row
    BY <1>2, ElementOfSeq, LenProperties DEF SettingsRows
  <1>4. preferences[row].switches \in Preferences!Switches
    BY <1>3 DEF Preferences!Row
  <1>5. QED
    BY <1>1, <1>2, <1>3, <1>4 DEF SettingsRows, OneEach

\* A new row at the end.
LEMMA NewRow ==
    ASSUME SettingsRows, NEW row \in Preferences!Row, Preferences!RowsOf(row.memberId) = {},
           preferences' = Append(preferences, row)
    PROVE  /\ SettingsRows'
           /\ Preferences!RowsOf(row.memberId)' # {}
           /\ preferences'[Preferences!RowOf(row.memberId)'] = row
           /\ \A m : m # row.memberId =>
                 /\ Preferences!RowsOf(m)' = Preferences!RowsOf(m)
                 /\ Preferences!RowsOf(m) # {} =>
                       preferences'[Preferences!RowOf(m)'] = preferences[Preferences!RowOf(m)]
  <1>1. PICK n \in Nat : n = Len(preferences) /\ DOMAIN preferences = 1..n
    BY LenProperties DEF SettingsRows
  <1>2. /\ preferences' \in Seq(Preferences!Row) /\ Len(preferences') = n + 1
        /\ \A i \in 1..n : preferences'[i] = preferences[i]
        /\ preferences'[n + 1] = row
    BY <1>1, AppendProperties DEF SettingsRows
  <1>3. DOMAIN preferences' = 1..(n + 1)
    BY <1>2, LenProperties
  <1>4. /\ \A i \in DOMAIN preferences' : i \in DOMAIN preferences \/ i = n + 1
        /\ \A i \in DOMAIN preferences : i \in DOMAIN preferences' /\ i # n + 1
        /\ n + 1 \in DOMAIN preferences'
    BY <1>1, <1>3
  <1>5. \A i \in DOMAIN preferences : preferences[i].memberId # row.memberId
    BY DEF Preferences!RowsOf
  <1>6. OneEach'
    BY <1>1, <1>2, <1>4, <1>5 DEF SettingsRows, OneEach
  <1>7. Preferences!RowsOf(row.memberId)' # {}
    BY <1>2, <1>4 DEF Preferences!RowsOf
  <1>8. preferences'[Preferences!RowOf(row.memberId)'] = row
    <2>1. SettingsRows'
      BY <1>2, <1>6 DEF SettingsRows
    <2>2. \A i \in Preferences!RowsOf(row.memberId)' : i = n + 1
      BY <1>1, <1>2, <1>4, <1>5 DEF Preferences!RowsOf
    <2>3. Preferences!RowOf(row.memberId)' \in Preferences!RowsOf(row.memberId)'
      BY <1>7 DEF Preferences!RowOf
    <2>4. QED
      BY <1>2, <2>2, <2>3
  <1>9. ASSUME NEW m, m # row.memberId
        PROVE  /\ Preferences!RowsOf(m)' = Preferences!RowsOf(m)
               /\ Preferences!RowsOf(m) # {} =>
                     preferences'[Preferences!RowOf(m)'] = preferences[Preferences!RowOf(m)]
    <2>1. Preferences!RowsOf(m)' = Preferences!RowsOf(m)
      BY <1>1, <1>2, <1>4, <1>9 DEF Preferences!RowsOf
    <2>2. Preferences!RowOf(m)' = Preferences!RowOf(m)
      BY <2>1 DEF Preferences!RowOf
    <2>3. Preferences!RowsOf(m) # {} => Preferences!RowOf(m) \in 1..n
      BY <1>1, TheRow
    <2>4. QED
      BY <1>2, <2>1, <2>2, <2>3
  <1>10. QED
    BY <1>2, <1>6, <1>7, <1>8, <1>9 DEF SettingsRows

\* Other switches in the row of a member.
LEMMA NewSwitches ==
    ASSUME SettingsRows, NEW m, Preferences!RowsOf(m) # {},
           NEW switches \in Preferences!Switches,
           preferences' = [preferences EXCEPT ![Preferences!RowOf(m)].switches = switches]
    PROVE  /\ SettingsRows'
           /\ \A k : Preferences!RowsOf(k)' = Preferences!RowsOf(k)
           /\ preferences'[Preferences!RowOf(m)'].switches = switches
           /\ \A k : k # m /\ Preferences!RowsOf(k) # {} =>
                 preferences'[Preferences!RowOf(k)'] = preferences[Preferences!RowOf(k)]
  <1>1. PICK row \in DOMAIN preferences :
            /\ row = Preferences!RowOf(m) /\ preferences[row].memberId = m
            /\ preferences[row] \in Preferences!Row
    BY TheRow
  <1>2. PICK new : new = [preferences[row] EXCEPT !.switches = switches]
    OBVIOUS
  <1>3. new \in Preferences!Row /\ new.memberId = m /\ new.switches = switches
    BY <1>1, <1>2 DEF Preferences!Row
  <1>4. preferences' = [preferences EXCEPT ![row] = new]
    BY <1>1, <1>2
  <1>5. /\ DOMAIN preferences' = DOMAIN preferences /\ preferences'[row] = new
        /\ \A i \in DOMAIN preferences : i # row => preferences'[i] = preferences[i]
    BY <1>1, <1>4
  <1>6. preferences' \in Seq(Preferences!Row)
    BY <1>1, <1>3, <1>4, ExceptSeq, LenProperties DEF SettingsRows
  <1>7. \A i \in DOMAIN preferences : preferences'[i].memberId = preferences[i].memberId
    BY <1>1, <1>3, <1>5
  <1>8. SettingsRows'
    BY <1>5, <1>6, <1>7 DEF SettingsRows, OneEach
  <1>9. ASSUME NEW k
        PROVE  /\ Preferences!RowsOf(k)' = Preferences!RowsOf(k)
               /\ Preferences!RowOf(k)' = Preferences!RowOf(k)
    <2>1. Preferences!RowsOf(k)' = Preferences!RowsOf(k)
      BY <1>5, <1>7 DEF Preferences!RowsOf
    <2>2. QED
      BY <2>1 DEF Preferences!RowOf
  <1>10. preferences'[Preferences!RowOf(m)'].switches = switches
    BY <1>1, <1>3, <1>5, <1>9
  <1>11. ASSUME NEW k, k # m, Preferences!RowsOf(k) # {}
         PROVE  preferences'[Preferences!RowOf(k)'] = preferences[Preferences!RowOf(k)]
    <2>1. /\ Preferences!RowOf(k) \in DOMAIN preferences
          /\ preferences[Preferences!RowOf(k)].memberId = k
      BY <1>11, TheRow
    <2>2. QED
      BY <1>1, <1>5, <1>9, <1>11, <2>1
  <1>12. QED
    BY <1>8, <1>9, <1>10, <1>11

\* Entities and requests, merged.
LEMMA MergedSwitches ==
    ASSUME NEW dto \in Preferences!Dto
    PROVE  /\ \A entity \in Preferences!Switches :
                 Preferences!Merged(entity, dto) \in Preferences!Switches
           /\ \A entity \in Preferences!Dto :
                 Preferences!Merged(entity, dto) \in Preferences!Dto
  <1> DEFINE columns == {"allEnabled", "marketingEnabled"}
             merged(e) == Preferences!Merged(e, dto)
  <1>1. ASSUME NEW S, NEW e \in [allEnabled: S, marketingEnabled: S],
               \A c \in columns : dto[c] = None \/ dto[c] \in S
        PROVE  merged(e) \in [allEnabled: S, marketingEnabled: S]
    <2>1. DOMAIN e = columns /\ e.allEnabled \in S /\ e.marketingEnabled \in S
      BY <1>1
    <2>2. merged(e) = [c \in columns |-> IF dto[c] = None THEN e[c] ELSE dto[c]]
      BY <2>1 DEF Preferences!Merged
    <2>3. PICK a, b : /\ a = merged(e).allEnabled /\ b = merged(e).marketingEnabled
                      /\ merged(e) = [allEnabled |-> a, marketingEnabled |-> b]
      BY <2>2
    <2>4. a \in S /\ b \in S
      BY <1>1, <2>1, <2>2, <2>3
    <2>5. QED
      BY <2>3, <2>4
  <1>2. \A c \in columns : dto[c] \in BOOLEAN \union {None}
    BY DEF Preferences!Dto
  <1>3. \A c \in columns : dto[c] = None \/ dto[c] \in BOOLEAN
    BY <1>2, Zenon
  <1>4. \A c \in columns : dto[c] = None \/ dto[c] \in BOOLEAN \union {None}
    BY <1>2, Zenon
  <1>5. ASSUME NEW e \in Preferences!Switches
        PROVE  merged(e) \in Preferences!Switches
    BY <1>1, <1>3, <1>5 DEF Preferences!Switches
  <1>6. ASSUME NEW e \in Preferences!Dto
        PROVE  merged(e) \in Preferences!Dto
    BY <1>1, <1>4, <1>6 DEF Preferences!Dto
  <1>7. QED
    BY <1>5, <1>6

\* The switches after an UPDATE of the columns that differ are the entity.
LEMMA WrittenSwitches ==
    ASSUME NEW entity \in Preferences!Switches, NEW row \in Preferences!Switches, NEW columns
    PROVE  /\ Preferences!Written(entity, row, columns) \in Preferences!Switches
           /\ columns = Preferences!Changed(entity, row) =>
                 Preferences!Written(entity, row, columns) = entity
  <1> DEFINE both == {"allEnabled", "marketingEnabled"}
             w == Preferences!Written(entity, row, columns)
  <1>1. /\ DOMAIN row = both /\ DOMAIN entity = both
        /\ entity = [c \in both |-> entity[c]]
        /\ \A c \in both : entity[c] \in BOOLEAN /\ row[c] \in BOOLEAN
    BY DEF Preferences!Switches
  <1>2. w = [c \in both |-> IF c \in columns THEN entity[c] ELSE row[c]]
    BY <1>1 DEF Preferences!Written
  <1>3. \A c \in both : w[c] \in BOOLEAN
    BY <1>1, <1>2, Zenon
  <1>4. PICK a \in BOOLEAN, b \in BOOLEAN : a = w.allEnabled /\ b = w.marketingEnabled
    BY <1>3
  <1>5. w = [allEnabled |-> a, marketingEnabled |-> b]
    BY <1>2, <1>4
  <1>6. ASSUME columns = Preferences!Changed(entity, row)
        PROVE  w = entity
    <2>1. \A c \in both : c \notin columns => entity[c] = row[c]
      BY <1>1, <1>6 DEF Preferences!Changed
    <2>2. \A c \in both : w[c] = entity[c]
      BY <1>2, <2>1
    <2>3. QED
      BY <1>1, <1>2, <2>2
  <1>7. QED
    BY <1>4, <1>5, <1>6 DEF Preferences!Switches

LEMMA SettingsIdle == Preferences!Idle \in Preferences!Transaction
                      /\ Preferences!Idle.stage = "idle"
  BY DEF Preferences!Idle, Preferences!Transaction

\* How a handler goes on with the entity.
LEMMA Continues ==
    ASSUME NEW dto \in Preferences!Dto \union {None}, NEW entity \in Preferences!Switches
    PROVE  \E next \in Preferences!Transaction :
              /\ next = Preferences!Continue(dto, entity)
              /\ \/ next = Preferences!Idle /\ dto = None
                 \/ /\ next.stage = "saving" /\ next.dto \in Preferences!Dto
                    /\ next.entity \in Preferences!Switches
                    /\ next.entity = Preferences!Merged(entity, next.dto)
  <1> DEFINE next == Preferences!Continue(dto, entity)
  <1>1. CASE dto = None
    BY <1>1, SettingsIdle DEF Preferences!Continue
  <1>2. CASE dto # None
    <2>1. PICK e \in Preferences!Switches : e = Preferences!Merged(entity, dto)
      BY <1>2, MergedSwitches
    <2>2. next = [Preferences!Idle EXCEPT !.stage = "saving", !.dto = dto, !.entity = e]
      BY <1>2, <2>1 DEF Preferences!Continue
    <2>3. next = [stage |-> "saving", dto |-> dto, entity |-> e, columns |-> {}]
      BY <2>2 DEF Preferences!Idle
    <2>4. next \in Preferences!Transaction
      BY <2>3 DEF Preferences!Transaction
    <2>5. QED
      BY <1>2, <2>1, <2>3, <2>4
  <1>3. QED
    BY <1>1, <1>2

\* What a step of a handler makes of the invariant: "next" is its record after
\* the step.
LEMMA SettingsAfter ==
    ASSUME SettingsInv, NEW h \in Preferences!Handlers, NEW next \in Preferences!Transaction,
           settingsTxn' = [settingsTxn EXCEPT ![h] = next],
           SettingsRows',
           \A m : Preferences!RowsOf(m) # {} => Preferences!RowsOf(m)' # {},
           next.stage = "idle" => next = Preferences!Idle,
           next.stage \in {"saving", "updating"} =>
              /\ next.dto \in Preferences!Dto /\ next.entity \in Preferences!Switches
              /\ Preferences!RowsOf(h[1])' # {},
           told' \in [Owners -> Preferences!Dto],
           UNCHANGED <<appSettings, appInfo>>, switched' \in 0..MaxSaves
    PROVE  SettingsInv'
  <1>1. settingsTxn \in [Preferences!Handlers -> Preferences!Transaction]
    BY DEF SettingsInv, Preferences!TypeOK
  <1>2. settingsTxn' \in [Preferences!Handlers -> Preferences!Transaction]
    BY <1>1
  <1>3. Preferences!TypeOK'
    BY <1>2 DEF SettingsInv, SettingsRows, Preferences!TypeOK
  <1>4. ASSUME NEW g \in Preferences!Handlers
        PROVE  SettingsRecord(g[1], settingsTxn[g])'
    <2>1. CASE g = h
      <3>1. settingsTxn'[g] = next
        BY <1>1, <2>1
      <3>2. QED
        BY <2>1, <3>1 DEF SettingsRecord
    <2>2. CASE g # h
      <3>1. settingsTxn'[g] = settingsTxn[g]
        BY <1>1, <2>2
      <3>2. SettingsRecord(g[1], settingsTxn[g])
        BY DEF SettingsInv
      <3>3. QED
        BY <3>1, <3>2 DEF SettingsRecord
    <2>3. QED
      BY <2>1, <2>2
  <1>5. QED
    BY <1>3, <1>4 DEF SettingsInv, SettingsRows

LEMMA SettingsRowsHold ==
    ASSUME SettingsInv
    PROVE  SettingsRows
  BY DEF SettingsInv, SettingsRows, Preferences!TypeOK

\* The steps of a handler: those that leave its tables alone.
LEMMA SettingsQuiet ==
    ASSUME SettingsInv, NEW h \in Preferences!Handlers, NEW next \in Preferences!Transaction,
           settingsTxn' = [settingsTxn EXCEPT ![h] = next],
           UNCHANGED <<preferences, appSettings, told, appInfo>>, switched' \in 0..MaxSaves,
           next.stage = "idle" => next = Preferences!Idle,
           next.stage \in {"saving", "updating"} =>
              /\ next.dto \in Preferences!Dto /\ next.entity \in Preferences!Switches
              /\ Preferences!RowsOf(h[1]) # {}
    PROVE  SettingsInv'
  <1>1. \A m : Preferences!RowsOf(m)' = Preferences!RowsOf(m)
    BY DEF Preferences!RowsOf
  <1>2. SettingsRows'
    BY SettingsRowsHold DEF SettingsRows, OneEach
  <1>3. told' \in [Owners -> Preferences!Dto]
    BY DEF SettingsInv, Preferences!TypeOK
  <1>4. QED
    BY <1>1, <1>2, <1>3, SettingsAfter

\* The switches in the row of a member.
Current(m) == preferences[Preferences!RowOf(m)].switches

LEMMA CurrentSwitches ==
    ASSUME SettingsRows, NEW m, Preferences!RowsOf(m) # {}
    PROVE  Current(m) \in Preferences!Switches
  BY TheRow DEF Current

\* Reading the row: the handler answers it, changes it, or is to make it.
LEMMA FindMoves ==
    ASSUME SettingsConstants, SettingsInv,
           NEW h \in Preferences!Handlers, NEW dto \in Preferences!Dto \union {None},
           Preferences!Find(h, dto)
    PROVE  /\ \E next \in Preferences!Transaction :
                 /\ settingsTxn' = [settingsTxn EXCEPT ![h] = next]
                 /\ \/ next = Preferences!Idle
                    \/ next.stage = "creating"
                    \/ /\ next.stage = "saving" /\ next.dto \in Preferences!Dto
                       /\ next.entity \in Preferences!Switches
                       /\ Preferences!RowsOf(h[1]) # {}
                       /\ next.entity = Preferences!Merged(Current(h[1]), next.dto)
           /\ UNCHANGED <<preferences, appSettings, told, appInfo>>
           /\ switched' \in 0..MaxSaves
  <1>1. switched' \in 0..MaxSaves
    BY DEF Preferences!Find, SettingsInv, Preferences!TypeOK, SettingsConstants
  <1>2. CASE Preferences!RowsOf(h[1]) = {}
    <2>1. PICK next : next = [Preferences!Idle EXCEPT !.stage = "creating", !.dto = dto]
      OBVIOUS
    <2>2. next = [stage |-> "creating", dto |-> dto, entity |-> None, columns |-> {}]
      BY <2>1 DEF Preferences!Idle
    <2>3. next \in Preferences!Transaction /\ next.stage = "creating"
      BY <2>2 DEF Preferences!Transaction
    <2>4. settingsTxn' = [settingsTxn EXCEPT ![h] = next]
      BY <1>2, <2>1 DEF Preferences!Find, Preferences!Goto
    <2>5. QED
      BY <1>1, <2>3, <2>4 DEF Preferences!Find
  <1>3. CASE Preferences!RowsOf(h[1]) # {}
    <2>1. Current(h[1]) \in Preferences!Switches
      BY <1>3, CurrentSwitches, SettingsRowsHold
    <2>2. PICK next \in Preferences!Transaction :
              /\ next = Preferences!Continue(dto, Current(h[1]))
              /\ \/ next = Preferences!Idle /\ dto = None
                 \/ /\ next.stage = "saving" /\ next.dto \in Preferences!Dto
                    /\ next.entity \in Preferences!Switches
                    /\ next.entity = Preferences!Merged(Current(h[1]), next.dto)
      BY <2>1, Continues
    <2>3. settingsTxn' = [settingsTxn EXCEPT ![h] = next]
      BY <1>3, <2>2 DEF Preferences!Find, Preferences!Goto, Current
    <2>4. QED
      BY <1>1, <1>3, <2>2, <2>3 DEF Preferences!Find
  <1>4. QED
    BY <1>2, <1>3

\* Making the row, or finding that somebody else has made it.
LEMMA CreateMoves ==
    ASSUME SettingsInv, NEW h \in Preferences!Handlers, Preferences!Create(h)
    PROVE  /\ \E next \in Preferences!Transaction :
                 /\ settingsTxn' = [settingsTxn EXCEPT ![h] = next]
                 /\ \/ next = Preferences!Idle /\ UNCHANGED preferences
                    \/ /\ Preferences!RowsOf(h[1]) = {}
                       /\ preferences' = Append(preferences, [memberId |-> h[1],
                                                              switches |-> Preferences!Default])
                       /\ \/ next = Preferences!Idle
                          \/ /\ next.stage = "saving" /\ next.dto \in Preferences!Dto
                             /\ next.entity \in Preferences!Switches
                             /\ next.entity = Preferences!Merged(Preferences!Default, next.dto)
           /\ settingsTxn[h].stage = "creating"
           /\ UNCHANGED <<appSettings, told, appInfo, switched>>
  <1>1. Preferences!Default \in Preferences!Switches
    BY DEF Preferences!Default, Preferences!Switches
  <1>2. settingsTxn[h].dto \in Preferences!Dto \union {None}
    BY DEF SettingsInv, Preferences!TypeOK, Preferences!Transaction
  <1>3. CASE Preferences!RowsOf(h[1]) = {}
    <2>1. PICK next \in Preferences!Transaction :
              /\ next = Preferences!Continue(settingsTxn[h].dto, Preferences!Default)
              /\ \/ next = Preferences!Idle
                 \/ /\ next.stage = "saving" /\ next.dto \in Preferences!Dto
                    /\ next.entity \in Preferences!Switches
                    /\ next.entity = Preferences!Merged(Preferences!Default, next.dto)
      BY <1>1, <1>2, Continues
    <2>2. settingsTxn' = [settingsTxn EXCEPT ![h] = next]
      BY <1>3, <2>1 DEF Preferences!Create, Preferences!Goto
    <2>3. QED
      BY <1>3, <2>1, <2>2 DEF Preferences!Create
  <1>4. CASE Preferences!RowsOf(h[1]) # {}
    BY <1>4, SettingsIdle DEF Preferences!Create, Preferences!Done, Preferences!Goto
  <1>5. QED
    BY <1>3, <1>4

\* The SELECT of a save.
LEMMA SelectMoves ==
    ASSUME SettingsInv, NEW h \in Preferences!Handlers, Preferences!SaveSelect(h)
    PROVE  /\ \E next \in Preferences!Transaction :
                 /\ settingsTxn' = [settingsTxn EXCEPT ![h] = next]
                 /\ next.stage = "updating" /\ settingsTxn[h].stage = "saving"
                 /\ next.dto = settingsTxn[h].dto /\ next.entity = settingsTxn[h].entity
                 /\ next.columns = Preferences!Changed(next.entity, Current(h[1]))
                 /\ next.dto \in Preferences!Dto /\ next.entity \in Preferences!Switches
           /\ Preferences!RowsOf(h[1]) # {}
           /\ UNCHANGED <<preferences, appSettings, told, appInfo, switched>>
  <1>1. PICK t \in Preferences!Transaction : t = settingsTxn[h]
    BY DEF SettingsInv, Preferences!TypeOK
  <1>2. /\ t.stage = "saving" /\ t.dto \in Preferences!Dto /\ t.entity \in Preferences!Switches
        /\ Preferences!RowsOf(h[1]) # {}
    BY <1>1 DEF SettingsInv, SettingsRecord, Preferences!SaveSelect
  <1>3. PICK columns : columns = Preferences!Changed(t.entity, Current(h[1]))
    OBVIOUS
  <1>4. columns \in SUBSET {"allEnabled", "marketingEnabled"}
    <2>1. Current(h[1]) \in Preferences!Switches
      BY <1>2, CurrentSwitches, SettingsRowsHold
    <2>2. QED
      BY <1>3, <2>1 DEF Preferences!Changed, Preferences!Switches
  <1>5. PICK next : next = [t EXCEPT !.stage = "updating", !.columns = columns]
    OBVIOUS
  <1>6. /\ next.stage = "updating" /\ next.columns = columns
        /\ next.dto = t.dto /\ next.entity = t.entity
        /\ next \in Preferences!Transaction
    BY <1>4, <1>5 DEF Preferences!Transaction
  <1>7. settingsTxn' = [settingsTxn EXCEPT ![h] = next]
    BY <1>1, <1>3, <1>5 DEF Preferences!SaveSelect, Preferences!Goto, Current
  <1>8. QED
    BY <1>1, <1>2, <1>3, <1>6, <1>7 DEF Preferences!SaveSelect

\* The UPDATE of a save.
LEMMA UpdateMoves ==
    ASSUME SettingsInv, NEW h \in Preferences!Handlers, Preferences!SaveUpdate(h)
    PROVE  /\ \E switches \in Preferences!Switches, merged \in Preferences!Dto :
                 /\ switches = Preferences!Written(settingsTxn[h].entity, Current(h[1]),
                                                   settingsTxn[h].columns)
                 /\ preferences' = [preferences EXCEPT ![Preferences!RowOf(h[1])].switches = switches]
                 /\ merged = Preferences!Merged(told[h[1]], settingsTxn[h].dto)
                 /\ told' = [told EXCEPT ![h[1]] = merged]
           /\ settingsTxn' = [settingsTxn EXCEPT ![h] = Preferences!Idle]
           /\ settingsTxn[h].stage = "updating"
           /\ settingsTxn[h].dto \in Preferences!Dto
           /\ settingsTxn[h].entity \in Preferences!Switches
           /\ Preferences!RowsOf(h[1]) # {}
           /\ UNCHANGED <<appSettings, appInfo, switched>>
  <1>1. /\ settingsTxn[h].stage = "updating"
        /\ settingsTxn[h].dto \in Preferences!Dto
        /\ settingsTxn[h].entity \in Preferences!Switches
        /\ Preferences!RowsOf(h[1]) # {}
    BY DEF SettingsInv, SettingsRecord, Preferences!SaveUpdate
  <1>2. Current(h[1]) \in Preferences!Switches
    BY <1>1, CurrentSwitches, SettingsRowsHold
  <1>4. PICK switches \in Preferences!Switches :
            switches = Preferences!Written(settingsTxn[h].entity, Current(h[1]),
                                           settingsTxn[h].columns)
    BY <1>1, <1>2, WrittenSwitches
  <1>5. told[h[1]] \in Preferences!Dto
    BY SettingsHandler DEF SettingsInv, Preferences!TypeOK
  <1>6. PICK merged \in Preferences!Dto :
            merged = Preferences!Merged(told[h[1]], settingsTxn[h].dto)
    BY <1>1, <1>5, MergedSwitches
  <1>7. preferences' = [preferences EXCEPT ![Preferences!RowOf(h[1])].switches = switches]
    BY <1>4 DEF Preferences!SaveUpdate, Current
  <1>8. told' = [told EXCEPT ![h[1]] = merged]
    BY <1>6 DEF Preferences!SaveUpdate
  <1>9. \E all \in Preferences!Switches, new \in Preferences!Dto :
            /\ all = Preferences!Written(settingsTxn[h].entity, Current(h[1]),
                                         settingsTxn[h].columns)
            /\ preferences' = [preferences EXCEPT ![Preferences!RowOf(h[1])].switches = all]
            /\ new = Preferences!Merged(told[h[1]], settingsTxn[h].dto)
            /\ told' = [told EXCEPT ![h[1]] = new]
    BY <1>4, <1>6, <1>7, <1>8, Zenon
  <1>10. /\ settingsTxn' = [settingsTxn EXCEPT ![h] = Preferences!Idle]
         /\ UNCHANGED <<appSettings, appInfo, switched>>
    BY DEF Preferences!SaveUpdate, Preferences!Done, Preferences!Goto
  <1>11. QED
    BY <1>1, <1>9, <1>10, Zenon

LEMMA SettingsInductive ==
    ASSUME SettingsConstants, SettingsInv, [Preferences!Next]_settingsVars
    PROVE  SettingsInv'
  <1>s. SettingsRows /\ switched \in 0..MaxSaves
    BY SettingsRowsHold DEF SettingsInv, Preferences!TypeOK
  <1>1. CASE UNCHANGED settingsVars
    BY <1>1 DEF settingsVars, SettingsInv, SettingsRecord, OneEach, Preferences!TypeOK,
                Preferences!RowsOf
  <1>2. ASSUME NEW h \in Preferences!Handlers, NEW dto \in Preferences!Dto \union {None},
               Preferences!Find(h, dto)
        PROVE  SettingsInv'
    <2>1. PICK next \in Preferences!Transaction :
              /\ settingsTxn' = [settingsTxn EXCEPT ![h] = next]
              /\ \/ next = Preferences!Idle
                 \/ next.stage = "creating"
                 \/ /\ next.stage = "saving" /\ next.dto \in Preferences!Dto
                    /\ next.entity \in Preferences!Switches
                    /\ Preferences!RowsOf(h[1]) # {}
      BY <1>2, FindMoves
    <2>2. /\ next.stage = "idle" => next = Preferences!Idle
          /\ next.stage \in {"saving", "updating"} =>
                /\ next.dto \in Preferences!Dto /\ next.entity \in Preferences!Switches
                /\ Preferences!RowsOf(h[1]) # {}
      BY <2>1, SettingsIdle
    <2>3. UNCHANGED <<preferences, appSettings, told, appInfo>> /\ switched' \in 0..MaxSaves
      BY <1>2, FindMoves
    <2>4. QED
      BY <2>1, <2>2, <2>3, SettingsQuiet
  <1>3. ASSUME NEW h \in Preferences!Handlers, Preferences!Create(h)
        PROVE  SettingsInv'
    <2>1. PICK next \in Preferences!Transaction :
              /\ settingsTxn' = [settingsTxn EXCEPT ![h] = next]
              /\ \/ next = Preferences!Idle /\ UNCHANGED preferences
                 \/ /\ Preferences!RowsOf(h[1]) = {}
                    /\ preferences' = Append(preferences, [memberId |-> h[1],
                                                           switches |-> Preferences!Default])
                    /\ \/ next = Preferences!Idle
                       \/ /\ next.stage = "saving" /\ next.dto \in Preferences!Dto
                          /\ next.entity \in Preferences!Switches
      BY <1>3, CreateMoves
    <2>2. UNCHANGED <<appSettings, told, appInfo, switched>>
      BY <1>3, CreateMoves
    <2>3. CASE next = Preferences!Idle /\ UNCHANGED preferences
      BY <1>s, <2>1, <2>2, <2>3, SettingsQuiet, SettingsIdle
    <2>4. CASE /\ Preferences!RowsOf(h[1]) = {}
               /\ preferences' = Append(preferences, [memberId |-> h[1],
                                                      switches |-> Preferences!Default])
               /\ \/ next = Preferences!Idle
                  \/ /\ next.stage = "saving" /\ next.dto \in Preferences!Dto
                     /\ next.entity \in Preferences!Switches
      <3>1. PICK row : row = [memberId |-> h[1], switches |-> Preferences!Default]
        OBVIOUS
      <3>2. row \in Preferences!Row /\ row.memberId = h[1]
        BY <3>1, SettingsHandler
           DEF Preferences!Row, Preferences!Switches, Preferences!Default
      <3>3. /\ SettingsRows' /\ Preferences!RowsOf(h[1])' # {}
            /\ \A m : m # h[1] => Preferences!RowsOf(m)' = Preferences!RowsOf(m)
        BY <1>s, <2>4, <3>1, <3>2, NewRow
      <3>4. \A m : Preferences!RowsOf(m) # {} => Preferences!RowsOf(m)' # {}
        BY <2>4, <3>3
      <3>5. told' \in [Owners -> Preferences!Dto] /\ switched' \in 0..MaxSaves
        BY <1>s, <2>2 DEF SettingsInv, Preferences!TypeOK
      <3>6. /\ next.stage = "idle" => next = Preferences!Idle
            /\ next.stage \in {"saving", "updating"} =>
                  /\ next.dto \in Preferences!Dto /\ next.entity \in Preferences!Switches
                  /\ Preferences!RowsOf(h[1])' # {}
        BY <2>4, <3>3, SettingsIdle
      <3>7. QED
        BY <2>1, <2>2, <3>3, <3>4, <3>5, <3>6, SettingsAfter
    <2>5. QED
      BY <2>1, <2>3, <2>4
  <1>4. ASSUME NEW h \in Preferences!Handlers, Preferences!SaveSelect(h)
        PROVE  SettingsInv'
    <2>1. PICK next \in Preferences!Transaction :
              /\ settingsTxn' = [settingsTxn EXCEPT ![h] = next]
              /\ next.stage = "updating"
              /\ next.dto \in Preferences!Dto /\ next.entity \in Preferences!Switches
      BY <1>4, SelectMoves
    <2>2. /\ UNCHANGED <<preferences, appSettings, told, appInfo, switched>>
          /\ Preferences!RowsOf(h[1]) # {}
      BY <1>4, SelectMoves
    <2>3. QED
      BY <1>s, <2>1, <2>2, SettingsQuiet
  <1>5. ASSUME NEW h \in Preferences!Handlers, Preferences!SaveUpdate(h)
        PROVE  SettingsInv'
    <2>1. PICK switches \in Preferences!Switches, merged \in Preferences!Dto :
              /\ switches = Preferences!Written(settingsTxn[h].entity, Current(h[1]),
                                                settingsTxn[h].columns)
              /\ preferences' = [preferences EXCEPT ![Preferences!RowOf(h[1])].switches = switches]
              /\ merged = Preferences!Merged(told[h[1]], settingsTxn[h].dto)
              /\ told' = [told EXCEPT ![h[1]] = merged]
      BY <1>5, UpdateMoves
    <2>2. /\ settingsTxn' = [settingsTxn EXCEPT ![h] = Preferences!Idle]
          /\ Preferences!RowsOf(h[1]) # {}
          /\ UNCHANGED <<appSettings, appInfo, switched>>
      BY <1>5, UpdateMoves
    <2>3. SettingsRows' /\ \A k : Preferences!RowsOf(k)' = Preferences!RowsOf(k)
      BY <1>s, <2>1, <2>2, NewSwitches
    <2>4. told' \in [Owners -> Preferences!Dto] /\ switched' \in 0..MaxSaves
      BY <1>s, <2>1, <2>2, SettingsHandler DEF SettingsInv, Preferences!TypeOK
    <2>5. QED
      BY <2>2, <2>3, <2>4, SettingsIdle, SettingsAfter
  <1>6. ASSUME NEW h \in Preferences!Handlers, Preferences!Interrupt(h)
        PROVE  SettingsInv'
    <2>1. settingsTxn' = [settingsTxn EXCEPT ![h] = Preferences!Idle]
      BY <1>6 DEF Preferences!Interrupt, Preferences!Done, Preferences!Goto
    <2>2. UNCHANGED <<preferences, appSettings, told, appInfo, switched>>
      BY <1>6 DEF Preferences!Interrupt
    <2>3. QED
      BY <1>s, <2>1, <2>2, SettingsQuiet, SettingsIdle
  <1>7. ASSUME \/ Preferences!GetAppInfo
               \/ \E info \in Infos : Preferences!UpdateAppInfo(info)
        PROVE  SettingsInv'
    <2>1. /\ UNCHANGED <<preferences, appSettings, settingsTxn, told, switched>>
          /\ appInfo' = Preferences!Refused
      BY <1>7 DEF Preferences!GetAppInfo, Preferences!UpdateAppInfo,
                  Preferences!LatestAppSetting
    <2>2. Preferences!TypeOK'
      BY <2>1 DEF SettingsInv, Preferences!TypeOK
    <2>3. QED
      BY <2>1, <2>2 DEF SettingsInv, SettingsRecord, OneEach, Preferences!RowsOf
  <1>8. QED
    BY <1>1, <1>2, <1>3, <1>4, <1>5, <1>6, <1>7 DEF Preferences!Next

-----------------------------------------------------------------------------
\* What holds as long as the devices of a member wait for each other.

\* The switches a member was told of are those in its row.
Kept(m) ==
    \A c \in {"allEnabled", "marketingEnabled"} :
        told[m][c] # None => Preferences!RowsOf(m) # {} /\ Current(m)[c] = told[m][c]

\* A handler that saves holds the row with the changes of its request in it.
Follows(t, switches) ==
    /\ t.stage \in {"saving", "updating"} => t.entity = Preferences!Merged(switches, t.dto)
    /\ t.stage = "updating" => t.columns = Preferences!Changed(t.entity, switches)

SettingsSerial ==
    /\ \A m \in Owners : Kept(m)
    /\ \A h \in Preferences!Handlers : Follows(settingsTxn[h], Current(h[1]))

\* What a step of a handler makes of it.  The step leaves other members alone,
\* and other devices of its own member do nothing.
LEMMA SerialAfter ==
    ASSUME SettingsInv, SettingsSerial, OneDevice(settingsTxn), OneDevice(settingsTxn'),
           NEW h \in Preferences!Handlers, NEW next \in Preferences!Transaction,
           settingsTxn' = [settingsTxn EXCEPT ![h] = next],
           \/ settingsTxn[h].stage # "idle" \/ next.stage # "idle"
           \/ Current(h[1])' = Current(h[1]),
           \A m \in Owners : m # h[1] =>
              /\ told'[m] = told[m] /\ Preferences!RowsOf(m)' = Preferences!RowsOf(m)
              /\ Preferences!RowsOf(m) # {} => Current(m)' = Current(m),
           Kept(h[1])', Follows(next, Current(h[1])')
    PROVE  SettingsSerial'
  <1>1. ASSUME NEW m \in Owners
        PROVE  Kept(m)'
    BY DEF SettingsSerial, Kept
  <1>2. ASSUME NEW g \in Preferences!Handlers
        PROVE  Follows(settingsTxn'[g], Current(g[1])')
    <2>1. settingsTxn \in [Preferences!Handlers -> Preferences!Transaction]
      BY DEF SettingsInv, Preferences!TypeOK
    <2>2. CASE g = h
      BY <2>1, <2>2
    <2>3. CASE g # h
      <3>1. settingsTxn'[g] = settingsTxn[g] /\ settingsTxn'[h] = next
        BY <2>1, <2>3
      <3>2. Follows(settingsTxn[g], Current(g[1]))
        BY DEF SettingsSerial
      <3>3. settingsTxn[g].stage \in {"saving", "updating"} =>
                Preferences!RowsOf(g[1]) # {} /\ settingsTxn[g].stage # "idle"
        BY DEF SettingsInv, SettingsRecord
      <3>4. CASE g[1] # h[1]
        <4>1. g[1] \in Owners
          BY SettingsHandler
        <4>2. Preferences!RowsOf(g[1]) # {} => Current(g[1])' = Current(g[1])
          BY <3>4, <4>1
        <4>3. QED
          BY <3>1, <3>2, <3>3, <4>2 DEF Follows
      <3>5. CASE g[1] = h[1]
        <4>1. /\ g = <<h[1], g[2]>> /\ h = <<h[1], h[2]>>
              /\ h[1] \in Owners /\ g[2] \in Devices /\ h[2] \in Devices
          BY <3>5, SettingsHandler
        <4>2. settingsTxn[h].stage # "idle" => settingsTxn[g].stage = "idle"
          BY <2>3, <4>1 DEF OneDevice
        <4>3. next.stage # "idle" => settingsTxn[g].stage = "idle"
          BY <2>3, <3>1, <4>1 DEF OneDevice
        <4>4. QED
          BY <3>1, <3>2, <3>5, <4>2, <4>3 DEF Follows
      <3>6. QED
        BY <3>4, <3>5
    <2>4. QED
      BY <2>2, <2>3
  <1>3. QED
    BY <1>1, <1>2 DEF SettingsSerial

\* The steps that leave the rows and the answers alone.
LEMMA SerialQuiet ==
    ASSUME SettingsInv, SettingsSerial, OneDevice(settingsTxn), OneDevice(settingsTxn'),
           NEW h \in Preferences!Handlers, NEW next \in Preferences!Transaction,
           settingsTxn' = [settingsTxn EXCEPT ![h] = next],
           UNCHANGED <<preferences, told>>, Follows(next, Current(h[1]))
    PROVE  SettingsSerial'
  <1>1. \A m : Preferences!RowsOf(m)' = Preferences!RowsOf(m)
    BY DEF Preferences!RowsOf
  <1>2. \A m : Current(m)' = Current(m)
    BY <1>1 DEF Current, Preferences!RowOf
  <1>3. Kept(h[1])'
    <2>1. Kept(h[1])
      BY SettingsHandler DEF SettingsSerial
    <2>2. QED
      BY <1>1, <1>2, <2>1 DEF Kept
  <1>4. Follows(next, Current(h[1])')
    BY <1>2
  <1>5. \A m \in Owners : m # h[1] =>
            /\ told'[m] = told[m] /\ Preferences!RowsOf(m)' = Preferences!RowsOf(m)
            /\ Preferences!RowsOf(m) # {} => Current(m)' = Current(m)
    BY <1>1, <1>2
  <1>6. QED
    BY <1>2, <1>3, <1>4, <1>5, SerialAfter

LEMMA SerialCreate ==
    ASSUME SettingsInv, SettingsSerial, OneDevice(settingsTxn), OneDevice(settingsTxn'),
           NEW h \in Preferences!Handlers, Preferences!Create(h)
    PROVE  SettingsSerial'
  <1>1. PICK next \in Preferences!Transaction :
            /\ settingsTxn' = [settingsTxn EXCEPT ![h] = next]
            /\ \/ next = Preferences!Idle /\ UNCHANGED preferences
               \/ /\ Preferences!RowsOf(h[1]) = {}
                  /\ preferences' = Append(preferences, [memberId |-> h[1],
                                                         switches |-> Preferences!Default])
                  /\ \/ next = Preferences!Idle
                     \/ /\ next.stage = "saving"
                        /\ next.entity = Preferences!Merged(Preferences!Default, next.dto)
    BY CreateMoves
  <1>2. settingsTxn[h].stage = "creating" /\ told' = told
    BY CreateMoves
  <1>3. CASE next = Preferences!Idle /\ UNCHANGED preferences
    <2>1. Follows(next, Current(h[1]))
      BY <1>3, SettingsIdle DEF Follows
    <2>2. QED
      BY <1>1, <1>2, <1>3, <2>1, SerialQuiet
  <1>4. CASE /\ Preferences!RowsOf(h[1]) = {}
             /\ preferences' = Append(preferences, [memberId |-> h[1],
                                                    switches |-> Preferences!Default])
             /\ \/ next = Preferences!Idle
                \/ /\ next.stage = "saving"
                   /\ next.entity = Preferences!Merged(Preferences!Default, next.dto)
    <2>1. PICK row : row = [memberId |-> h[1], switches |-> Preferences!Default]
      OBVIOUS
    <2>2. /\ row \in Preferences!Row /\ row.memberId = h[1]
          /\ row.switches = Preferences!Default
      BY <2>1, SettingsHandler
         DEF Preferences!Row, Preferences!Switches, Preferences!Default
    <2>3. /\ preferences'[Preferences!RowOf(h[1])'] = row
          /\ \A m : m # h[1] =>
                /\ Preferences!RowsOf(m)' = Preferences!RowsOf(m)
                /\ Preferences!RowsOf(m) # {} =>
                      preferences'[Preferences!RowOf(m)'] = preferences[Preferences!RowOf(m)]
      BY <1>4, <2>1, <2>2, SettingsRowsHold, NewRow
    <2>4. \A m \in Owners : m # h[1] =>
              /\ told'[m] = told[m] /\ Preferences!RowsOf(m)' = Preferences!RowsOf(m)
              /\ Preferences!RowsOf(m) # {} => Current(m)' = Current(m)
      BY <1>2, <2>3 DEF Current
    <2>5. Current(h[1])' = Preferences!Default
      BY <2>2, <2>3 DEF Current
    <2>6. Follows(next, Preferences!Default)
      BY <1>4, SettingsIdle DEF Follows
    <2>7. Kept(h[1])'
      <3>1. Kept(h[1])
        BY SettingsHandler DEF SettingsSerial
      <3>2. \A c \in {"allEnabled", "marketingEnabled"} : told[h[1]][c] = None
        BY <1>4, <3>1 DEF Kept
      <3>3. QED
        BY <1>2, <3>2 DEF Kept
    <2>8. QED
      BY <1>1, <1>2, <2>4, <2>5, <2>6, <2>7, SerialAfter
  <1>5. QED
    BY <1>1, <1>3, <1>4

LEMMA SerialUpdate ==
    ASSUME SettingsInv, SettingsSerial, OneDevice(settingsTxn), OneDevice(settingsTxn'),
           NEW h \in Preferences!Handlers, Preferences!SaveUpdate(h)
    PROVE  SettingsSerial'
  <1>1. PICK switches \in Preferences!Switches, merged \in Preferences!Dto :
            /\ switches = Preferences!Written(settingsTxn[h].entity, Current(h[1]),
                                              settingsTxn[h].columns)
            /\ preferences' = [preferences EXCEPT ![Preferences!RowOf(h[1])].switches = switches]
            /\ merged = Preferences!Merged(told[h[1]], settingsTxn[h].dto)
            /\ told' = [told EXCEPT ![h[1]] = merged]
    BY UpdateMoves
  <1>2. /\ settingsTxn' = [settingsTxn EXCEPT ![h] = Preferences!Idle]
        /\ settingsTxn[h].stage = "updating"
        /\ settingsTxn[h].dto \in Preferences!Dto
        /\ settingsTxn[h].entity \in Preferences!Switches
        /\ Preferences!RowsOf(h[1]) # {}
    BY UpdateMoves
  <1>3. /\ \A k : Preferences!RowsOf(k)' = Preferences!RowsOf(k)
        /\ preferences'[Preferences!RowOf(h[1])'].switches = switches
        /\ \A k : k # h[1] /\ Preferences!RowsOf(k) # {} =>
              preferences'[Preferences!RowOf(k)'] = preferences[Preferences!RowOf(k)]
    BY <1>1, <1>2, SettingsRowsHold, NewSwitches
  <1>4. Current(h[1]) \in Preferences!Switches
    BY <1>2, SettingsRowsHold, CurrentSwitches
  <1>5. switches = Preferences!Merged(Current(h[1]), settingsTxn[h].dto)
    <2>1. /\ settingsTxn[h].entity = Preferences!Merged(Current(h[1]), settingsTxn[h].dto)
          /\ settingsTxn[h].columns =
                Preferences!Changed(settingsTxn[h].entity, Current(h[1]))
      BY <1>1, <1>2 DEF SettingsSerial, Follows
    <2>2. switches = settingsTxn[h].entity
      BY <1>1, <1>2, <1>4, <2>1, WrittenSwitches
    <2>3. QED
      BY <2>1, <2>2
  <1>6. h[1] \in Owners /\ told \in [Owners -> Preferences!Dto]
    BY SettingsHandler DEF SettingsInv, Preferences!TypeOK
  <1>7. told'[h[1]] = merged /\ \A m \in Owners : m # h[1] => told'[m] = told[m]
    BY <1>1, <1>6
  <1>8. ASSUME NEW c \in {"allEnabled", "marketingEnabled"}, merged[c] # None
        PROVE  switches[c] = merged[c]
    <2>1. /\ switches[c] = IF settingsTxn[h].dto[c] = None THEN Current(h[1])[c]
                           ELSE settingsTxn[h].dto[c]
          /\ merged[c] = IF settingsTxn[h].dto[c] = None THEN told[h[1]][c]
                         ELSE settingsTxn[h].dto[c]
      <3>1. told[h[1]] \in Preferences!Dto
        BY <1>6
      <3>2. c \in DOMAIN Current(h[1]) /\ c \in DOMAIN told[h[1]]
        BY <1>4, <3>1 DEF Preferences!Switches, Preferences!Dto
      <3>3. QED
        BY <1>1, <1>5, <3>2 DEF Preferences!Merged
    <2>2. told[h[1]][c] # None => Current(h[1])[c] = told[h[1]][c]
      BY <1>6 DEF SettingsSerial, Kept
    <2>3. QED
      BY <1>8, <2>1, <2>2
  <1>9. Kept(h[1])'
    BY <1>2, <1>3, <1>7, <1>8 DEF Kept, Current
  <1>10. \A m \in Owners : m # h[1] =>
            /\ told'[m] = told[m] /\ Preferences!RowsOf(m)' = Preferences!RowsOf(m)
            /\ Preferences!RowsOf(m) # {} => Current(m)' = Current(m)
    BY <1>3, <1>7 DEF Current
  <1>11. Follows(Preferences!Idle, Current(h[1])')
    BY SettingsIdle DEF Follows
  <1>12. QED
    BY <1>2, <1>9, <1>10, <1>11, SettingsIdle, SerialAfter

LEMMA SettingsSerialInductive ==
    ASSUME SettingsConstants, SettingsInv, SettingsSerial,
           OneDevice(settingsTxn), OneDevice(settingsTxn'), [Preferences!Next]_settingsVars
    PROVE  SettingsSerial'
  <1>1. CASE UNCHANGED settingsVars
    BY <1>1 DEF settingsVars, SettingsSerial, Kept, Current, Preferences!RowOf,
                Preferences!RowsOf
  <1>2. ASSUME NEW h \in Preferences!Handlers, NEW dto \in Preferences!Dto \union {None},
               Preferences!Find(h, dto)
        PROVE  SettingsSerial'
    <2>1. PICK next \in Preferences!Transaction :
              /\ settingsTxn' = [settingsTxn EXCEPT ![h] = next]
              /\ \/ next = Preferences!Idle
                 \/ next.stage = "creating"
                 \/ /\ next.stage = "saving"
                    /\ next.entity = Preferences!Merged(Current(h[1]), next.dto)
      BY <1>2, FindMoves
    <2>2. Follows(next, Current(h[1]))
      BY <2>1, SettingsIdle DEF Follows
    <2>3. UNCHANGED <<preferences, told>>
      BY <1>2, FindMoves
    <2>4. QED
      BY <2>1, <2>2, <2>3, SerialQuiet
  <1>3. ASSUME NEW h \in Preferences!Handlers, Preferences!SaveSelect(h)
        PROVE  SettingsSerial'
    <2>1. PICK next \in Preferences!Transaction :
              /\ settingsTxn' = [settingsTxn EXCEPT ![h] = next]
              /\ settingsTxn[h].stage = "saving" /\ next.stage = "updating"
              /\ next.dto = settingsTxn[h].dto /\ next.entity = settingsTxn[h].entity
              /\ next.columns = Preferences!Changed(next.entity, Current(h[1]))
      BY <1>3, SelectMoves
    <2>2. Follows(next, Current(h[1]))
      BY <2>1 DEF SettingsSerial, Follows
    <2>3. UNCHANGED <<preferences, told>>
      BY <1>3, SelectMoves
    <2>4. QED
      BY <2>1, <2>2, <2>3, SerialQuiet
  <1>4. ASSUME NEW h \in Preferences!Handlers, Preferences!Interrupt(h)
        PROVE  SettingsSerial'
    <2>1. /\ settingsTxn' = [settingsTxn EXCEPT ![h] = Preferences!Idle]
          /\ UNCHANGED <<preferences, told>>
      BY <1>4 DEF Preferences!Interrupt, Preferences!Done, Preferences!Goto
    <2>2. Follows(Preferences!Idle, Current(h[1]))
      BY SettingsIdle DEF Follows
    <2>3. QED
      BY <2>1, <2>2, SettingsIdle, SerialQuiet
  <1>5. ASSUME \/ Preferences!GetAppInfo
               \/ \E info \in Infos : Preferences!UpdateAppInfo(info)
        PROVE  SettingsSerial'
    <2>1. UNCHANGED <<preferences, settingsTxn, told>>
      BY <1>5 DEF Preferences!GetAppInfo, Preferences!UpdateAppInfo
    <2>2. QED
      BY <2>1 DEF SettingsSerial, Kept, Current, Preferences!RowOf, Preferences!RowsOf
  <1>6. QED
    BY <1>1, <1>2, <1>3, <1>4, <1>5, SerialCreate, SerialUpdate DEF Preferences!Next

-----------------------------------------------------------------------------
\* What the summary shows.

LEMMA SummarySame ==
    ASSUME NEW m, Preferences!RowsOf(m)' = Preferences!RowsOf(m),
           Preferences!RowsOf(m) # {} =>
              preferences'[Preferences!RowOf(m)'] = preferences[Preferences!RowOf(m)]
    PROVE  Preferences!SummaryAllEnabled(m)' = Preferences!SummaryAllEnabled(m)
  BY DEF Preferences!SummaryAllEnabled

\* Only the UPDATE of a save changes it: a new row shows what no row shows.
LEMMA SummaryStep ==
    ASSUME SettingsConstants, SettingsInv, Preferences!Next, NEW m \in Owners,
           Preferences!SummaryAllEnabled(m)' # Preferences!SummaryAllEnabled(m)
    PROVE  \E d \in Devices : settingsTxn[<<m, d>>].stage = "updating"
  <1>1. CASE UNCHANGED preferences
    BY <1>1 DEF Preferences!SummaryAllEnabled, Preferences!RowOf, Preferences!RowsOf
  <1>2. CASE \E h \in Preferences!Handlers : Preferences!Create(h)
    <2>1. PICK h \in Preferences!Handlers : Preferences!Create(h)
      BY <1>2
    <2>2. CASE Preferences!RowsOf(h[1]) = {}
      <3>1. PICK row : row = [memberId |-> h[1], switches |-> Preferences!Default]
        OBVIOUS
      <3>2. /\ row \in Preferences!Row /\ row.memberId = h[1]
            /\ row.switches.allEnabled = TRUE
        BY <3>1, SettingsHandler
           DEF Preferences!Row, Preferences!Switches, Preferences!Default
      <3>3. preferences' = Append(preferences, row)
        BY <2>1, <2>2, <3>1 DEF Preferences!Create
      <3>4. /\ Preferences!RowsOf(h[1])' # {}
            /\ preferences'[Preferences!RowOf(h[1])'] = row
            /\ \A k : k # h[1] =>
                  /\ Preferences!RowsOf(k)' = Preferences!RowsOf(k)
                  /\ Preferences!RowsOf(k) # {} =>
                        preferences'[Preferences!RowOf(k)'] = preferences[Preferences!RowOf(k)]
        BY <2>2, <3>2, <3>3, SettingsRowsHold, NewRow
      <3>5. CASE m = h[1]
        <4>1. Preferences!SummaryAllEnabled(m) = TRUE
          BY <2>2, <3>5 DEF Preferences!SummaryAllEnabled
        <4>2. Preferences!SummaryAllEnabled(m)' = TRUE
          BY <3>2, <3>4, <3>5 DEF Preferences!SummaryAllEnabled
        <4>3. QED
          BY <4>1, <4>2
      <3>6. CASE m # h[1]
        BY <3>4, <3>6, SummarySame
      <3>7. QED
        BY <3>5, <3>6
    <2>3. CASE Preferences!RowsOf(h[1]) # {}
      BY <1>1, <2>1, <2>3 DEF Preferences!Create
    <2>4. QED
      BY <2>2, <2>3
  <1>3. CASE \E h \in Preferences!Handlers : Preferences!SaveUpdate(h)
    <2>1. PICK h \in Preferences!Handlers : Preferences!SaveUpdate(h)
      BY <1>3
    <2>2. CASE m = h[1]
      <3>1. settingsTxn[<<m, h[2]>>].stage = "updating" /\ h[2] \in Devices
        BY <2>1, <2>2, SettingsHandler DEF Preferences!SaveUpdate
      <3>2. QED
        BY <3>1
    <2>3. CASE m # h[1]
      <3>1. PICK switches \in Preferences!Switches :
                preferences' = [preferences EXCEPT ![Preferences!RowOf(h[1])].switches = switches]
        BY <2>1, UpdateMoves
      <3>2. Preferences!RowsOf(h[1]) # {}
        BY <2>1, UpdateMoves
      <3>3. /\ Preferences!RowsOf(m)' = Preferences!RowsOf(m)
            /\ Preferences!RowsOf(m) # {} =>
                  preferences'[Preferences!RowOf(m)'] = preferences[Preferences!RowOf(m)]
        BY <2>3, <3>1, <3>2, SettingsRowsHold, NewSwitches
      <3>4. QED
        BY <3>3, SummarySame
    <2>4. QED
      BY <2>2, <2>3
  <1>4. QED
    BY <1>1, <1>2, <1>3
       DEF Preferences!Next, Preferences!Find, Preferences!SaveSelect, Preferences!Interrupt,
           Preferences!GetAppInfo, Preferences!UpdateAppInfo

LEMMA SettingsInit ==
    ASSUME SettingsConstants, Preferences!Init
    PROVE  SettingsInv /\ SettingsSerial /\ OneDevice(settingsTxn)
  <1>1. /\ preferences = <<>> /\ appInfo = None /\ switched = 0
        /\ settingsTxn = [h \in Preferences!Handlers |-> Preferences!Idle]
        /\ told = [m \in Owners |-> [allEnabled |-> None, marketingEnabled |-> None]]
        /\ appSettings \in {<<>>} \union {<<i>> : i \in Infos}
    BY DEF Preferences!Init
  <1>2. settingsTxn \in [Preferences!Handlers -> Preferences!Transaction]
    BY <1>1, SettingsIdle
  <1>3. told \in [Owners -> Preferences!Dto]
    BY <1>1 DEF Preferences!Dto
  <1>4. preferences \in Seq(Preferences!Row) /\ OneEach
    BY <1>1 DEF OneEach
  <1>5. switched \in 0..MaxSaves
    BY <1>1 DEF SettingsConstants
  <1>6. \A h \in Preferences!Handlers : SettingsRecord(h[1], settingsTxn[h])
    BY <1>1, SettingsIdle DEF SettingsRecord
  <1>t. appSettings \in Seq(Infos)
    <2>1. CASE appSettings = <<>>
      BY <2>1
    <2>2. CASE \E i \in Infos : appSettings = <<i>>
      BY <2>2
    <2>3. QED
      BY <1>1, <2>1, <2>2
  <1>7. SettingsInv
    BY <1>1, <1>2, <1>3, <1>4, <1>5, <1>6, <1>t DEF SettingsInv, Preferences!TypeOK
  <1>8. \A m \in Owners : Kept(m)
    BY <1>1 DEF Kept
  <1>9. \A h \in Preferences!Handlers : Follows(settingsTxn[h], Current(h[1]))
    BY <1>1, SettingsIdle DEF Follows
  <1>10. OneDevice(settingsTxn)
    BY <1>1, SettingsIdle DEF OneDevice, Preferences!Handlers
  <1>11. QED
    BY <1>7, <1>8, <1>9, <1>10 DEF SettingsSerial

LEMMA OneRowEach ==
    ASSUME SettingsInv
    PROVE  Preferences!OneRow
  <1>1. ASSUME NEW m \in Owners
        PROVE  Preferences!Cardinality(Preferences!RowsOf(m)) <= 1
    <2>1. Preferences!Cardinality(Preferences!RowsOf(m)) = Cardinality(Preferences!RowsOf(m))
      BY DEF Preferences!Cardinality, Cardinality
    <2>2. CASE Preferences!RowsOf(m) = {}
      BY <2>1, <2>2, FS_EmptySet
    <2>3. CASE Preferences!RowsOf(m) # {}
      <3>1. PICK i : i \in Preferences!RowsOf(m)
        BY <2>3
      <3>2. \A j \in Preferences!RowsOf(m) : j = i
        BY <3>1 DEF SettingsInv, OneEach, Preferences!RowsOf
      <3>3. Preferences!RowsOf(m) = {i}
        BY <3>1, <3>2
      <3>4. Cardinality({i}) = 1
        BY FS_Singleton
      <3>5. QED
        BY <2>1, <3>3, <3>4
    <2>4. QED
      BY <2>2, <2>3
  <1>2. QED
    BY <1>1 DEF Preferences!OneRow

\* A member has one row of preferences whatever overlaps, and looking at them
\* does not change what the summary shows; as long as the devices of a member
\* wait for each other, every switch stays as the member was last told it is
\* (getOrCreateNotificationPreference, updateNotificationPreference, getSummary).
THEOREM SwitchesStayAsSet ==
    ASSUME SettingsConstants
    PROVE  SettingsSpec => SwitchesStay
  <1> DEFINE Inv == SettingsInv /\ (inTurn => OneDevice(settingsTxn) /\ SettingsSerial)
             Moves == /\ Preferences!Next /\ UNCHANGED inTurn
                      /\ inTurn => OneDevice(settingsTxn')
             Saved == \A m \in Owners :
                          Preferences!SummaryAllEnabled(m)' # Preferences!SummaryAllEnabled(m) =>
                              \E d \in Devices : settingsTxn[<<m, d>>].stage = "updating"
  <1>1. Preferences!Init => Inv
    BY SettingsInit
  <1>2. Inv /\ [Moves]_<<settingsVars, inTurn>> => Inv'
    <2> SUFFICES ASSUME Inv, [Moves]_<<settingsVars, inTurn>>
                 PROVE  Inv'
      OBVIOUS
    <2>1. [Preferences!Next]_settingsVars /\ inTurn' = inTurn
      OBVIOUS
    <2>2. inTurn /\ OneDevice(settingsTxn) => OneDevice(settingsTxn')
      BY DEF settingsVars
    <2>3. SettingsInv'
      BY <2>1, SettingsInductive
    <2>4. inTurn => OneDevice(settingsTxn)' /\ SettingsSerial'
      <3>1. SUFFICES ASSUME inTurn
                     PROVE  OneDevice(settingsTxn') /\ SettingsSerial'
        BY DEF OneDevice
      <3>2. OneDevice(settingsTxn) /\ OneDevice(settingsTxn')
        BY <2>2, <3>1
      <3>3. QED
        BY <2>1, <3>1, <3>2, SettingsSerialInductive
    <2>5. QED
      BY <2>1, <2>3, <2>4
  <1>3. Inv => Preferences!TypeOK /\ Preferences!OneRow
    BY OneRowEach DEF SettingsInv
  <1>4. Inv => (inTurn => Preferences!SwitchesStay)
    <2> SUFFICES ASSUME SettingsInv, SettingsSerial, NEW m \in Owners,
                        NEW c \in DOMAIN told[m], told[m][c] # None
                 PROVE  /\ Preferences!RowsOf(m) # {}
                        /\ preferences[Preferences!RowOf(m)].switches[c] = told[m][c]
      BY DEF Preferences!SwitchesStay
    <2>1. c \in {"allEnabled", "marketingEnabled"}
      <3>1. told[m] \in Preferences!Dto
        BY DEF SettingsInv, Preferences!TypeOK
      <3>2. QED
        BY <3>1 DEF Preferences!Dto
    <2>2. QED
      BY <2>1 DEF SettingsSerial, Kept, Current
  <1>5. Inv /\ [Moves]_<<settingsVars, inTurn>> => [Saved]_Preferences!vars
    <2>1. ASSUME SettingsInv, Preferences!Next
          PROVE  Saved
      BY <2>1, SummaryStep
    <2>2. UNCHANGED settingsVars => UNCHANGED Preferences!vars
      BY DEF settingsVars, Preferences!vars
    <2>3. QED
      BY <2>1, <2>2
  <1>6. QED
    BY <1>1, <1>2, <1>3, <1>4, <1>5, PTL
       DEF SettingsSpec, SwitchesStay, Preferences!SummaryUndisturbed

-----------------------------------------------------------------------------
\* The list of chat rooms.

\* Rooms are finitely many, statuses are statuses, and null is no list.
ListConstants ==
    /\ IsFiniteSet(Rooms)
    /\ FirstStatus \in Statuses /\ Final \subseteq Statuses
    /\ Limit \in Nat /\ MaxChanges \in Nat /\ MaxConnects \in Nat
    /\ None \notin Seq([room: Rooms, status: Statuses \union {None}])

Entry == [room: Rooms, status: Statuses \union {None}]
ListOps == {"create", "receive", "send", "status", "read", "delete"}

\* A request under way has a room and an operation.
SenderFacts(t) ==
    /\ t.stage = "idle" => t = RoomList!Idle
    /\ t.stage # "idle" => t.room \in Rooms /\ t.op \in ListOps

\* No two rooms have been updated at one time.
TimesApart ==
    /\ \A r \in Rooms : room[r].updated <= clock
    /\ \A r, s \in Rooms : room[r].there /\ room[s].there /\ room[r].updated = room[s].updated
                              => r = s

\* What a request for the list has read so far.
FetchTyped ==
    fetch # RoomList!Resting =>
        /\ fetch = [rooms |-> fetch.rooms, last |-> fetch.last, unread |-> fetch.unread]
        /\ fetch.rooms \in Seq(Entry)
        /\ DOMAIN fetch.last \subseteq DOMAIN fetch.rooms
        /\ DOMAIN fetch.unread \subseteq DOMAIN fetch.last
        /\ \A i \in DOMAIN fetch.last : fetch.last[i] \in Nat
        /\ \A i \in DOMAIN fetch.unread : fetch.unread[i] \in Nat

\* The client does not know of a change yet, or cannot know of it.
Behind ==
    \/ ~connected.on \/ stale \/ unannounced
    \/ \E h \in Senders : roomTxn[h].stage \in {"removing", "touching", "emitting"}

\* What was read so far is as it should be.
FetchCurrent ==
    /\ fetch.rooms = [i \in DOMAIN RoomList!Page |->
                         [room |-> RoomList!Page[i], status |-> room[RoomList!Page[i]].status]]
    /\ \A i \in DOMAIN fetch.last : fetch.last[i] = room[fetch.rooms[i].room].last
    /\ \A i \in DOMAIN fetch.unread : fetch.unread[i] = room[fetch.rooms[i].room].unread

\* Types, the times of rooms, what was read so far, and: unless the client will
\* hear of a change, it shows, or has read, the list as it is.
ListInv ==
    /\ RoomList!TypeOK
    /\ \A h \in Senders : SenderFacts(roomTxn[h])
    /\ TimesApart
    /\ FetchTyped
    /\ ~Behind => IF fetch = RoomList!Resting THEN shown = RoomList!Current ELSE FetchCurrent

\* What is kept of a room.
RoomRow == [there: BOOLEAN, updated: Nat, last: Nat, unread: Nat, status: Statuses \union {None}]

-----------------------------------------------------------------------------
(* The first page.                                                         *)

\* The list counts its rooms as everyone does.
LEMMA ListCardinality == \A T : RoomList!Cardinality(T) = Cardinality(T)
  BY DEF RoomList!Cardinality, Cardinality

\* R says which of the members of S comes before which.
Orders(R, S) ==
    /\ \A k \in S : <<k, k>> \notin R
    /\ \A k, l, m \in S : <<k, l>> \in R /\ <<l, m>> \in R => <<k, m>> \in R
    /\ \A k, l \in S : k = l \/ <<k, l>> \in R \/ <<l, k>> \in R

\* How many come before k.
PlaceIn(R, S, k) == Cardinality({l \in S : <<l, k>> \in R})

\* Each member of a finite set has a place of its own, and every place is taken.
LEMMA PlacesTaken ==
    ASSUME NEW S, IsFiniteSet(S), NEW R, Orders(R, S)
    PROVE  /\ Cardinality(S) \in Nat
           /\ \A k \in S : PlaceIn(R, S, k) \in 0..(Cardinality(S) - 1)
           /\ \A k, l \in S : <<k, l>> \in R => PlaceIn(R, S, k) < PlaceIn(R, S, l)
           /\ \A n \in 0..(Cardinality(S) - 1) : \E k \in S : PlaceIn(R, S, k) = n
  <1> DEFINE Before(k) == {l \in S : <<l, k>> \in R}
             place == [k \in S |-> Cardinality(Before(k))]
             c == Cardinality(S)
  <1>1. c \in Nat
    BY FS_CardinalityType
  <1>2. \A T \in SUBSET S : IsFiniteSet(T) /\ Cardinality(T) \in Nat /\ Cardinality(T) <= c
    BY FS_Subset, FS_CardinalityType
  <1>3. ASSUME NEW k \in S
        PROVE  place[k] \in 0..(c - 1)
    <2>1. Before(k) \subseteq S \ {k}
      BY DEF Orders
    <2>2. IsFiniteSet(S \ {k}) /\ Cardinality(S \ {k}) = c - 1
      BY FS_RemoveElement
    <2> HIDE DEF Before
    <2>3. Cardinality(Before(k)) <= Cardinality(S \ {k})
      BY <2>1, <2>2, FS_Subset
    <2>4. Cardinality(Before(k)) \in Nat
      BY <1>2 DEF Before
    <2> HIDE DEF c
    <2>5. QED
      BY <1>1, <2>2, <2>3, <2>4
  <1>4. ASSUME NEW k \in S, NEW l \in S, <<k, l>> \in R
        PROVE  place[k] < place[l]
    <2>1. Before(k) \subseteq Before(l) \ {k}
      BY <1>4 DEF Orders
    <2>2. k \in Before(l) /\ IsFiniteSet(Before(l)) /\ Cardinality(Before(l)) \in Nat
      BY <1>2, <1>4
    <2>3. IsFiniteSet(Before(l) \ {k}) /\ Cardinality(Before(l) \ {k}) = Cardinality(Before(l)) - 1
      BY <2>2, FS_RemoveElement
    <2> HIDE DEF Before
    <2>4. Cardinality(Before(k)) <= Cardinality(Before(l) \ {k})
      BY <2>1, <2>3, FS_Subset
    <2>5. Cardinality(Before(k)) \in Nat
      BY <1>2 DEF Before
    <2>6. QED
      BY <2>2, <2>3, <2>4, <2>5
  <1>5. \A n \in 0..(c - 1) : \E k \in S : place[k] = n
    <2> DEFINE T == 0..(c - 1)
    <2>1. IsFiniteSet(T) /\ Cardinality(T) = c
      <3>1. /\ IsFiniteSet(0..(c - 1))
            /\ Cardinality(0..(c - 1)) = IF 0 > c - 1 THEN 0 ELSE (c - 1) - 0 + 1
        BY <1>1, FS_Interval
      <3> HIDE DEF c
      <3>2. QED
        BY <1>1, <3>1
    <2>2. place \in [S -> T]
      BY <1>3
    <2>3. \A k, l \in S : place[k] = place[l] => k = l
      <3> SUFFICES ASSUME NEW k \in S, NEW l \in S, place[k] = place[l], k # l
                   PROVE  FALSE
        OBVIOUS
      <3>1. place[k] \in Int /\ place[l] \in Int
        BY <1>3
      <3>2. CASE <<k, l>> \in R
        BY <1>4, <3>1, <3>2
      <3>3. CASE <<l, k>> \in R
        BY <1>4, <3>1, <3>3
      <3>4. QED
        BY <3>2, <3>3 DEF Orders
    <2> HIDE DEF place, T
    <2>4. place \in Injection(S, T)
      BY <2>2, <2>3 DEF Injection, IsInjective
    <2>5. place \in Surjection(S, T)
      BY <2>1, <2>4, FS_Injection DEF c
    <2>6. QED
      BY <2>5 DEF Surjection, T
  <1>6. QED
    BY <1>1, <1>3, <1>4, <1>5 DEF PlaceIn

\* The rooms on the page are rooms of the list, each at its place.
LEMMA PageTyped ==
    ASSUME ListConstants, RoomList!TypeOK, TimesApart
    PROVE  /\ \E n \in Nat : DOMAIN RoomList!Page = 1..n /\ n <= Limit
           /\ \A i \in DOMAIN RoomList!Page : RoomList!Page[i] \in RoomList!Matching
           /\ RoomList!Matching \subseteq Rooms
  <1> DEFINE M == RoomList!Matching
             R == {p \in M \X M : RoomList!Later(p[1], p[2])}
             c == Cardinality(M)
             n == IF c < Limit THEN c ELSE Limit
  <1>1. M \subseteq Rooms /\ IsFiniteSet(M)
    BY FS_Subset DEF ListConstants, RoomList!Matching
  <1>2. \A k, l \in M : <<k, l>> \in R <=> room[k].updated > room[l].updated
    BY DEF RoomList!Later
  <1>3. /\ \A k \in M : room[k].updated \in Nat /\ room[k].there
        /\ \A k, l \in M : room[k].updated = room[l].updated => k = l
    BY DEF RoomList!TypeOK, TimesApart, RoomList!Matching
  <1>4. Orders(R, M)
    <2> HIDE DEF R, M
    <2>1. \A k \in M : <<k, k>> \notin R
      BY <1>2, <1>3
    <2>2. \A k, l, m \in M : <<k, l>> \in R /\ <<l, m>> \in R => <<k, m>> \in R
      BY <1>2, <1>3
    <2>3. ASSUME NEW k \in M, NEW l \in M, k # l
          PROVE  <<k, l>> \in R \/ <<l, k>> \in R
      BY <1>2, <1>3, <2>3
    <2>4. QED
      BY <2>1, <2>2, <2>3 DEF Orders
  <1>5. c \in Nat /\ \A i \in 0..(c - 1) : \E r \in M : PlaceIn(R, M, r) = i
    <2> HIDE DEF R, M
    <2>1. QED
      BY <1>1, <1>4, PlacesTaken
  <1>6. \A r \in M : PlaceIn(R, M, r) = Cardinality(RoomList!Before(r))
    <2>1. TAKE r \in M
    <2>2. {l \in M : <<l, r>> \in R} = RoomList!Before(r)
      BY <1>2 DEF RoomList!Before, RoomList!Later
    <2>3. QED
      BY <2>2 DEF PlaceIn
  <1>7. RoomList!Page = [i \in 1..n |-> CHOOSE r \in M : Cardinality(RoomList!Before(r)) = i - 1]
    BY ListCardinality DEF RoomList!Page
  <1> HIDE DEF M, R, c
  <1>8. n \in Nat /\ n <= c /\ n <= Limit
    BY <1>5 DEF ListConstants
  <1>9. ASSUME NEW i \in 1..n
        PROVE  RoomList!Page[i] \in M
    <2>1. i - 1 \in 0..(c - 1)
      BY <1>5, <1>8
    <2>2. PICK r \in M : Cardinality(RoomList!Before(r)) = i - 1
      BY <1>5, <1>6, <2>1
    <2>3. RoomList!Page[i] = CHOOSE q \in M : Cardinality(RoomList!Before(q)) = i - 1
      BY <1>7
    <2>4. QED
      BY <2>2, <2>3
  <1>10. QED
    BY <1>1, <1>7, <1>8, <1>9 DEF M

\* The page is a matter of the rooms alone.
LEMMA PageOfRooms ==
    ASSUME UNCHANGED room
    PROVE  RoomList!Page' = RoomList!Page /\ RoomList!Current' = RoomList!Current
  <1>1. RoomList!Page' = RoomList!Page
    BY ListCardinality DEF RoomList!Page, RoomList!Matching, RoomList!Before, RoomList!Later
  <1>2. QED
    BY <1>1 DEF RoomList!Current, RoomList!ListItem

-----------------------------------------------------------------------------
(* The rooms.                                                              *)

\* A room without a row has no messages.
EmptyUnless(row) == ~row.there => row.last = 0 /\ row.unread = 0

\* What the list depends on, apart from the requests.
ListRooms ==
    /\ room \in [Rooms -> RoomRow]
    /\ \A r \in Rooms : EmptyUnless(room[r])
    /\ clock \in Nat
    /\ TimesApart

\* One row changes: it keeps its time, or gets one that is later than all others.
LEMMA RoomUpdate ==
    ASSUME ListRooms, NEW r \in Rooms, NEW row \in RoomRow, EmptyUnless(row),
           room' = [room EXCEPT ![r] = row], clock' \in Nat, clock <= clock',
           \/ row.updated = room[r].updated /\ (row.there => room[r].there)
           \/ row.updated = clock + 1 /\ clock' = clock + 1
    PROVE  ListRooms'
  <1>1. room' \in [Rooms -> RoomRow]
    BY DEF ListRooms
  <1>2. /\ room'[r] = row
        /\ \A s \in Rooms \ {r} : room'[s] = room[s]
    BY DEF ListRooms
  <1>3. \A s \in Rooms : EmptyUnless(room'[s])
    BY <1>2 DEF ListRooms
  <1>4. \A s \in Rooms : room[s].updated \in Nat /\ room[s].updated <= clock
    BY DEF ListRooms, TimesApart, RoomRow
  <1>5. row.updated \in Nat /\ clock \in Nat
    BY DEF RoomRow, ListRooms
  <1>6. \A s \in Rooms : room'[s].updated <= clock'
    BY <1>2, <1>4, <1>5
  <1>7. ASSUME NEW s \in Rooms, NEW t \in Rooms, room'[s].there, room'[t].there,
               room'[s].updated = room'[t].updated
        PROVE  s = t
    <2>1. CASE row.updated = room[r].updated /\ (row.there => room[r].there)
      BY <1>2, <1>7, <2>1 DEF ListRooms, TimesApart
    <2>2. CASE row.updated = clock + 1
      BY <1>2, <1>4, <1>5, <1>7, <2>2 DEF ListRooms, TimesApart
    <2>3. QED
      BY <2>1, <2>2
  <1>8. QED
    BY <1>1, <1>3, <1>6, <1>7 DEF ListRooms, TimesApart, EmptyUnless

\* The steps that change a room, and what they leave behind them.
LEMMA ListRoomsStep ==
    ASSUME ListConstants, ListInv, [RoomList!Next]_listVars
    PROVE  ListRooms'
  <1>1. ListRooms
    BY DEF ListInv, RoomList!TypeOK, ListRooms, RoomRow, EmptyUnless
  <1>2. CASE UNCHANGED <<room, clock>>
    BY <1>1, <1>2 DEF ListRooms, TimesApart
  <1>3. ASSUME NEW h \in Senders, NEW s \in Statuses \union {None}, RoomList!Write(h, s),
               ~UNCHANGED <<room, clock>>
        PROVE  ListRooms'
    <2> DEFINE r == roomTxn[h].room
               op == roomTxn[h].op
               row == RoomList!After(room[r], op, s, clock + 1)
    <2>1. r \in Rooms /\ op \in ListOps
      BY <1>3 DEF ListInv, SenderFacts, RoomList!Write
    <2>2. /\ room' = [room EXCEPT ![r] = row] /\ clock' = clock + 1
          /\ op = "create" \/ room[r].there
      BY <1>3 DEF RoomList!Write
    <2>3. /\ room[r] \in RoomRow /\ clock \in Nat
      BY <1>1, <2>1 DEF ListRooms
    <2>4. /\ row \in RoomRow /\ EmptyUnless(row)
          /\ \/ row.updated = room[r].updated /\ (row.there => room[r].there)
             \/ row.updated = clock + 1
      <3> HIDE DEF r, op
      <3>1. CASE op = "create"
        BY <2>3, <3>1 DEF RoomList!After, RoomRow, EmptyUnless, ListConstants
      <3>2. CASE op = "receive"
        <4>1. row = [room[r] EXCEPT !.last = clock + 1, !.unread = room[r].unread + 1]
          BY <2>3, <3>2 DEF RoomList!After, RoomRow
        <4>2. room[r].unread + 1 \in Nat /\ clock + 1 \in Nat
          BY <2>3 DEF RoomRow
        <4> HIDE DEF row
        <4>3. QED
          BY <2>2, <2>3, <3>2, <4>1, <4>2 DEF RoomRow, EmptyUnless
      <3>3. CASE op = "send"
        BY <2>2, <2>3, <3>3 DEF RoomList!After, RoomRow, EmptyUnless
      <3>4. CASE op = "status"
        BY <2>2, <2>3, <3>4 DEF RoomList!After, RoomRow, EmptyUnless
      <3>5. CASE op = "read"
        BY <2>2, <2>3, <3>5 DEF RoomList!After, RoomRow, EmptyUnless
      <3>6. CASE op = "delete"
        BY <2>2, <2>3, <3>6 DEF RoomList!After, RoomRow, EmptyUnless
      <3>7. QED
        BY <2>1, <3>1, <3>2, <3>3, <3>4, <3>5, <3>6 DEF ListOps
    <2> HIDE DEF r, op, row
    <2>5. clock' \in Nat /\ clock <= clock'
      BY <2>2, <2>3
    <2>6. QED
      BY <1>1, <2>1, <2>2, <2>3, <2>4, <2>5, RoomUpdate
  <1>4. ASSUME NEW h \in Senders, RoomList!RemoveRoom(h), ~UNCHANGED <<room, clock>>
        PROVE  ListRooms'
    <2> DEFINE r == roomTxn[h].room
               row == [RoomList!NoRoom EXCEPT !.updated = room[r].updated]
    <2>1. r \in Rooms /\ room[r] \in RoomRow
      BY <1>1, <1>4 DEF ListInv, SenderFacts, RoomList!RemoveRoom, ListRooms
    <2>2. room' = [room EXCEPT ![r] = row] /\ clock' = clock
      BY <1>4 DEF RoomList!RemoveRoom, RoomList!client
    <2>3. row \in RoomRow /\ EmptyUnless(row) /\ row.updated = room[r].updated /\ ~row.there
      BY <2>1 DEF RoomList!NoRoom, RoomRow, EmptyUnless
    <2> HIDE DEF r, row
    <2>4. clock \in Nat /\ clock' <= clock /\ clock <= clock'
      BY <1>1, <2>2 DEF ListRooms
    <2>5. QED
      BY <1>1, <2>1, <2>2, <2>3, <2>4, RoomUpdate
  <1>5. ASSUME NEW h \in Senders, RoomList!Touch(h), ~UNCHANGED <<room, clock>>
        PROVE  ListRooms'
    <2> DEFINE r == roomTxn[h].room
               row == IF room[r].there THEN [room[r] EXCEPT !.updated = clock + 1] ELSE room[r]
    <2>1. r \in Rooms /\ room[r] \in RoomRow /\ clock \in Nat /\ EmptyUnless(room[r])
      BY <1>1, <1>5 DEF ListInv, SenderFacts, RoomList!Touch, ListRooms
    <2>2. room' = [room EXCEPT ![r] = row] /\ clock' = clock + 1
      BY <1>1, <1>5, <2>1 DEF RoomList!Touch, RoomList!Touched, ListRooms
    <2>3. /\ row \in RoomRow /\ EmptyUnless(row)
          /\ \/ row.updated = room[r].updated /\ (row.there => room[r].there)
             \/ row.updated = clock + 1
      BY <2>1 DEF RoomRow, EmptyUnless
    <2> HIDE DEF r, row
    <2>4. clock' \in Nat /\ clock <= clock'
      BY <2>1, <2>2
    <2>5. QED
      BY <1>1, <2>1, <2>2, <2>3, <2>4, RoomUpdate
  <1>6. \/ UNCHANGED <<room, clock>>
        \/ \E h \in Senders, s \in Statuses \union {None} : RoomList!Write(h, s)
        \/ \E h \in Senders : RoomList!RemoveRoom(h) \/ RoomList!Touch(h)
    BY DEF RoomList!Next, RoomList!Begin, RoomList!Step, RoomList!Emit, RoomList!Interrupt,
           RoomList!Connect, RoomList!Disconnect, RoomList!Fetching, RoomList!FetchRooms,
           RoomList!FetchLast, RoomList!FetchUnread, RoomList!FetchDone, listVars
  <1>7. QED
    BY <1>2, <1>3, <1>4, <1>5, <1>6

-----------------------------------------------------------------------------
(* The requests and the client.                                            *)

\* The state of a request.
SenderType ==
    [stage: {"idle", "writing", "removing", "touching", "emitting"},
     room: Rooms \union {None}, op: ListOps \union {None}]

\* A step of one request.
LEMMA SenderStep ==
    ASSUME roomTxn \in [Senders -> SenderType],
           \A g \in Senders : SenderFacts(roomTxn[g]),
           NEW h \in Senders, NEW next \in SenderType, SenderFacts(next),
           roomTxn' = [roomTxn EXCEPT ![h] = next]
    PROVE  /\ roomTxn' \in [Senders -> SenderType]
           /\ \A g \in Senders : SenderFacts(roomTxn'[g])
           /\ roomTxn'[h] = next
           /\ \A g \in Senders \ {h} : roomTxn'[g] = roomTxn[g]
  OBVIOUS

\* The requests keep their type, and the counters their bounds.
LEMMA SendersStep ==
    ASSUME ListConstants, ListInv, [RoomList!Next]_listVars
    PROVE  /\ roomTxn' \in [Senders -> SenderType]
           /\ \A g \in Senders : SenderFacts(roomTxn'[g])
           /\ changes' \in 0..MaxChanges
           /\ connected' \in [on: BOOLEAN, times: 0..MaxConnects]
           /\ stale' \in BOOLEAN /\ unannounced' \in BOOLEAN
  <1> DEFINE Goal == /\ roomTxn' \in [Senders -> SenderType]
                     /\ \A g \in Senders : SenderFacts(roomTxn'[g])
  <1>1. /\ roomTxn \in [Senders -> SenderType]
        /\ \A g \in Senders : SenderFacts(roomTxn[g])
        /\ changes \in 0..MaxChanges
        /\ connected \in [on: BOOLEAN, times: 0..MaxConnects]
        /\ stale \in BOOLEAN /\ unannounced \in BOOLEAN
    BY DEF ListInv, RoomList!TypeOK, SenderType, ListOps
  <1>2. RoomList!Idle \in SenderType /\ SenderFacts(RoomList!Idle)
    BY DEF SenderType, RoomList!Idle, SenderFacts
  <1>3. ASSUME NEW h \in Senders, NEW stage \in {"removing", "touching", "emitting"},
               roomTxn[h].stage # "idle", RoomList!Goto(h, stage)
        PROVE  Goal
    <2>1. PICK next \in SenderType : next = [roomTxn[h] EXCEPT !.stage = stage]
      BY <1>1 DEF SenderType
    <2>2. SenderFacts(next)
      BY <1>1, <1>3, <2>1 DEF SenderFacts, SenderType
    <2>3. roomTxn' = [roomTxn EXCEPT ![h] = next]
      BY <1>1, <1>3, <2>1 DEF RoomList!Goto
    <2>4. QED
      BY <1>1, <2>2, <2>3, SenderStep
  <1>4. ASSUME NEW h \in Senders, RoomList!Done(h)
        PROVE  Goal
    BY <1>1, <1>2, <1>4, SenderStep DEF RoomList!Done
  <1>5. ASSUME NEW h \in Senders, NEW r \in Rooms, NEW op \in ListOps, RoomList!Begin(h, r, op)
        PROVE  Goal /\ changes' \in 0..MaxChanges
    <2> DEFINE next == [stage |-> "writing", room |-> r, op |-> op]
    <2>1. next \in SenderType /\ SenderFacts(next)
      BY DEF SenderType, SenderFacts
    <2>2. roomTxn' = [roomTxn EXCEPT ![h] = next]
      BY <1>5 DEF RoomList!Begin
    <2>3. changes' \in 0..MaxChanges
      BY <1>1, <1>5 DEF RoomList!Begin, ListConstants
    <2> HIDE DEF next
    <2>4. QED
      BY <1>1, <2>1, <2>2, <2>3, SenderStep
  <1>6. ASSUME NEW h \in Senders, NEW s \in Statuses \union {None}, RoomList!Write(h, s)
        PROVE  Goal
    <2>1. roomTxn[h].stage # "idle"
      BY <1>6 DEF RoomList!Write
    <2>2. RoomList!Following(roomTxn[h].op) \in {"removing", "touching", "emitting"}
      BY DEF RoomList!Following
    <2>3. QED
      BY <1>3, <1>4, <1>6, <2>1, <2>2 DEF RoomList!Write
  <1>7. ASSUME NEW h \in Senders,
               RoomList!RemoveRoom(h) \/ RoomList!Touch(h) \/ RoomList!Emit(h)
                  \/ RoomList!Interrupt(h)
        PROVE  Goal
    BY <1>3, <1>4, <1>7 DEF RoomList!RemoveRoom, RoomList!Touch, RoomList!Emit, RoomList!Interrupt
  <1>8. ASSUME UNCHANGED roomTxn
        PROVE  Goal
    BY <1>1, <1>8
  <1>9. Goal
    BY <1>5, <1>6, <1>7, <1>8
    DEF RoomList!Next, RoomList!Step, RoomList!Ops, ListOps, RoomList!Connect,
        RoomList!Disconnect, RoomList!Fetching, RoomList!FetchRooms, RoomList!FetchLast,
        RoomList!FetchUnread, RoomList!FetchDone, listVars
  <1>10. changes' \in 0..MaxChanges
    BY <1>1, <1>5
    DEF RoomList!Next, RoomList!Step, RoomList!Ops, ListOps, RoomList!Write, RoomList!RemoveRoom,
        RoomList!Touch, RoomList!Emit, RoomList!Interrupt, RoomList!Connect,
        RoomList!Disconnect, RoomList!Fetching, RoomList!FetchRooms, RoomList!FetchLast,
        RoomList!FetchUnread, RoomList!FetchDone, listVars
  <1>11. connected' \in [on: BOOLEAN, times: 0..MaxConnects]
    <2>1. CASE UNCHANGED connected
      BY <1>1, <2>1
    <2>2. CASE RoomList!Connect
      BY <1>1, <2>2 DEF RoomList!Connect, ListConstants
    <2>3. CASE RoomList!Disconnect
      BY <1>1, <2>3 DEF RoomList!Disconnect
    <2>4. QED
      BY <2>1, <2>2, <2>3
      DEF RoomList!Next, RoomList!Begin, RoomList!Step, RoomList!Write, RoomList!RemoveRoom,
          RoomList!Touch, RoomList!Emit, RoomList!Interrupt, RoomList!Fetching,
          RoomList!FetchRooms, RoomList!FetchLast, RoomList!FetchUnread, RoomList!FetchDone,
          RoomList!client, listVars
  <1>12. stale' \in BOOLEAN /\ unannounced' \in BOOLEAN
    BY <1>1
    DEF RoomList!Next, RoomList!Begin, RoomList!Step, RoomList!Write, RoomList!RemoveRoom,
        RoomList!Touch, RoomList!Emit, RoomList!Interrupt, RoomList!Connect,
        RoomList!Disconnect, RoomList!Fetching, RoomList!FetchRooms, RoomList!FetchLast,
        RoomList!FetchUnread, RoomList!FetchDone, listVars
  <1>13. QED
    BY <1>9, <1>10, <1>11, <1>12

\* The entries of a page.
Heads == [i \in DOMAIN RoomList!Page |->
             [room |-> RoomList!Page[i], status |-> room[RoomList!Page[i]].status]]

\* They are rooms with their statuses, never null.
LEMMA HeadsTyped ==
    ASSUME ListConstants, ListInv
    PROVE  Heads \in Seq(Entry) /\ Heads # None
  <1>1. /\ \A i \in DOMAIN RoomList!Page : RoomList!Page[i] \in Rooms
        /\ \E n \in Nat : DOMAIN RoomList!Page = 1..n
    BY PageTyped DEF ListInv
  <1>2. \A r \in Rooms : room[r].status \in Statuses \union {None}
    BY DEF ListInv, RoomList!TypeOK
  <1>3. PICK n \in Nat : DOMAIN RoomList!Page = 1..n
    BY <1>1
  <1>4. Heads \in [1..n -> Entry]
    BY <1>1, <1>2, <1>3 DEF Heads, Entry
  <1>5. Heads \in Seq(Entry)
    BY <1>4
  <1>6. QED
    BY <1>5 DEF ListConstants, Entry

\* What the client has read and shows has its type.
LEMMA FetchStep ==
    ASSUME ListConstants, ListInv, [RoomList!Next]_listVars
    PROVE  FetchTyped' /\ shown' \in Seq(RoomList!Item)
  <1>1. /\ FetchTyped /\ shown \in Seq(RoomList!Item)
        /\ \A r \in Rooms : room[r].last \in Nat /\ room[r].unread \in Nat
    BY DEF ListInv, RoomList!TypeOK
  <1>2. CASE UNCHANGED <<fetch, shown>>
    BY <1>1, <1>2 DEF FetchTyped, RoomList!Resting
  <1>3. CASE RoomList!Disconnect
    BY <1>1, <1>3 DEF RoomList!Disconnect, FetchTyped, RoomList!Resting
  <1>4. CASE RoomList!FetchRooms
    <2>1. fetch' = [rooms |-> Heads, last |-> <<>>, unread |-> <<>>] /\ UNCHANGED shown
      BY <1>4 DEF RoomList!FetchRooms, RoomList!Resting, Heads
    <2>2. DOMAIN <<>> = {}
      OBVIOUS
    <2>3. QED
      BY <1>1, <2>1, <2>2, HeadsTyped DEF FetchTyped
  <1>5. ASSUME fetch # RoomList!Resting
        PROVE  /\ \A i \in DOMAIN fetch.rooms : fetch.rooms[i] \in Entry
               /\ \A i \in DOMAIN fetch.rooms : room[fetch.rooms[i].room].last \in Nat
                                             /\ room[fetch.rooms[i].room].unread \in Nat
    <2>1. fetch.rooms \in Seq(Entry)
      BY <1>1, <1>5 DEF FetchTyped
    <2>2. \A i \in DOMAIN fetch.rooms : fetch.rooms[i] \in Entry
      BY <2>1
    <2>3. \A i \in DOMAIN fetch.rooms : fetch.rooms[i].room \in Rooms
      BY <2>2 DEF Entry
    <2>4. QED
      BY <1>1, <2>2, <2>3
  <1>6. ASSUME NEW i \in 1..Limit, RoomList!FetchLast(i)
        PROVE  FetchTyped' /\ UNCHANGED shown
    <2> DEFINE last == RoomList!Under(fetch.last, i, room[fetch.rooms[i].room].last)
    <2>1. /\ fetch # RoomList!Resting /\ i \in DOMAIN fetch.rooms /\ UNCHANGED shown
          /\ fetch' = [fetch EXCEPT !.last = last]
      BY <1>6 DEF RoomList!FetchLast
    <2>2. DOMAIN last = DOMAIN fetch.last \union {i} /\ \A j \in DOMAIN last : last[j] \in Nat
      BY <1>1, <1>5, <2>1 DEF RoomList!Under, FetchTyped
    <2> HIDE DEF last
    <2>3. fetch' = [rooms |-> fetch.rooms, last |-> last, unread |-> fetch.unread]
      BY <1>1, <2>1 DEF FetchTyped
    <2>4. QED
      BY <1>1, <2>1, <2>2, <2>3 DEF FetchTyped
  <1>7. ASSUME NEW i \in 1..Limit, RoomList!FetchUnread(i)
        PROVE  FetchTyped' /\ UNCHANGED shown
    <2> DEFINE unread == RoomList!Under(fetch.unread, i, room[fetch.rooms[i].room].unread)
    <2>1. /\ fetch # RoomList!Resting /\ i \in DOMAIN fetch.last /\ UNCHANGED shown
          /\ fetch' = [fetch EXCEPT !.unread = unread]
      BY <1>7 DEF RoomList!FetchUnread
    <2>2. /\ DOMAIN unread = DOMAIN fetch.unread \union {i}
          /\ \A j \in DOMAIN unread : unread[j] \in Nat
      BY <1>1, <1>5, <2>1 DEF RoomList!Under, FetchTyped
    <2> HIDE DEF unread
    <2>3. fetch' = [rooms |-> fetch.rooms, last |-> fetch.last, unread |-> unread]
      BY <1>1, <2>1 DEF FetchTyped
    <2>4. QED
      BY <1>1, <2>1, <2>2, <2>3 DEF FetchTyped
  <1>8. CASE RoomList!FetchDone
    <2>1. /\ fetch # RoomList!Resting /\ DOMAIN fetch.unread = DOMAIN fetch.rooms
          /\ fetch' = RoomList!Resting
          /\ shown' = [i \in DOMAIN fetch.rooms |->
                          RoomList!ListItem(fetch.rooms[i].room, fetch.rooms[i].status,
                                            fetch.last[i], fetch.unread[i])]
      BY <1>8 DEF RoomList!FetchDone
    <2>2. PICK n \in Nat : DOMAIN fetch.rooms = 1..n
      BY <1>1, <2>1 DEF FetchTyped
    <2>3. \A i \in DOMAIN fetch.rooms :
             RoomList!ListItem(fetch.rooms[i].room, fetch.rooms[i].status,
                               fetch.last[i], fetch.unread[i]) \in RoomList!Item
      BY <1>1, <1>5, <2>1 DEF FetchTyped, Entry, RoomList!ListItem, RoomList!Item
    <2>4. shown' \in [1..n -> RoomList!Item]
      BY <2>1, <2>2, <2>3
    <2>5. shown' \in Seq(RoomList!Item)
      BY <2>4
    <2>6. QED
      BY <2>1, <2>5 DEF FetchTyped, RoomList!Resting
  <1>9. \/ UNCHANGED <<fetch, shown>> \/ RoomList!Disconnect \/ RoomList!FetchRooms
        \/ RoomList!FetchDone
        \/ \E i \in 1..Limit : RoomList!FetchLast(i) \/ RoomList!FetchUnread(i)
    BY DEF RoomList!Next, RoomList!Begin, RoomList!Step, RoomList!Write, RoomList!RemoveRoom,
           RoomList!Touch, RoomList!Emit, RoomList!Interrupt, RoomList!Connect,
           RoomList!Fetching, RoomList!client, listVars
  <1>10. QED
    BY <1>1, <1>2, <1>3, <1>4, <1>6, <1>7, <1>8, <1>9

-----------------------------------------------------------------------------
(* The list is as it should be, or the client will hear of it.             *)

UpToDate == IF fetch = RoomList!Resting THEN shown = RoomList!Current ELSE FetchCurrent

\* As long as the client is not behind, nothing changes but what it reads itself.
LEMMA NotBehind ==
    ASSUME ListConstants, ListInv, [RoomList!Next]_listVars, ~Behind'
    PROVE  \/ RoomList!FetchRooms
           \/ /\ ~Behind /\ UNCHANGED room
              /\ \/ UNCHANGED <<fetch, shown>> \/ RoomList!FetchDone
                 \/ \E i \in 1..Limit : RoomList!FetchLast(i) \/ RoomList!FetchUnread(i)
  <1>1. /\ roomTxn \in [Senders -> SenderType]
        /\ \A g \in Senders : SenderFacts(roomTxn[g])
    BY DEF ListInv, RoomList!TypeOK, SenderType, ListOps
  <1>2. CASE UNCHANGED listVars
    BY <1>2 DEF Behind, listVars
  <1>3. ASSUME NEW h \in Senders, NEW r \in Rooms, NEW op \in ListOps, RoomList!Begin(h, r, op)
        PROVE  ~Behind /\ UNCHANGED <<room, fetch, shown>>
    <2>1. \A g \in Senders : roomTxn[g].stage # "idle" => roomTxn'[g] = roomTxn[g]
      BY <1>1, <1>3 DEF RoomList!Begin, RoomList!Idle
    <2>2. QED
      BY <1>1, <1>3, <2>1 DEF RoomList!Begin, Behind, RoomList!client
  <1>4. ASSUME NEW h \in Senders, NEW s \in Statuses \union {None}, RoomList!Write(h, s)
        PROVE  ~Behind /\ UNCHANGED <<room, fetch, shown>>
    <2>1. RoomList!Following(roomTxn[h].op) \in {"removing", "touching", "emitting"}
      BY DEF RoomList!Following
    <2>2. RoomList!Done(h) /\ UNCHANGED room
      <3>1. CASE roomTxn[h].op = "create" \/ room[roomTxn[h].room].there
        <4>1. roomTxn' = [roomTxn EXCEPT ![h].stage = RoomList!Following(roomTxn[h].op)]
          BY <1>4, <3>1 DEF RoomList!Write, RoomList!Goto
        <4>2. roomTxn'[h].stage = RoomList!Following(roomTxn[h].op)
          BY <1>1, <4>1 DEF SenderType
        <4>3. QED
          BY <2>1, <4>2 DEF Behind
      <3>2. CASE ~(roomTxn[h].op = "create" \/ room[roomTxn[h].room].there)
        BY <1>4, <3>2 DEF RoomList!Write
      <3>3. QED
        BY <3>1, <3>2
    <2>3. \A g \in Senders : roomTxn[g].stage # "writing" => roomTxn'[g] = roomTxn[g]
      BY <1>1, <1>4, <2>2 DEF RoomList!Write, RoomList!Done
    <2>4. QED
      BY <1>4, <2>2, <2>3 DEF RoomList!Write, Behind, RoomList!client
  <1>5. ASSUME NEW h \in Senders, RoomList!RemoveRoom(h)
        PROVE  FALSE
    BY <1>1, <1>5 DEF RoomList!RemoveRoom, RoomList!Goto, RoomList!Done, Behind, SenderType
  <1>6. ASSUME NEW h \in Senders, RoomList!Touch(h)
        PROVE  FALSE
    BY <1>1, <1>6 DEF RoomList!Touch, RoomList!Goto, Behind, SenderType
  <1>7. ASSUME NEW h \in Senders, RoomList!Emit(h)
        PROVE  FALSE
    BY <1>7 DEF RoomList!Emit, Behind, RoomList!client
  <1>8. ASSUME NEW h \in Senders, RoomList!Interrupt(h)
        PROVE  ~Behind /\ UNCHANGED <<room, fetch, shown>>
    <2>1. roomTxn[h].stage = "writing" /\ unannounced' = unannounced
      BY <1>1, <1>8 DEF RoomList!Interrupt, Behind, ListInv, RoomList!TypeOK
    <2>2. \A g \in Senders : roomTxn[g].stage # "writing" => roomTxn'[g] = roomTxn[g]
      BY <1>1, <1>8, <2>1 DEF RoomList!Interrupt, RoomList!Done
    <2>3. QED
      BY <1>8, <2>1, <2>2 DEF RoomList!Interrupt, Behind, RoomList!client
  <1>9. ~RoomList!Connect /\ ~RoomList!Disconnect
    <2>1. connected \in [on: BOOLEAN, times: 0..MaxConnects]
      BY DEF ListInv, RoomList!TypeOK
    <2>2. QED
      BY <2>1 DEF RoomList!Connect, RoomList!Disconnect, Behind
  <1>10. CASE RoomList!FetchDone \/ \E i \in 1..Limit : RoomList!FetchLast(i) \/ RoomList!FetchUnread(i)
    BY <1>10 DEF RoomList!FetchDone, RoomList!FetchLast, RoomList!FetchUnread, Behind
  <1>11. QED
    BY <1>2, <1>3, <1>4, <1>5, <1>6, <1>7, <1>8, <1>9, <1>10
    DEF RoomList!Next, RoomList!Step, RoomList!Ops, ListOps, RoomList!Fetching

\* What the client shows, or has read, stays as it should be.
LEMMA StaysUpToDate ==
    ASSUME ListConstants, ListInv, [RoomList!Next]_listVars
    PROVE  ~Behind' => UpToDate'
  <1> SUFFICES ASSUME ~Behind'
               PROVE  UpToDate'
    OBVIOUS
  <1>1. CASE RoomList!FetchRooms
    <2>1. /\ fetch' = [rooms |-> Heads, last |-> <<>>, unread |-> <<>>]
          /\ UNCHANGED room
      BY <1>1 DEF RoomList!FetchRooms, RoomList!Resting, Heads
    <2>2. Heads' = Heads
      BY <2>1, PageOfRooms DEF Heads
    <2>3. fetch'.rooms = Heads' /\ fetch'.last = <<>> /\ fetch'.unread = <<>>
      BY <2>1, <2>2
    <2>4. DOMAIN <<>> = {}
      OBVIOUS
    <2>5. FetchCurrent'
      BY <2>3, <2>4 DEF FetchCurrent, Heads
    <2>6. fetch' # RoomList!Resting
      BY <2>1, HeadsTyped DEF RoomList!Resting
    <2>7. QED
      BY <2>5, <2>6 DEF UpToDate
  <1>2. ASSUME ~Behind, UNCHANGED room
        PROVE  UpToDate /\ RoomList!Page' = RoomList!Page /\ RoomList!Current' = RoomList!Current
    BY <1>2, PageOfRooms DEF ListInv, UpToDate
  <1>3. CASE ~Behind /\ UNCHANGED <<room, fetch, shown>>
    <2>1. UpToDate /\ RoomList!Page' = RoomList!Page /\ RoomList!Current' = RoomList!Current
      BY <1>2, <1>3
    <2>2. QED
      BY <1>3, <2>1 DEF UpToDate, FetchCurrent, RoomList!Resting
  <1>4. ASSUME ~Behind, UNCHANGED room, NEW i \in 1..Limit,
               RoomList!FetchLast(i) \/ RoomList!FetchUnread(i)
        PROVE  UpToDate'
    <2>1. FetchTyped /\ FetchCurrent /\ fetch # RoomList!Resting
      BY <1>2, <1>4 DEF UpToDate, RoomList!FetchLast, RoomList!FetchUnread, ListInv
    <2>2. fetch = [rooms |-> fetch.rooms, last |-> fetch.last, unread |-> fetch.unread]
      BY <2>1 DEF FetchTyped
    <2>3. RoomList!Page' = RoomList!Page /\ room' = room
      BY <1>2, <1>4
    <2>4. i \in DOMAIN fetch.rooms
      BY <1>4, <2>1 DEF RoomList!FetchLast, RoomList!FetchUnread, FetchTyped
    <2>5. fetch'.rooms = fetch.rooms
      BY <1>4, <2>2 DEF RoomList!FetchLast, RoomList!FetchUnread
    <2>6. /\ \A j \in DOMAIN fetch'.last : fetch'.last[j] = room[fetch.rooms[j].room].last
          /\ \A j \in DOMAIN fetch'.unread : fetch'.unread[j] = room[fetch.rooms[j].room].unread
      <3>1. CASE RoomList!FetchLast(i)
        <4>1. /\ fetch'.last = RoomList!Under(fetch.last, i, room[fetch.rooms[i].room].last)
              /\ fetch'.unread = fetch.unread
          BY <2>2, <3>1 DEF RoomList!FetchLast
        <4>2. QED
          BY <2>1, <4>1 DEF FetchCurrent, RoomList!Under
      <3>2. CASE RoomList!FetchUnread(i)
        <4>1. /\ fetch'.unread = RoomList!Under(fetch.unread, i, room[fetch.rooms[i].room].unread)
              /\ fetch'.last = fetch.last
          BY <2>2, <3>2 DEF RoomList!FetchUnread
        <4>2. QED
          BY <2>1, <4>1 DEF FetchCurrent, RoomList!Under
      <3>3. QED
        BY <1>4, <3>1, <3>2
    <2>7. FetchCurrent'
      BY <2>1, <2>3, <2>5, <2>6 DEF FetchCurrent
    <2>8. fetch' # RoomList!Resting
      <3>1. fetch.rooms \in Seq(Entry)
        BY <2>1 DEF FetchTyped
      <3>2. fetch.rooms # None
        BY <3>1 DEF ListConstants, Entry
      <3>3. QED
        BY <2>5, <3>2 DEF RoomList!Resting
    <2>9. QED
      BY <2>7, <2>8 DEF UpToDate
  <1>5. CASE ~Behind /\ UNCHANGED room /\ RoomList!FetchDone
    <2>1. /\ FetchTyped /\ FetchCurrent
          /\ DOMAIN fetch.unread = DOMAIN fetch.rooms /\ fetch' = RoomList!Resting
          /\ shown' = [i \in DOMAIN fetch.rooms |->
                          RoomList!ListItem(fetch.rooms[i].room, fetch.rooms[i].status,
                                            fetch.last[i], fetch.unread[i])]
      BY <1>2, <1>5 DEF UpToDate, RoomList!FetchDone, ListInv
    <2>2. /\ DOMAIN fetch.last = DOMAIN fetch.rooms
          /\ DOMAIN fetch.rooms = DOMAIN RoomList!Page
      BY <1>5, <2>1 DEF FetchTyped, FetchCurrent, RoomList!FetchDone
    <2>3. \A i \in DOMAIN fetch.rooms :
             /\ fetch.rooms[i].room = RoomList!Page[i]
             /\ fetch.rooms[i].status = room[RoomList!Page[i]].status
             /\ fetch.last[i] = room[RoomList!Page[i]].last
             /\ fetch.unread[i] = room[RoomList!Page[i]].unread
      BY <2>1, <2>2 DEF FetchCurrent
    <2>4. shown' = RoomList!Current
      BY <2>1, <2>2, <2>3 DEF RoomList!Current, RoomList!ListItem
    <2>5. RoomList!Current' = RoomList!Current
      BY <1>2, <1>5
    <2>6. QED
      BY <2>1, <2>4, <2>5 DEF UpToDate, RoomList!Resting
  <1>6. QED
    BY <1>1, <1>3, <1>4, <1>5, NotBehind

\* Before the first connection the client is behind.
LEMMA ListInit ==
    ASSUME ListConstants, RoomList!Init
    PROVE  ListInv
  <1>1. PICK r \in Rooms, s \in Final :
           room \in {[RoomList!NoRooms EXCEPT ![r] = RoomList!Earlier(s)], RoomList!NoRooms}
    BY DEF RoomList!Init
  <1>2. RoomList!NoRoom \in RoomRow
    BY DEF RoomList!NoRoom, RoomRow
  <1>3. RoomList!Earlier(s) \in RoomRow
    BY DEF RoomList!Earlier, RoomRow, ListConstants
  <1> HIDE DEF RoomRow
  <1>4. room \in [Rooms -> RoomRow]
    BY <1>1, <1>2, <1>3 DEF RoomList!NoRooms
  <1>5. \A q \in Rooms : room[q] = RoomList!NoRoom \/ (q = r /\ room[q] = RoomList!Earlier(s))
    <2>1. CASE room = RoomList!NoRooms
      BY <2>1 DEF RoomList!NoRooms
    <2>2. CASE room = [RoomList!NoRooms EXCEPT ![r] = RoomList!Earlier(s)]
      BY <2>2 DEF RoomList!NoRooms
    <2>3. QED
      BY <1>1, <2>1, <2>2
  <1>6. /\ \A q \in Rooms : ~room[q].there => room[q].last = 0 /\ room[q].unread = 0
        /\ TimesApart
    BY <1>5 DEF TimesApart, RoomList!NoRoom, RoomList!Earlier, RoomList!Init
  <1>7. /\ roomTxn \in [Senders -> SenderType]
        /\ \A h \in Senders : SenderFacts(roomTxn[h])
    BY DEF RoomList!Init, SenderType, SenderFacts, RoomList!Idle
  <1>8. /\ clock \in Nat /\ changes \in 0..MaxChanges
        /\ connected \in [on: BOOLEAN, times: 0..MaxConnects] /\ ~connected.on
        /\ stale \in BOOLEAN /\ unannounced \in BOOLEAN
    <2>1. 0 \in 0..MaxChanges /\ 0 \in 0..MaxConnects
      BY DEF ListConstants
    <2>2. /\ [on |-> FALSE, times |-> 0] \in [on: BOOLEAN, times: 0..MaxConnects]
          /\ ~[on |-> FALSE, times |-> 0].on
      BY <2>1
    <2>3. QED
      BY <2>1, <2>2 DEF RoomList!Init
  <1>9. shown \in Seq(RoomList!Item) /\ FetchTyped
    BY DEF RoomList!Init, FetchTyped
  <1>10. Behind
    BY <1>8 DEF Behind
  <1>11. QED
    BY <1>4, <1>6, <1>7, <1>8, <1>9, <1>10
    DEF ListInv, RoomList!TypeOK, RoomRow, SenderType, ListOps

\* No step disturbs it.
LEMMA ListStep ==
    ASSUME ListConstants, ListInv, [RoomList!Next]_listVars
    PROVE  ListInv'
  <1>1. ListRooms'
    BY ListRoomsStep
  <1>2. /\ roomTxn' \in [Senders -> SenderType]
        /\ \A g \in Senders : SenderFacts(roomTxn'[g])
        /\ changes' \in 0..MaxChanges
        /\ connected' \in [on: BOOLEAN, times: 0..MaxConnects]
        /\ stale' \in BOOLEAN /\ unannounced' \in BOOLEAN
    BY SendersStep
  <1>3. FetchTyped' /\ shown' \in Seq(RoomList!Item)
    BY FetchStep
  <1>4. ~Behind' => UpToDate'
    BY StaysUpToDate
  <1>5. RoomList!TypeOK'
    BY <1>1, <1>2, <1>3
    DEF RoomList!TypeOK, ListRooms, RoomRow, EmptyUnless, SenderType, ListOps
  <1>6. QED
    BY <1>1, <1>2, <1>3, <1>4, <1>5 DEF ListInv, ListRooms, UpToDate

\* A connected client that was told of nothing new shows the first page as it
\* is, in the right order and with the right numbers, once the requests that
\* change rooms have ended, unless one of them failed before it could tell:
\* no change that comes while the list is read is missed, whatever overlaps
\* (getChatRooms, touchChatRoom, emitChatUpdated and the handlers that call them).
THEOREM ListIsCurrent ==
    ASSUME ListConstants
    PROVE  ListSpec => [](RoomList!TypeOK /\ RoomList!ListCurrent)
  <1>1. RoomList!Init => ListInv
    BY ListInit
  <1>2. ListInv /\ [RoomList!Next]_listVars => ListInv'
    BY ListStep
  <1>3. ListInv => RoomList!TypeOK /\ RoomList!ListCurrent
    <2>1. (\A h \in Senders : roomTxn[h] = RoomList!Idle)
             => \A h \in Senders : roomTxn[h].stage = "idle"
      BY DEF RoomList!Idle
    <2>2. QED
      BY <2>1 DEF ListInv, Behind, RoomList!ListCurrent
  <1>4. QED
    BY <1>1, <1>2, <1>3, PTL DEF ListSpec
=============================================================================
