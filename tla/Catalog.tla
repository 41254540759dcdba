------------------------------- MODULE Catalog -------------------------------
(***************************************************************************)
(* The tables administrators keep: coin products (wallet.service.ts),      *)
(* terms (settings.service.ts) and notices (notice.service.ts), and the    *)
(* default rows that a starting process adds (app-init.service.ts).  The   *)
(* services write a row in the same way: they look for it, change the      *)
(* entity and save it, without a transaction.  Coin products are checked   *)
(* for their amount before they are saved, terms and notices are removed.  *)
(*                                                                         *)
(* The key of a row is the amount of a coin product, title and version of  *)
(* a term, the title of a notice; its text stands for the other columns.   *)
(* Only coin products are ever inactive.  Administrators are external.     *)
(***************************************************************************)
EXTENDS EntityRows, Naturals, FiniteSets, SequencesExt

CONSTANTS
    Processes,  \* server processes that pm2 starts
    Slots,      \* requests a process handles at a time
    Keys, Texts,
    DefaultProducts, DefaultTerms,   \* keys of the default rows
    MaxRows,    \* bound on ids
    MaxStarts,  \* bound on starts of a process
    None

VARIABLES
    table,      \* which table this is: "product", "term" or "notice"
    rows,       \* its rows, by id
    nextId,     \* its AUTO_INCREMENT
    txn,        \* per handler: the statement it is at and the entity it holds
    servers,    \* per process: how far its start is, what it found missing
    answered    \* per id: the row as its last writer ended, None for removed

vars == <<table, rows, nextId, txn, servers, answered>>

Row == [key: Keys, text: Texts, active: BOOLEAN]
Ids == 1..MaxRows
Handlers == Processes \X Slots

\* The default rows of the table; notices have none.
Defaults ==
    CASE table = "product" -> DefaultProducts
      [] table = "term" -> DefaultTerms
      [] table = "notice" -> {}

Idle == [stage |-> "idle", id |-> None, entity |-> None, dto |-> None, columns |-> {}]
Off == [stage |-> "off", missing |-> {}, starts |-> 0]

\* What a request changes of a row, None for what it leaves out.
Dto == [key: Keys \union {None}, text: Texts \union {None},
        active: BOOLEAN \union {None}]

Transaction ==
    [stage: {"idle", "checking", "saving", "updating", "inserting", "removing"},
     id: Ids \union {None}, entity: Row \union {None}, dto: Dto \union {None},
     columns: SUBSET {"key", "text", "active"}]

TypeOK ==
    /\ table \in {"product", "term", "notice"}
    /\ \E ids \in SUBSET Ids : rows \in [ids -> Row]
    /\ nextId \in 1..(MaxRows + 1)
    /\ txn \in [Handlers -> Transaction]
    /\ \A h \in Handlers : txn[h].stage \in {"saving", "updating", "inserting"} =>
          txn[h].entity \in Row
    /\ servers \in [Processes -> [stage: {"off", "finding", "seeding", "up"},
                                  missing: SUBSET Defaults, starts: 0..MaxStarts]]
    /\ DOMAIN rows \subseteq DOMAIN answered /\ DOMAIN answered \subseteq 1..(nextId - 1)

Init ==
    /\ table \in {"product", "term", "notice"}
    /\ rows = <<>>
    /\ nextId = 1
    /\ txn = [h \in Handlers |-> Idle]
    /\ servers = [p \in Processes |-> Off]
    /\ answered = <<>>

-----------------------------------------------------------------------------
Goto(h, t) == txn' = [txn EXCEPT ![h] = t]
Done(h) == Goto(h, Idle)

\* A request reaches a process that has started.
Begin(h) ==
    /\ txn[h] = Idle
    /\ servers[h[1]].stage = "up"

With(all, id, row) == [i \in DOMAIN all \union {id} |-> IF i = id THEN row ELSE all[i]]
Without(all, id) == [i \in DOMAIN all \ {id} |-> all[i]]

\* The rows findOne({ where: { coinAmount } }) may answer.
Same(k) == {i \in DOMAIN rows : rows[i].key = k}

\* assertCoinProductUniqueness lets the amount pass for this product.
MayTake(k, id) == Same(k) = {} \/ id \in Same(k)

Creating(h, k, t, active) ==
    /\ Goto(h, [Idle EXCEPT !.stage = "inserting",
                            !.entity = [key |-> k, text |-> t, active |-> active]])
    /\ UNCHANGED <<rows, nextId, servers, answered>>

\* The amount is looked for, the row comes with the next statement.
CreateCoinProduct(h, k, t, active) ==
    table = "product" /\ Begin(h) /\ MayTake(k, None) /\ Creating(h, k, t, active)

CreateTerm(h, k, t) == table = "term" /\ Begin(h) /\ Creating(h, k, t, TRUE)

CreateNotice(h, k, t) == table = "notice" /\ Begin(h) /\ Creating(h, k, t, TRUE)

\* The entity after what the request changes; update() puts a new amount into
\* it when it has been checked.
Merged(row, dto) == [c \in DOMAIN row |-> IF dto[c] = None THEN row[c] ELSE dto[c]]
NewKey(row, dto) == dto.key # None /\ dto.key # row.key

Updating(h, id, dto, checks) ==
    /\ Begin(h)
    /\ id \in DOMAIN rows
    /\ Goto(h, [Idle EXCEPT !.stage = IF checks THEN "checking" ELSE "saving",
                            !.id = id,
                            !.entity = IF checks THEN rows[id] ELSE Merged(rows[id], dto),
                            !.dto = dto])
    /\ UNCHANGED <<rows, nextId, servers, answered>>

\* The row is found; only another amount has to be checked.
UpdateCoinProduct(h, id, dto) ==
    table = "product" /\ id \in DOMAIN rows /\ Updating(h, id, dto, NewKey(rows[id], dto))

UpdateTerm(h, id, dto) ==
    table = "term" /\ dto.active = None /\ Updating(h, id, dto, FALSE)

UpdateNotice(h, id, dto) ==
    table = "notice" /\ dto.active = None /\ Updating(h, id, dto, FALSE)

\* updateCoinProduct asks for the amount, then goes on with the changed entity.
UpdateCheck(h) ==
    LET id == txn[h].id
        dto == txn[h].dto
    IN
    /\ txn[h].stage = "checking"
    /\ \/ /\ MayTake(dto.key, id)
          /\ Goto(h, [txn[h] EXCEPT !.stage = "saving",
                                    !.entity = Merged(txn[h].entity, dto)])
       \/ /\ Same(dto.key) \ {id} # {}
          /\ Done(h)
    /\ UNCHANGED <<rows, nextId, servers, answered>>

\* save reads the row again; a row that is gone is inserted with its old id.
SaveSelect(h) ==
    LET id == txn[h].id
        t == txn[h]
    IN
    /\ t.stage = "saving"
    /\ IF id \in DOMAIN rows
       THEN Goto(h, [t EXCEPT !.stage = "updating", !.columns = Changed(t.entity, rows[id])])
       ELSE Goto(h, [t EXCEPT !.stage = "inserting"])
    /\ UNCHANGED <<rows, nextId, servers, answered>>

\* Mutant: the columns of the request are forgotten.
SaveUpdateTextOnly(h) ==
    LET id == txn[h].id IN
    /\ txn[h].stage = "updating"
    /\ id \in DOMAIN rows
    /\ rows' = [rows EXCEPT ![id] = Written(txn[h].entity, rows[id], {"text"})]
    /\ answered' = With(answered, id, txn[h].entity)
    /\ Done(h)
    /\ UNCHANGED <<nextId, servers>>

\* The UPDATE of save, and the answer: the entity.  It may find the row gone.
SaveUpdate(h) ==
    LET id == txn[h].id
        t == txn[h]
    IN
    /\ t.stage = "updating"
    /\ IF id \in DOMAIN rows
       THEN /\ rows' = [rows EXCEPT ![id] = Written(t.entity, rows[id], t.columns)]
            /\ answered' = With(answered, id, t.entity)
       ELSE UNCHANGED <<rows, answered>>
    /\ Done(h)
    /\ UNCHANGED <<nextId, servers>>

\* The INSERT of save: of create, or of an entity whose row is gone, unless
\* another handler has inserted that one already.
Insert(h) ==
    LET new == txn[h].id = None
        id == IF new THEN nextId ELSE txn[h].id
    IN
    /\ txn[h].stage = "inserting"
    /\ new => nextId <= MaxRows
    /\ IF id \in DOMAIN rows
       THEN UNCHANGED <<rows, answered>>
       ELSE /\ rows' = With(rows, id, txn[h].entity)
            /\ answered' = IF new THEN With(answered, id, txn[h].entity) ELSE answered
    /\ nextId' = IF new THEN nextId + 1 ELSE nextId
    /\ Done(h)
    /\ UNCHANGED servers

Removing(h, id) ==
    /\ Begin(h)
    /\ id \in DOMAIN rows
    /\ Goto(h, [Idle EXCEPT !.stage = "removing", !.id = id])
    /\ UNCHANGED <<rows, nextId, servers, answered>>

\* removeTerm looks for the row, and so does remove of a notice ...
RemoveTerm(h, id) == table = "term" /\ Removing(h, id)
RemoveNotice(h, id) == table = "notice" /\ Removing(h, id)

\* ... and delete it by its id.
RemoveDelete(h) ==
    LET id == txn[h].id IN
    /\ txn[h].stage = "removing"
    /\ rows' = Without(rows, id)
    /\ answered' = With(answered, id, None)
    /\ Done(h)
    /\ UNCHANGED <<nextId, servers>>

\* A handler ends by a database error: none of them has written anything yet.
Interrupt(h) ==
    /\ txn[h] # Idle
    /\ Done(h)
    /\ UNCHANGED <<rows, nextId, servers, answered>>

-----------------------------------------------------------------------------
(* The start of a process.                                                 *)

Serve(p, stage, missing) ==
    servers' = [servers EXCEPT ![p] = [stage |-> stage, missing |-> missing,
                                       starts |-> @.starts]]

\* onApplicationBootstrap runs before the process listens.
Start(p) ==
    /\ servers[p].stage = "off"
    /\ servers[p].starts < MaxStarts
    /\ servers' = [servers EXCEPT ![p] = [stage |-> "finding", missing |-> {},
                                          starts |-> @.starts + 1]]
    /\ UNCHANGED <<rows, nextId, txn, answered>>

Missing == {k \in Defaults : Same(k) = {}}

\* The defaults that are not in the table are found ...
SeedFind(p) ==
    /\ servers[p].stage = "finding"
    /\ Serve(p, IF Missing = {} THEN "up" ELSE "seeding", Missing)
    /\ UNCHANGED <<rows, nextId, txn, answered>>

SeedCoinProducts(p) == table = "product" /\ SeedFind(p)

SeedTerms(p) == table = "term" /\ SeedFind(p)

\* Seeding may be switched off, and terms need an administrator to be seeded.
SeedSkip(p) ==
    /\ servers[p].stage = "finding"
    /\ Serve(p, "up", {})
    /\ UNCHANGED <<rows, nextId, txn, answered>>

DefaultText == CHOOSE t \in Texts : TRUE
DefaultRow(k) == [key |-> k, text |-> DefaultText, active |-> TRUE]

\* ... are saved together.
SeedSave(p) ==
    LET keys == SetToSeq(servers[p].missing)
        last == nextId + Len(keys) - 1
        Add(all) == [i \in DOMAIN all \union (nextId..last) |->
                        IF i < nextId THEN all[i] ELSE DefaultRow(keys[i - nextId + 1])]
    IN
    /\ servers[p].stage = "seeding"
    /\ last <= MaxRows
    /\ rows' = Add(rows)
    /\ answered' = Add(answered)
    /\ nextId' = last + 1
    /\ Serve(p, "up", {})
    /\ UNCHANGED txn

\* pm2 stops a process, or it ends: its handlers end with it.
Stop(p) ==
    /\ servers[p].stage # "off"
    /\ Serve(p, "off", {})
    /\ txn' = [h \in Handlers |-> IF h[1] = p THEN Idle ELSE txn[h]]
    /\ UNCHANGED <<rows, nextId, answered>>

Step ==
    \/ \E h \in Handlers :
          \/ \E k \in Keys, t \in Texts :
                \/ \E active \in BOOLEAN : CreateCoinProduct(h, k, t, active)
                \/ CreateTerm(h, k, t) \/ CreateNotice(h, k, t)
          \/ \E id \in Ids :
                \/ \E dto \in Dto :
                      \/ UpdateCoinProduct(h, id, dto)
                      \/ UpdateTerm(h, id, dto) \/ UpdateNotice(h, id, dto)
                \/ RemoveTerm(h, id) \/ RemoveNotice(h, id)
          \/ UpdateCheck(h) \/ SaveSelect(h) \/ SaveUpdate(h) \/ Insert(h)
          \/ RemoveDelete(h) \/ Interrupt(h)
    \/ \E p \in Processes :
          \/ Start(p) \/ SeedCoinProducts(p) \/ SeedTerms(p) \/ SeedSkip(p)
          \/ SeedSave(p) \/ Stop(p)

Next == Step /\ UNCHANGED table

Spec == Init /\ [][Next]_vars

-----------------------------------------------------------------------------
(* What members and administrators are shown.                              *)

\* getCoinProducts: the active ones.
Offered == {i \in DOMAIN rows : rows[i].active}

\* getTerms, findAll of the notices and the lists for administrators: all.
Listed == DOMAIN rows

\* No two coin products have one amount.
KeysUnique == \A i, j \in DOMAIN rows : rows[i].key = rows[j].key => i = j

\* When nobody is writing, everybody is shown what administrators were last
\* told they had saved, whatever restarts and failed requests came between:
\* no update is forgotten, and a row that was removed stays away.
ShownAsAnswered ==
    (\A h \in Handlers : txn[h] = Idle) =>
        /\ Listed = {i \in DOMAIN answered : answered[i] # None}
        /\ \A i \in Listed : rows[i] = answered[i]
        /\ Offered = {i \in Listed : answered[i].active}

\* A row that was removed stays away.
RemovedStay == \A i \in DOMAIN rows : answered[i] # None
=============================================================================
