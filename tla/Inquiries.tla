------------------------------ MODULE Inquiries ------------------------------
(***************************************************************************)
(* Inquiries of members and the answers of administrators                  *)
(* (inquiry.service.ts).  create saves the inquiry, uploads its pictures   *)
(* and saves their rows; updateByAdmin loads an inquiry with its pictures, *)
(* changes it and saves it.  Neither runs in a transaction; a handler is   *)
(* one action per statement or upload and may end after any of them.       *)
(*                                                                         *)
(* Category, title and content are left out, and so is who asked.  A date  *)
(* is whether it is set; a picture is its number in the request.           *)
(***************************************************************************)
EXTENDS EntityRows, Naturals, FiniteSets

CONSTANTS
    Members,       \* requests of members handled at a time
    Admins,        \* administrators, one request each at a time
    Answers,       \* texts of answers that are not blank
    Serial,        \* whether administrators wait for each other's answers
    MaxInquiries,  \* bound on inquiries
    MaxSaves,      \* bound on updates
    None

VARIABLES
    inquiries,     \* the inquiry table, by id
    images,        \* the inquiry_image table: <<inquiry, number>>
    txn,           \* per handler: the statement it is at and what it holds
    sent,          \* per inquiry: the pictures its member was told are saved
    saves          \* number of updates so far

vars == <<inquiries, images, txn, sent, saves>>

Blank == "blank"
Statuses == {"PENDING", "IN_PROGRESS", "ANSWERED", "CLOSED"}
MaxFiles == 3

Inquiry == [status: Statuses, answer: Answers \union {Blank, None},
            answeredAt: BOOLEAN, closedAt: BOOLEAN, adminId: Admins \union {None}]

Ids == 1..MaxInquiries
Callers == Members \union Admins
Files(n) == 1..n

Idle == [stage |-> "idle", id |-> None, entity |-> None, images |-> {}, columns |-> {}]

Transaction ==
    [stage: {"idle", "uploading", "saving images", "answering", "saving", "updating"},
     id: Ids \union {None}, entity: Inquiry \union {None},
     images: SUBSET Files(MaxFiles), columns: SUBSET {"status", "answer", "answeredAt", "closedAt", "adminId"}]

TypeOK ==
    /\ \E n \in 0..MaxInquiries : inquiries \in [1..n -> Inquiry]
    /\ images \subseteq (DOMAIN inquiries) \X Files(MaxFiles)
    /\ txn \in [Callers -> Transaction]
    /\ \A h \in Callers : txn[h] # Idle => txn[h].id \in DOMAIN inquiries
    /\ sent \in [DOMAIN inquiries -> SUBSET Files(MaxFiles)]
    /\ saves \in 0..MaxSaves

Init ==
    /\ inquiries = <<>>
    /\ images = {}
    /\ txn = [h \in Callers |-> Idle]
    /\ sent = <<>>
    /\ saves = 0

-----------------------------------------------------------------------------
(* create.                                                                 *)

Goto(h, t) == txn' = [txn EXCEPT ![h] = t]
Done(h) == Goto(h, Idle)

ImagesOf(id) == {n \in Files(MaxFiles) : <<id, n>> \in images}

Asked == [status |-> "PENDING", answer |-> None, answeredAt |-> FALSE,
          closedAt |-> FALSE, adminId |-> None]

\* validateInquiryImages refuses the fourth picture.
Valid(n) == n <= MaxFiles

\* The inquiry is saved before its first picture is uploaded.
Create(m, n) ==
    LET id == Cardinality(DOMAIN inquiries) + 1 IN
    /\ txn[m] = Idle
    /\ Valid(n)
    /\ id \in Ids
    /\ inquiries' = [i \in 1..id |-> IF i = id THEN Asked ELSE inquiries[i]]
    /\ sent' = [i \in 1..id |-> IF i = id THEN {} ELSE sent[i]]
    /\ Goto(m, [Idle EXCEPT !.stage = IF n > 0 THEN "uploading" ELSE "answering",
                            !.id = id, !.images = Files(n)])
    /\ UNCHANGED <<images, saves>>

\* uploadFiles has uploaded all of them.
Upload(m) ==
    /\ txn[m].stage = "uploading"
    /\ Goto(m, [txn[m] EXCEPT !.stage = "saving images"])
    /\ UNCHANGED <<inquiries, images, sent, saves>>

\* Their rows are saved together.
SaveImages(m) ==
    /\ txn[m].stage = "saving images"
    /\ images' = images \union ({txn[m].id} \X txn[m].images)
    /\ Goto(m, [txn[m] EXCEPT !.stage = "answering"])
    /\ UNCHANGED <<inquiries, sent, saves>>

\* The answer is read again with findOne.
Answer(m) ==
    /\ txn[m].stage = "answering"
    /\ sent' = [sent EXCEPT ![txn[m].id] = txn[m].images]
    /\ Done(m)
    /\ UNCHANGED <<inquiries, images, saves>>

\* An upload or a statement fails, or the process ends.
Interrupt(h) ==
    /\ txn[h] # Idle
    /\ Done(h)
    /\ UNCHANGED <<inquiries, images, sent, saves>>

-----------------------------------------------------------------------------
(* updateByAdmin.                                                          *)

\* Mutant: a blank answer is an answer.
RequiredLax(status, answer) == status = "ANSWERED" => answer # None

\* An answer is required when the status is ANSWERED; blank ones are none.
Required(status, answer) == status = "ANSWERED" => answer \in Answers

\* What the request makes of the entity; an answer it leaves out stays.
Updated(entity, a, status, answer) ==
    [entity EXCEPT
        !.status = status,
        !.adminId = a,
        !.answer = IF answer = None THEN @ ELSE answer,
        !.answeredAt = @ \/ status = "ANSWERED",
        !.closedAt = @ \/ status = "CLOSED"]

UpdateFind(a, id, status, answer) ==
    /\ txn[a] = Idle
    /\ Serial => \A b \in Admins : txn[b] = Idle
    /\ id \in DOMAIN inquiries
    /\ Required(status, answer)
    /\ saves < MaxSaves
    /\ saves' = saves + 1
    /\ Goto(a, [Idle EXCEPT !.stage = "saving", !.id = id, !.images = ImagesOf(id),
                            !.entity = Updated(inquiries[id], a, status, answer)])
    /\ UNCHANGED <<inquiries, images, sent>>

\* save reads the row and its pictures.  A picture that the entity does not
\* hold is to lose its inquiry, which the column does not allow: save fails.
SaveSelect(a) ==
    LET t == txn[a] IN
    /\ t.stage = "saving"
    /\ IF ImagesOf(t.id) \subseteq t.images
       THEN Goto(a, [t EXCEPT !.stage = "updating",
                              !.columns = Changed(t.entity, inquiries[t.id])])
       ELSE Done(a)
    /\ UNCHANGED <<inquiries, images, sent, saves>>

SaveUpdate(a) ==
    LET t == txn[a] IN
    /\ t.stage = "updating"
    /\ inquiries' = [inquiries EXCEPT ![t.id] = Written(t.entity, @, t.columns)]
    /\ Done(a)
    /\ UNCHANGED <<images, sent, saves>>

Next ==
    \/ \E m \in Members :
          \/ \E n \in 0..(MaxFiles + 1) : Create(m, n)
          \/ Upload(m) \/ SaveImages(m) \/ Answer(m)
    \/ \E a \in Admins :
          \/ \E id \in Ids, status \in Statuses, answer \in Answers \union {Blank, None} :
                UpdateFind(a, id, status, answer)
          \/ SaveSelect(a) \/ SaveUpdate(a)
    \/ \E h \in Callers : Interrupt(h)

Spec == Init /\ [][Next]_vars

-----------------------------------------------------------------------------
\* The inquiries an administrator is shown of a status.
Listed(status) == {id \in DOMAIN inquiries : inquiries[id].status = status}

\* How an inquiry is shown to its member and to administrators.
Shown(id) ==
    [status |-> inquiries[id].status, answer |-> inquiries[id].answer,
     answeredAt |-> inquiries[id].answeredAt, images |-> ImagesOf(id)]

\* Nobody is shown an answered inquiry without an answer and its date, however
\* often its status and its answer were changed.
AnsweredHasAnswer ==
    \A id \in Listed("ANSWERED") :
        Shown(id).answer \in Answers /\ Shown(id).answeredAt

\* An inquiry keeps the pictures its member was told are saved, whatever an
\* administrator saves while they are uploaded or later.
ImagesStay == \A id \in DOMAIN inquiries : sent[id] \subseteq Shown(id).images

\* Pictures whoever overlaps; answers if administrators wait for each other.
InquiriesHold == ImagesStay /\ (Serial => AnsweredHasAnswer)
=============================================================================
