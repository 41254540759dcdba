------------------------------- MODULE Posts -------------------------------
(***************************************************************************)
(* Posts, their images and the bucket the images are in (post.service.ts,  *)
(* aws.service.ts).                                                        *)
(*                                                                         *)
(* create and update run in a database transaction, the bucket does not    *)
(* take part in it: pictures are uploaded before their rows are inserted,  *)
(* and deleted after the commit that deleted their rows.  update decides   *)
(* on the images it read before its transaction.  What a transaction has   *)
(* written is kept in `txn` until it commits; INSERT of an image takes a   *)
(* shared lock on its post (the foreign key), UPDATE and DELETE of a post  *)
(* an exclusive one.  A handler may end after any step.                    *)
(*                                                                         *)
(* Texts and tags (module Tags) of a post are left out.  Pictures are      *)
(* numbered by their keys, in the order of upload.                                 *)
(***************************************************************************)
EXTENDS Naturals, FiniteSets, Sequences

CONSTANTS
    Handlers,
    Limit,          \* MAX_POST_IMAGE_COUNT
    MaxPosts, MaxUploads,  \* bounds on posts and uploads
    None, NoRow

VARIABLES
    thumbnail,   \* the post table, by id: the thumbnail
    posted,      \* ids given to posts so far
    images,      \* post_image, by id: the post and the picture
    numbered,    \* ids given to images so far
    uploads,     \* pictures uploaded so far
    objects,     \* pictures in the bucket
    sameKey,     \* whether two files of a request were uploaded under one key
    txn,
    cutShort,    \* whether a handler has ended between two steps
    kept         \* posts the DELETE of their author has failed for

vars == <<thumbnail, posted, images, numbered, uploads, objects, sameKey, txn, cutShort, kept>>

Posts == 1..MaxPosts
ImageIds == 1..MaxUploads
Pictures == 1..MaxUploads
Image == [post: Posts, picture: Pictures]

\* `drop`: the images to be deleted, as loaded; `gone`, `added`: what the
\* transaction has deleted and inserted so far.
Idle == [stage |-> "idle", op |-> None, post |-> None, files |-> 0, text |-> FALSE,
         drop |-> {}, old |-> {}, gone |-> {}, pictures |-> <<>>, added |-> {},
         shown |-> None, lock |-> "none"]

Transaction ==
    [stage: {"idle", "uploading", "starting", "deleting", "inserting", "listing",
             "committing", "clearing", "removing"},
     op: {"create", "update", "remove", None},
     post: Posts \union {None}, files: 0..Limit, text: BOOLEAN,
     drop: SUBSET ImageIds, old: SUBSET Pictures, gone: SUBSET ImageIds,
     pictures: UNION {[1..n -> Pictures] : n \in 0..Limit}, added: SUBSET ImageIds,
     shown: Pictures \union {None}, lock: {"none", "S", "X"}]

Exists(p) == thumbnail[p] # NoRow

TypeOK ==
    /\ thumbnail \in [Posts -> Pictures \union {None, NoRow}]
    /\ posted \in 0..MaxPosts
    /\ images \in [ImageIds -> Image \union {NoRow}]
    /\ \A i \in ImageIds : images[i] # NoRow => Exists(images[i].post)
    /\ numbered \in 0..MaxUploads
    /\ uploads \in 0..MaxUploads /\ objects \subseteq 1..uploads
    /\ sameKey \in BOOLEAN
    /\ txn \in [Handlers -> Transaction]
    /\ cutShort \in BOOLEAN
    /\ kept \subseteq Posts

Init ==
    /\ thumbnail = [p \in Posts |-> NoRow]
    /\ posted = 0
    /\ images = [i \in ImageIds |-> NoRow]
    /\ numbered = 0
    /\ uploads = 0
    /\ objects = {}
    /\ sameKey = FALSE
    /\ txn = [h \in Handlers |-> Idle]
    /\ cutShort = FALSE
    /\ kept = {}

-----------------------------------------------------------------------------
posts == <<thumbnail, posted, kept>>
imageRows == <<images, numbered>>
bucket == <<uploads, objects, sameKey>>

ImagesOf(p) == {i \in ImageIds : images[i] # NoRow /\ images[i].post = p}
PicturesIn(S) == {images[i].picture : i \in S}
First(S) == CHOOSE i \in S : \A j \in S : i <= j

\* No other transaction holds one of these locks on post p.
Free(h, p, modes) ==
    \A g \in Handlers \ {h} : txn[g].post = p => txn[g].lock \notin modes

\* Nor has deleted one of these images without having committed.
Undeleted(h, S) == \A g \in Handlers \ {h} : txn[g].gone \intersect S = {}

Goto(h, next) == txn' = [txn EXCEPT ![h] = next]

\* The picture of an image the transaction has inserted: in the order of the files.
Added(t, i) == [post |-> t.post, picture |-> t.pictures[i - First(t.added) + 1]]

-----------------------------------------------------------------------------
\* create: too many files are refused, then the transaction begins.
Create(h, n) ==
    /\ txn[h].stage = "idle" /\ n <= Limit
    /\ Goto(h, [Idle EXCEPT !.stage = "uploading", !.op = "create", !.files = n])
    /\ UNCHANGED <<posts, imageRows, bucket, cutShort>>

\* uploadFiles: all at once; the answer has the order of the files.  The key
\* of a picture is its file's name and the time in milliseconds: files of one
\* name in one request get one key, and the last of them is what it holds.
Upload(h, alike) ==
    LET t == txn[h] IN
    /\ t.stage = "uploading"
    /\ alike => t.files > 1
    /\ sameKey' = (sameKey \/ alike)
    /\ uploads' = uploads + (IF alike THEN 1 ELSE t.files)
    /\ uploads' <= MaxUploads
    /\ objects' = objects \union (uploads + 1 .. uploads')
    /\ Goto(h, [t EXCEPT !.stage = IF t.op = "create" THEN "committing" ELSE "inserting",
                         !.files = IF t.op = "create" THEN t.files ELSE 0,
                         !.pictures = [i \in 1..t.files |-> IF alike THEN uploads' ELSE uploads + i]])
    /\ UNCHANGED <<posts, imageRows, cutShort>>

\* One of the uploads fails: those that succeed stay, the transaction does not.
UploadFails(h, n) ==
    /\ txn[h].stage = "uploading"
    /\ n < txn[h].files /\ uploads + n <= MaxUploads
    /\ uploads' = uploads + n
    /\ objects' = objects \union (uploads + 1 .. uploads')
    /\ Goto(h, Idle)
    /\ cutShort' = TRUE
    /\ UNCHANGED <<posts, imageRows, sameKey>>

\* create commits the post, its images and its thumbnail.
CreateCommit(h) ==
    LET t == txn[h]
        p == posted + 1
        ids == numbered + 1 .. numbered + t.files IN
    /\ t.stage = "committing" /\ t.op = "create"
    /\ posted < MaxPosts /\ numbered + t.files <= MaxUploads
    /\ posted' = p
    /\ thumbnail' = [thumbnail EXCEPT ![p] = IF t.files = 0 THEN None ELSE t.pictures[1]]
    /\ images' = [i \in ImageIds |->
                    IF i \in ids THEN Added([t EXCEPT !.post = p, !.added = ids], i) ELSE images[i]]
    /\ numbered' = numbered + t.files
    /\ Goto(h, Idle)
    /\ UNCHANGED <<bucket, cutShort, kept>>

-----------------------------------------------------------------------------
\* update: load the post and its images; those to be deleted must be among
\* them, and what is left and the new files must not be too many.
UpdateFind(h, p, drop, n, text) ==
    /\ txn[h].stage = "idle"
    /\ Exists(p) /\ drop \subseteq ImagesOf(p)
    /\ Cardinality(ImagesOf(p) \ drop) + n <= Limit
    /\ Goto(h, [Idle EXCEPT !.stage = "starting", !.op = "update", !.post = p, !.files = n,
                            !.text = text, !.drop = drop, !.old = PicturesIn(drop)])
    /\ UNCHANGED <<posts, imageRows, bucket, cutShort>>

\* The transaction begins with the texts, if there are new ones ...
UpdateText(h) ==
    LET t == txn[h] IN
    /\ t.stage = "starting"
    /\ t.text => Free(h, t.post, {"S", "X"})
    /\ Goto(h, [t EXCEPT !.stage = "deleting", !.text = FALSE, !.lock = IF t.text THEN "X" ELSE "none"])
    /\ UNCHANGED <<posts, imageRows, bucket, cutShort>>

\* Mutant: the files leave the bucket with the rows, before the commit.
DeleteImagesAtOnce(h) ==
    LET t == txn[h] IN
    /\ t.stage = "deleting"
    /\ Undeleted(h, t.drop)
    /\ objects' = objects \ t.old
    /\ Goto(h, [t EXCEPT !.stage = IF t.files = 0 THEN "listing" ELSE "uploading",
                         !.drop = {}, !.gone = t.drop])
    /\ UNCHANGED <<posts, imageRows, uploads, sameKey, cutShort>>

\* ... deletes images ...
DeleteImages(h) ==
    LET t == txn[h] IN
    /\ t.stage = "deleting"
    /\ Undeleted(h, t.drop)
    /\ Goto(h, [t EXCEPT !.stage = IF t.files = 0 THEN "listing" ELSE "uploading",
                         !.drop = {}, !.gone = t.drop])
    /\ UNCHANGED <<posts, imageRows, bucket, cutShort>>

\* ... inserts the uploaded ones, of a post that still exists ...
InsertImages(h) ==
    LET t == txn[h] IN
    /\ t.stage = "inserting"
    /\ Free(h, t.post, {"X"})
    /\ numbered + Len(t.pictures) <= MaxUploads
    /\ IF Exists(t.post)
       THEN /\ Goto(h, [t EXCEPT !.stage = "listing",
                                 !.added = numbered + 1 .. numbered + Len(t.pictures),
                                 !.lock = IF @ = "none" THEN "S" ELSE @])
            /\ numbered' = numbered + Len(t.pictures)
            /\ UNCHANGED cutShort
       ELSE Goto(h, Idle) /\ cutShort' = TRUE /\ UNCHANGED numbered
    /\ UNCHANGED <<posts, images, bucket>>

\* ... lists the images of the post by id, its own writes included ...
ListImages(h) ==
    LET t == txn[h]
        latest == (ImagesOf(t.post) \ t.gone) \union t.added
        first == First(latest) IN
    /\ t.stage = "listing"
    /\ Goto(h, [t EXCEPT !.stage = "committing",
                         !.shown = IF latest = {} THEN None
                                   ELSE IF first \in t.added THEN Added(t, first).picture
                                   ELSE images[first].picture])
    /\ UNCHANGED <<posts, imageRows, bucket, cutShort>>

\* ... and commits with the first of them as thumbnail.
UpdateCommit(h) ==
    LET t == txn[h] IN
    /\ t.stage = "committing" /\ t.op = "update"
    /\ Free(h, t.post, {"S", "X"})
    /\ thumbnail' = [thumbnail EXCEPT ![t.post] = IF Exists(t.post) THEN t.shown ELSE @]
    /\ images' = [i \in ImageIds |-> CASE i \in t.gone -> NoRow
                                       [] i \in t.added -> Added(t, i)
                                       [] OTHER -> images[i]]
    /\ Goto(h, [Idle EXCEPT !.stage = "clearing", !.op = "update", !.post = t.post, !.old = t.old])
    /\ UNCHANGED <<posted, numbered, bucket, cutShort, kept>>

\* After the commit (and the tags) the deleted images leave the bucket; one
\* that cannot be deleted is left there, and nobody is told.
ClearImages(h, failed) ==
    LET t == txn[h] IN
    /\ t.stage = "clearing"
    /\ failed \subseteq t.old
    /\ objects' = objects \ (t.old \ failed)
    /\ Goto(h, Idle)
    /\ cutShort' = (cutShort \/ failed # {})
    /\ UNCHANGED <<posts, imageRows, uploads, sameKey>>

-----------------------------------------------------------------------------
\* remove: the post of the author is found ...
RemoveFind(h, p) ==
    /\ txn[h].stage = "idle"
    /\ Exists(p)
    /\ Goto(h, [Idle EXCEPT !.stage = "removing", !.op = "remove", !.post = p])
    /\ UNCHANGED <<posts, imageRows, bucket, cutShort>>

\* ... and deleted, unless an image refers to it.
Remove(h) ==
    LET p == txn[h].post IN
    /\ txn[h].stage = "removing"
    /\ Free(h, p, {"S", "X"}) /\ Undeleted(h, ImagesOf(p))
    /\ IF ImagesOf(p) = {}
       THEN thumbnail' = [thumbnail EXCEPT ![p] = NoRow] /\ UNCHANGED kept
       ELSE kept' = kept \union {p} /\ UNCHANGED thumbnail
    /\ Goto(h, Idle)
    /\ UNCHANGED <<posted, imageRows, bucket, cutShort>>

\* A failed statement, a deadlock, or the end of the process.
Interrupt(h) ==
    /\ txn[h].stage # "idle"
    /\ Goto(h, Idle)
    /\ cutShort' = TRUE
    /\ UNCHANGED <<posts, imageRows, bucket>>

Next ==
    \E h \in Handlers :
        \/ \E n \in 0..Limit : Create(h, n) \/ UploadFails(h, n)
        \/ \E alike \in BOOLEAN : Upload(h, alike)
        \/ CreateCommit(h)
        \/ \E p \in Posts :
              \/ \E drop \in SUBSET ImagesOf(p), n \in 0..Limit, text \in BOOLEAN :
                    UpdateFind(h, p, drop, n, text)
              \/ RemoveFind(h, p)
        \/ UpdateText(h) \/ DeleteImages(h) \/ InsertImages(h) \/ ListImages(h)
        \/ UpdateCommit(h) \/ \E failed \in SUBSET txn[h].old : ClearImages(h, failed)
        \/ Remove(h) \/ Interrupt(h)

Spec == Init /\ [][Next]_vars

-----------------------------------------------------------------------------
\* Whatever overlaps and wherever a handler ends: the picture of an image row
\* is in the bucket; uploads come before the rows, deletions after them, and
\* deleting an image leaves the pictures of the others alone.
ImagesStored == \A i \in ImageIds : images[i] # NoRow => images[i].picture \in objects

\* Unless a handler was cut short, nothing else is in the bucket once nothing
\* is under way, two updates of one post included.
BucketMatches ==
    (~cutShort /\ \A h \in Handlers : txn[h].stage = "idle") =>
        objects = {images[i].picture : i \in {j \in ImageIds : images[j] # NoRow}}

\* One handler at a time, ended after any step: a post shows its first image.
ThumbnailIsFirst ==
    \A p \in Posts : Exists(p) =>
        thumbnail[p] = IF ImagesOf(p) = {} THEN None ELSE images[First(ImagesOf(p))].picture

\* The images of a post are at most as many as allowed.
AtMostLimit == \A p \in Posts : Cardinality(ImagesOf(p)) <= Limit

\* The author can delete a post.
AuthorsRemove == kept = {}
=============================================================================
