---------------------------- MODULE ContentProofs ----------------------------
(***************************************************************************)
(* Theorems about the services that keep what members publish: posts with  *)
(* their images and the bucket the images are in; the tags of posts and    *)
(* members; inquiries with their pictures and answers; the lists that are  *)
(* read page by page, and scraps.                                          *)
(***************************************************************************)
EXTENDS Content, FiniteSetTheorems, SequenceTheorems, TLAPS

-----------------------------------------------------------------------------
\* Posts: types, and what the transactions of several handlers keep apart.

\* The constants as the service has them: null is no id, no file and no name.
PostConstants ==
    /\ Limit \in Nat /\ MaxPosts \in Nat /\ MaxUploads \in Nat
    /\ None \notin Nat /\ None \notin {"create", "update", "remove"}
    /\ NoRow \notin Nat \union {None} /\ NoRow \notin Image

\* What a record holds at each stage.
Shape(t) ==
    /\ t.stage = "idle" => t = Idle
    /\ t.stage \in {"starting", "deleting", "inserting", "listing", "clearing"} =>
          t.op = "update"
    /\ t.stage \in {"uploading", "committing"} => t.op \in {"create", "update"}
    /\ t.stage = "removing" => t.op = "remove"
    /\ t.op \in {"update", "remove"} => t.post \in Posts
    /\ t.op = "create" => t.drop = {} /\ t.old = {} /\ t.gone = {} /\ t.added = {}
    /\ t.stage \notin {"inserting", "listing", "committing"} => t.pictures = <<>>
    /\ t.stage \notin {"listing", "committing"} => t.added = {}
    /\ t.stage \in {"listing", "committing"} /\ t.op = "update" =>
          \E a \in Nat : t.added = a + 1 .. a + Len(t.pictures)
    /\ t.op = "create" /\ t.stage = "committing" => Len(t.pictures) = t.files
    /\ t.stage \notin {"starting", "deleting"} => t.drop = {}
    /\ t.stage \in {"idle", "starting", "deleting", "clearing", "removing"} => t.gone = {}

\* The ids a transaction has seen or taken; a row it inserts is its own until
\* it commits, and holds the post (the foreign key).
Owns(t) ==
    /\ t.drop \union t.gone \union t.added \subseteq 1..numbered
    /\ \A i \in t.added : images[i] = NoRow
    /\ t.added # {} => t.lock # "none" /\ Exists(t.post)

\* Nobody deletes or inserts what another has inserted.
Apart ==
    \A g, h \in Handlers :
        /\ (txn[g].drop \union txn[g].gone) \intersect txn[h].added = {}
        /\ g # h => txn[g].added \intersect txn[h].added = {}

Numbering ==
    /\ \A i \in ImageIds : images[i] # NoRow => i <= numbered
    /\ \A p \in Posts : Exists(p) => p <= posted

PostInv ==
    /\ TypeOK
    /\ Numbering
    /\ Apart
    /\ \A h \in Handlers : Shape(txn[h]) /\ Owns(txn[h])

\* The pictures of a request are a sequence.
LEMMA PictureSeq ==
    ASSUME PostConstants, NEW t \in Transaction
    PROVE  /\ t.pictures \in Seq(Pictures)
           /\ Len(t.pictures) \in 0..Limit
           /\ DOMAIN t.pictures = 1..Len(t.pictures)
           /\ \A n \in 1..Len(t.pictures) : t.pictures[n] \in Pictures
  <1>1. PICK n \in 0..Limit : t.pictures \in [1..n -> Pictures]
    BY DEF Transaction
  <1>2. n \in Nat
    BY DEF PostConstants
  <1>3. t.pictures \in Seq(Pictures)
    BY <1>1, <1>2, SeqDef
  <1>4. Len(t.pictures) = n
    BY <1>1, <1>2, <1>3, LenProperties
  <1>5. QED
    BY <1>1, <1>3, <1>4

\* Pictures of a request of n files.
LEMMA PicturesFit ==
    ASSUME PostConstants, NEW n \in 0..Limit, NEW s \in [1..n -> Pictures]
    PROVE  /\ s \in UNION {[1..k -> Pictures] : k \in 0..Limit}
           /\ Len(s) = n
  <1>1. n \in Nat
    BY DEF PostConstants
  <1>2. s \in Seq(Pictures)
    BY <1>1, SeqDef
  <1>3. Len(s) = n
    BY <1>1, <1>2, LenProperties
  <1>4. QED
    BY <1>3

LEMMA NoPictures ==
    ASSUME PostConstants
    PROVE  /\ <<>> \in UNION {[1..k -> Pictures] : k \in 0..Limit}
           /\ Len(<<>>) = 0 /\ DOMAIN <<>> = {}
  <1>1. <<>> \in [1..0 -> Pictures]
    BY EmptySeq, LenProperties
  <1>2. 0 \in 0..Limit
    BY DEF PostConstants
  <1>3. QED
    BY <1>1, <1>2, PicturesFit, LenProperties, EmptySeq

\* A record without anything at hand.
LEMMA IdleRecord ==
    ASSUME PostConstants
    PROVE  Idle \in Transaction /\ Shape(Idle)
  <1>1. <<>> \in UNION {[1..k -> Pictures] : k \in 0..Limit}
    BY NoPictures
  <1>2. Idle \in Transaction
    BY <1>1 DEF Idle, Transaction, PostConstants
  <1>3. Shape(Idle)
    BY DEF Idle, Shape, PostConstants
  <1>4. QED
    BY <1>2, <1>3

\* Ids have a least one.
LEMMA LeastOf ==
    ASSUME NEW n \in Nat, NEW S \in SUBSET (1..n), S # {}
    PROVE  First(S) \in S /\ \A j \in S : First(S) <= j
  <1> DEFINE Before(i) == {j \in S : j < i}
             T == {Before(i) : i \in S}
  <1>1. IsFiniteSet(S)
    <2>1. IsFiniteSet(1..n)
      BY FS_Interval
    <2>2. QED
      BY <2>1, FS_Subset
  <1>2. IsWellFoundedOn(StrictSubsetOrdering(S), FiniteSubsetsOf(S))
    BY <1>1, FS_StrictSubsetOrderingWellFounded
  <1>3. T \subseteq FiniteSubsetsOf(S) /\ T # {}
    <2>1. \A i \in S : Before(i) \in FiniteSubsetsOf(S)
      BY <1>1, FS_Subset DEF FiniteSubsetsOf
    <2>2. QED
      BY <2>1
  <1>4. PICK A \in T : \A B \in T : <<B, A>> \notin StrictSubsetOrdering(S)
    <2> HIDE DEF T
    <2> QED
      BY <1>2, <1>3, WFMin
  <1>5. PICK i \in S : A = Before(i)
    BY <1>4
  <1>6. ASSUME NEW j \in S, j < i
        PROVE  FALSE
    <2>1. ~(j < j) /\ \A k \in S : k < j => k < i
      <3>1. i \in Nat /\ j \in Nat /\ \A k \in S : k \in Nat
        OBVIOUS
      <3>2. QED
        BY <1>6, <3>1
    <2>2. Before(j) \subseteq Before(i) /\ j \in Before(i) /\ j \notin Before(j)
      BY <1>6, <2>1
    <2>3. <<Before(j), Before(i)>> \in StrictSubsetOrdering(S)
      BY <2>2 DEF StrictSubsetOrdering
    <2>4. Before(j) \in T
      OBVIOUS
    <2> HIDE DEF Before, T
    <2>5. QED
      BY <1>4, <1>5, <2>3, <2>4
  <1>7. \A j \in S : i <= j
    BY <1>6
  <1>8. QED
    BY <1>7 DEF First

\* The first of a run of ids.
LEMMA FirstOfRun ==
    ASSUME NEW a \in Nat, NEW n \in Nat, n > 0
    PROVE  First(a + 1 .. a + n) = a + 1
  <1>1. /\ a + 1 \in a + 1 .. a + n
        /\ \A j \in a + 1 .. a + n : a + 1 <= j
    OBVIOUS
  <1>2. \A i \in a + 1 .. a + n :
            (\A j \in a + 1 .. a + n : i <= j) => i = a + 1
    OBVIOUS
  <1>3. QED
    BY <1>1, <1>2 DEF First

\* The rows a request inserts have its pictures, in their order.
LEMMA AddedImage ==
    ASSUME NEW t, NEW a \in Nat, t.pictures \in Seq(Pictures),
           t.added = a + 1 .. a + Len(t.pictures), NEW i \in t.added
    PROVE  /\ i - a \in 1..Len(t.pictures)
           /\ Added(t, i) = [post |-> t.post, picture |-> t.pictures[i - a]]
           /\ t.pictures[i - a] \in Pictures
  <1>1. Len(t.pictures) \in Nat /\ Len(t.pictures) > 0 /\ i \in Int
    BY LenProperties
  <1>2. First(t.added) = a + 1
    BY <1>1, FirstOfRun
  <1>3. i - First(t.added) + 1 = i - a /\ i - a \in 1..Len(t.pictures)
    BY <1>1, <1>2
  <1>4. t.pictures[i - a] \in Pictures
    BY <1>3, ElementOfSeq
  <1>5. QED
    BY <1>3, <1>4 DEF Added

-----------------------------------------------------------------------------
\* What a step of a handler does to its record.

LEMMA CreateMoves ==
    ASSUME PostConstants, PostInv, NEW h \in Handlers, NEW n \in 0..Limit, Create(h, n)
    PROVE  \E next \in Transaction :
             /\ txn' = [txn EXCEPT ![h] = next] /\ Shape(next)
             /\ next.stage = "uploading" /\ next.op = "create"
             /\ next.pictures = <<>> /\ next.old = {} /\ next.drop = {} /\ next.gone = {}
             /\ next.added = {}
  <1> DEFINE next == [Idle EXCEPT !.stage = "uploading", !.op = "create", !.files = n]
  <1>1. next \in Transaction
    BY IdleRecord DEF Transaction
  <1>2. /\ next.stage = "uploading" /\ next.op = "create" /\ next.post = None
        /\ next.drop = {} /\ next.old = {} /\ next.gone = {} /\ next.pictures = <<>>
        /\ next.added = {}
    BY DEF Idle
  <1>3. txn' = [txn EXCEPT ![h] = next]
    BY DEF Create, Goto
  <1> HIDE DEF next
  <1>4. Shape(next)
    BY <1>2 DEF Shape
  <1>5. QED
    BY <1>1, <1>2, <1>3, <1>4

LEMMA UploadMoves ==
    ASSUME PostConstants, PostInv, NEW h \in Handlers, NEW alike \in BOOLEAN,
           Upload(h, alike)
    PROVE  \E next \in Transaction :
             /\ txn' = [txn EXCEPT ![h] = next] /\ Shape(next)
             /\ txn[h].stage = "uploading"
             /\ next.op = txn[h].op /\ next.post = txn[h].post
             /\ next.stage = IF next.op = "create" THEN "committing" ELSE "inserting"
             /\ Len(next.pictures) = txn[h].files
             /\ next.pictures = [i \in 1..txn[h].files |->
                                    IF alike THEN uploads' ELSE uploads + i]
             /\ next.old = txn[h].old /\ next.drop = {} /\ next.gone = txn[h].gone
             /\ next.added = {}
             /\ uploads' \in uploads..MaxUploads
             /\ objects' = objects \union (uploads + 1 .. uploads')
             /\ ~alike => uploads' = uploads + txn[h].files
  <1> DEFINE t == txn[h]
             s == [i \in 1..t.files |-> IF alike THEN uploads' ELSE uploads + i]
             next == [t EXCEPT !.stage = IF t.op = "create" THEN "committing" ELSE "inserting",
                               !.files = IF t.op = "create" THEN t.files ELSE 0,
                               !.pictures = s]
  <1>1. /\ t \in Transaction /\ Shape(t) /\ t.stage = "uploading"
        /\ t.files \in 0..Limit /\ t.files \in Nat
        /\ uploads \in 0..MaxUploads /\ uploads \in Nat /\ MaxUploads \in Nat
    BY DEF Upload, PostInv, TypeOK, Transaction, PostConstants
  <1>2. /\ uploads' = uploads + (IF alike THEN 1 ELSE t.files)
        /\ uploads' <= MaxUploads
        /\ objects' = objects \union (uploads + 1 .. uploads')
        /\ txn' = [txn EXCEPT ![h] = next]
    BY DEF Upload, Goto
  <1>3. uploads' \in uploads..MaxUploads
    BY <1>1, <1>2
  <1>4. s \in [1..t.files -> Pictures]
    BY <1>1, <1>2 DEF Pictures
  <1>5. s \in UNION {[1..k -> Pictures] : k \in 0..Limit} /\ Len(s) = t.files
    BY <1>1, <1>4, PicturesFit
  <1> HIDE DEF s
  <1>6. next \in Transaction
    <2>1. /\ 0 \in 0..Limit
          /\ (IF t.op = "create" THEN t.files ELSE 0) \in 0..Limit
      BY <1>1 DEF PostConstants
    <2>2. (IF t.op = "create" THEN "committing" ELSE "inserting")
              \in {"committing", "inserting"}
      OBVIOUS
    <2>3. QED
      BY <1>1, <1>5, <2>1, <2>2 DEF Transaction
  <1>7. /\ next.op = t.op /\ next.post = t.post
        /\ next.stage = IF next.op = "create" THEN "committing" ELSE "inserting"
        /\ next.files = IF t.op = "create" THEN t.files ELSE 0
        /\ next.pictures = s /\ next.old = t.old /\ next.drop = t.drop
        /\ next.gone = t.gone /\ next.added = t.added
    BY <1>1 DEF Transaction
  <1>8. t.drop = {} /\ t.added = {} /\ t.op \in {"create", "update"}
    BY <1>1 DEF Shape
  <1> HIDE DEF next
  <1>9. Shape(next)
    BY <1>1, <1>5, <1>7, <1>8 DEF Shape
  <1>10. QED
    BY <1>1, <1>2, <1>3, <1>5, <1>6, <1>7, <1>8, <1>9 DEF s

\* update loads a post and some of its images.
Loads(h, p, drop) ==
    \E n \in 0..Limit, text \in BOOLEAN : UpdateFind(h, p, drop, n, text)

Starts(t, p, drop) ==
    /\ t.stage = "starting" /\ t.op = "update" /\ t.post = p
    /\ Cardinality(ImagesOf(p) \ drop) + t.files <= Limit
    /\ t.drop = drop /\ t.old = PicturesIn(drop) /\ t.gone = {}
    /\ t.pictures = <<>> /\ t.added = {}

LEMMA UpdateFindMoves ==
    ASSUME PostConstants, PostInv, NEW h \in Handlers, NEW p \in Posts,
           NEW drop, Loads(h, p, drop)
    PROVE  \E next \in Transaction :
             /\ txn' = [txn EXCEPT ![h] = next] /\ Shape(next)
             /\ Starts(next, p, drop)
  <1>0. PICK n \in 0..Limit, text \in BOOLEAN : UpdateFind(h, p, drop, n, text)
    BY DEF Loads
  <1> DEFINE next == [Idle EXCEPT !.stage = "starting", !.op = "update", !.post = p,
                                  !.files = n, !.text = text, !.drop = drop,
                                  !.old = PicturesIn(drop)]
  <1>1. drop \in SUBSET ImageIds /\ PicturesIn(drop) \in SUBSET Pictures
    BY <1>0 DEF UpdateFind, ImagesOf, PicturesIn, PostInv, TypeOK, Image
  <1>2. next \in Transaction
    BY <1>1, IdleRecord DEF Transaction
  <1>3. /\ next.stage = "starting" /\ next.op = "update" /\ next.post = p
        /\ next.files = n
        /\ next.drop = drop /\ next.old = PicturesIn(drop) /\ next.gone = {}
        /\ next.pictures = <<>> /\ next.added = {}
    BY DEF Idle
  <1>4. /\ txn' = [txn EXCEPT ![h] = next]
        /\ Cardinality(ImagesOf(p) \ drop) + n <= Limit
    BY <1>0 DEF UpdateFind, Goto
  <1> HIDE DEF next
  <1>5. Shape(next) /\ Starts(next, p, drop)
    BY <1>3, <1>4 DEF Shape, Starts
  <1>6. QED
    BY <1>2, <1>4, <1>5

LEMMA UpdateTextMoves ==
    ASSUME PostConstants, PostInv, NEW h \in Handlers, UpdateText(h)
    PROVE  \E next \in Transaction :
             /\ txn' = [txn EXCEPT ![h] = next] /\ Shape(next)
             /\ txn[h].stage = "starting"
             /\ next.stage = "deleting" /\ next.op = txn[h].op /\ next.post = txn[h].post
             /\ next.files = txn[h].files
             /\ next.drop = txn[h].drop /\ next.old = txn[h].old /\ next.gone = {}
             /\ next.pictures = <<>> /\ next.added = {}
  <1> DEFINE t == txn[h]
             next == [t EXCEPT !.stage = "deleting", !.text = FALSE,
                               !.lock = IF t.text THEN "X" ELSE "none"]
  <1>1. t \in Transaction /\ Shape(t) /\ t.stage = "starting"
    BY DEF UpdateText, PostInv, TypeOK
  <1>2. next \in Transaction
    BY <1>1 DEF Transaction
  <1>3. /\ next.stage = "deleting" /\ next.op = t.op /\ next.post = t.post
        /\ next.files = t.files
        /\ next.drop = t.drop /\ next.old = t.old /\ next.gone = t.gone
        /\ next.pictures = t.pictures /\ next.added = t.added
    BY <1>1 DEF Transaction
  <1>4. txn' = [txn EXCEPT ![h] = next]
    BY DEF UpdateText, Goto
  <1>5. t.pictures = <<>> /\ t.added = {} /\ t.gone = {}
    BY <1>1 DEF Shape
  <1> HIDE DEF next
  <1>6. Shape(next)
    BY <1>1, <1>3, <1>5 DEF Shape
  <1>7. QED
    BY <1>1, <1>2, <1>3, <1>4, <1>5, <1>6

LEMMA DeleteImagesMoves ==
    ASSUME PostConstants, PostInv, NEW h \in Handlers, DeleteImages(h)
    PROVE  \E next \in Transaction :
             /\ txn' = [txn EXCEPT ![h] = next] /\ Shape(next)
             /\ txn[h].stage = "deleting"
             /\ next.stage = (IF txn[h].files = 0 THEN "listing" ELSE "uploading")
             /\ next.op = txn[h].op /\ next.post = txn[h].post
             /\ next.files = txn[h].files
             /\ next.drop = {} /\ next.old = txn[h].old /\ next.gone = txn[h].drop
             /\ next.pictures = <<>> /\ next.added = {}
  <1> DEFINE t == txn[h]
             next == [t EXCEPT !.stage = IF t.files = 0 THEN "listing" ELSE "uploading",
                               !.drop = {}, !.gone = t.drop]
  <1>1. t \in Transaction /\ Shape(t) /\ t.stage = "deleting"
    BY DEF DeleteImages, PostInv, TypeOK
  <1>2. next \in Transaction
    BY <1>1 DEF Transaction
  <1>3. /\ next.stage = (IF t.files = 0 THEN "listing" ELSE "uploading")
        /\ next.op = t.op /\ next.post = t.post /\ next.files = t.files
        /\ next.drop = {} /\ next.old = t.old /\ next.gone = t.drop
        /\ next.pictures = t.pictures /\ next.added = t.added
    BY <1>1 DEF Transaction
  <1>4. txn' = [txn EXCEPT ![h] = next]
    BY DEF DeleteImages, Goto
  <1>5. t.pictures = <<>> /\ t.added = {} /\ t.op = "update"
    BY <1>1 DEF Shape
  <1>6. {} = 0 + 1 .. 0 + Len(<<>>)
    BY NoPictures
  <1> HIDE DEF next
  <1>7. Shape(next)
    BY <1>1, <1>3, <1>5, <1>6 DEF Shape
  <1>8. QED
    BY <1>1, <1>2, <1>3, <1>4, <1>5, <1>7

LEMMA InsertImagesMoves ==
    ASSUME PostConstants, PostInv, NEW h \in Handlers, InsertImages(h),
           Exists(txn[h].post)
    PROVE  \E next \in Transaction :
             /\ txn' = [txn EXCEPT ![h] = next] /\ Shape(next)
             /\ txn[h].stage = "inserting"
             /\ next.stage = "listing" /\ next.op = txn[h].op /\ next.post = txn[h].post
             /\ next.drop = {} /\ next.old = txn[h].old /\ next.gone = txn[h].gone
             /\ next.pictures = txn[h].pictures
             /\ next.added = numbered + 1 .. numbered + Len(txn[h].pictures)
             /\ next.lock # "none"
             /\ numbered' = numbered + Len(txn[h].pictures)
             /\ numbered' \in 0..MaxUploads
  <1> DEFINE t == txn[h]
             ids == numbered + 1 .. numbered + Len(t.pictures)
             next == [t EXCEPT !.stage = "listing", !.added = ids,
                               !.lock = IF @ = "none" THEN "S" ELSE @]
  <1>1. /\ t \in Transaction /\ Shape(t) /\ t.stage = "inserting"
        /\ numbered \in 0..MaxUploads /\ numbered \in Nat
        /\ Len(t.pictures) \in Nat
    BY PictureSeq DEF InsertImages, PostInv, TypeOK, PostConstants
  <1>2. /\ numbered' = numbered + Len(t.pictures) /\ numbered' <= MaxUploads
        /\ txn' = [txn EXCEPT ![h] = next]
    BY DEF InsertImages, Goto
  <1>3. ids \in SUBSET ImageIds
    BY <1>1, <1>2 DEF ImageIds, PostConstants
  <1> HIDE DEF ids
  <1>4. next \in Transaction
    BY <1>1, <1>3 DEF Transaction
  <1>5. /\ next.stage = "listing" /\ next.op = t.op /\ next.post = t.post
        /\ next.drop = t.drop /\ next.old = t.old /\ next.gone = t.gone
        /\ next.pictures = t.pictures /\ next.added = ids
        /\ next.lock = IF t.lock = "none" THEN "S" ELSE t.lock
    BY <1>1 DEF Transaction
  <1>6. t.drop = {} /\ t.op = "update"
    BY <1>1 DEF Shape
  <1> HIDE DEF next
  <1>7. Shape(next)
    BY <1>1, <1>5, <1>6 DEF Shape, ids
  <1>8. numbered' \in 0..MaxUploads
    BY <1>1, <1>2 DEF PostConstants
  <1>9. QED
    BY <1>1, <1>2, <1>4, <1>5, <1>6, <1>7, <1>8 DEF ids

\* The images update will leave the post, and the picture of the first.
Latest(t) == (ImagesOf(t.post) \ t.gone) \union t.added
Leading(t) ==
    IF Latest(t) = {} THEN None
    ELSE IF First(Latest(t)) \in t.added THEN Added(t, First(Latest(t))).picture
    ELSE images[First(Latest(t))].picture

LEMMA ListImagesMoves ==
    ASSUME PostConstants, PostInv, NEW h \in Handlers, ListImages(h)
    PROVE  \E next \in Transaction :
             /\ txn' = [txn EXCEPT ![h] = next] /\ Shape(next)
             /\ txn[h].stage = "listing" /\ txn[h].op = "update"
             /\ next.stage = "committing" /\ next.op = txn[h].op /\ next.post = txn[h].post
             /\ next.drop = {} /\ next.old = txn[h].old /\ next.gone = txn[h].gone
             /\ next.pictures = txn[h].pictures /\ next.added = txn[h].added
             /\ next.lock = txn[h].lock
             /\ next.shown = Leading(txn[h])
  <1> DEFINE t == txn[h]
             remaining == (ImagesOf(t.post) \ t.gone) \union t.added
             first == First(remaining)
             shown == IF remaining = {} THEN None
                      ELSE IF first \in t.added THEN Added(t, first).picture
                      ELSE images[first].picture
             next == [t EXCEPT !.stage = "committing", !.shown = shown]
  <1>1. /\ t \in Transaction /\ Shape(t) /\ t.stage = "listing"
        /\ images \in [ImageIds -> Image \union {NoRow}]
    BY DEF ListImages, PostInv, TypeOK
  <1>2. t.op = "update" /\ t.drop = {}
    BY <1>1 DEF Shape
  <1>3. PICK a \in Nat : t.added = a + 1 .. a + Len(t.pictures)
    BY <1>1, <1>2 DEF Shape
  <1>4. ASSUME NEW i \in t.added
        PROVE  Added(t, i).picture \in Pictures
    <2>1. t.pictures \in Seq(Pictures)
      BY <1>1, PictureSeq
    <2> HIDE DEF t
    <2>2. /\ Added(t, i) = [post |-> t.post, picture |-> t.pictures[i - a]]
          /\ t.pictures[i - a] \in Pictures
      BY <1>3, <2>1, AddedImage
    <2>3. QED
      BY <2>2
  <1>5. remaining # {} => first \in remaining
    <2>1. remaining \in SUBSET (1..MaxUploads) /\ MaxUploads \in Nat
      BY <1>1 DEF ImagesOf, ImageIds, Transaction, PostConstants
    <2> HIDE DEF remaining
    <2>2. QED
      BY <2>1, LeastOf
  <1>6. shown \in Pictures \union {None}
    BY <1>1, <1>4, <1>5 DEF ImagesOf, Image
  <1>7. txn' = [txn EXCEPT ![h] = next]
    BY DEF ListImages, Goto
  <1> HIDE DEF shown, Leading, Latest
  <1>8. next \in Transaction
    BY <1>1, <1>6 DEF Transaction
  <1>9. /\ next.stage = "committing" /\ next.op = t.op /\ next.post = t.post
        /\ next.drop = t.drop /\ next.old = t.old /\ next.gone = t.gone
        /\ next.pictures = t.pictures /\ next.added = t.added
        /\ next.lock = t.lock /\ next.shown = shown
    BY <1>1 DEF Transaction
  <1> HIDE DEF next
  <1>10. Shape(next)
    BY <1>1, <1>2, <1>9 DEF Shape
  <1>11. QED
    BY <1>1, <1>2, <1>7, <1>8, <1>9, <1>10 DEF shown, Leading, Latest

LEMMA UpdateCommitMoves ==
    ASSUME PostConstants, PostInv, NEW h \in Handlers, UpdateCommit(h)
    PROVE  \E next \in Transaction :
             /\ txn' = [txn EXCEPT ![h] = next] /\ Shape(next)
             /\ txn[h].stage = "committing" /\ txn[h].op = "update"
             /\ next.stage = "clearing" /\ next.op = "update" /\ next.post = txn[h].post
             /\ next.drop = {} /\ next.old = txn[h].old /\ next.gone = {}
             /\ next.pictures = <<>> /\ next.added = {}
  <1> DEFINE t == txn[h]
             next == [Idle EXCEPT !.stage = "clearing", !.op = "update", !.post = t.post,
                                  !.old = t.old]
  <1>1. /\ t \in Transaction /\ Shape(t) /\ t.stage = "committing" /\ t.op = "update"
    BY DEF UpdateCommit, PostInv, TypeOK
  <1>2. t.post \in Posts
    BY <1>1 DEF Shape
  <1>3. next \in Transaction
    BY <1>1, <1>2, IdleRecord DEF Transaction
  <1>4. /\ next.stage = "clearing" /\ next.op = "update" /\ next.post = t.post
        /\ next.drop = {} /\ next.old = t.old /\ next.gone = {}
        /\ next.pictures = <<>> /\ next.added = {}
    BY DEF Idle
  <1>5. txn' = [txn EXCEPT ![h] = next]
    BY DEF UpdateCommit, Goto
  <1> HIDE DEF next
  <1>6. Shape(next)
    BY <1>2, <1>4 DEF Shape
  <1>7. QED
    BY <1>1, <1>3, <1>4, <1>5, <1>6

LEMMA RemoveFindMoves ==
    ASSUME PostConstants, PostInv, NEW h \in Handlers, NEW p \in Posts, RemoveFind(h, p)
    PROVE  \E next \in Transaction :
             /\ txn' = [txn EXCEPT ![h] = next] /\ Shape(next)
             /\ next.stage = "removing" /\ next.op = "remove" /\ next.post = p
             /\ next.drop = {} /\ next.old = {} /\ next.gone = {}
             /\ next.pictures = <<>> /\ next.added = {}
  <1> DEFINE next == [Idle EXCEPT !.stage = "removing", !.op = "remove", !.post = p]
  <1>1. next \in Transaction
    BY IdleRecord DEF Transaction
  <1>2. /\ next.stage = "removing" /\ next.op = "remove" /\ next.post = p
        /\ next.drop = {} /\ next.old = {} /\ next.gone = {}
        /\ next.pictures = <<>> /\ next.added = {}
    BY DEF Idle
  <1>3. txn' = [txn EXCEPT ![h] = next]
    BY DEF RemoveFind, Goto
  <1> HIDE DEF next
  <1>4. Shape(next)
    BY <1>2 DEF Shape
  <1>5. QED
    BY <1>1, <1>2, <1>3, <1>4

-----------------------------------------------------------------------------
\* What the types of the tables say.
Tables ==
    /\ thumbnail \in [Posts -> Pictures \union {None, NoRow}]
    /\ posted \in 0..MaxPosts
    /\ images \in [ImageIds -> Image \union {NoRow}]
    /\ \A i \in ImageIds : images[i] # NoRow => Exists(images[i].post)
    /\ numbered \in 0..MaxUploads
    /\ uploads \in 0..MaxUploads /\ objects \subseteq 1..uploads
    /\ sameKey \in BOOLEAN /\ cutShort \in BOOLEAN
    /\ kept \subseteq Posts

\* A step of one handler that keeps the ids of the others apart.
LEMMA PostAfter ==
    ASSUME PostConstants, PostInv, NEW h \in Handlers, NEW next \in Transaction,
           txn' = [txn EXCEPT ![h] = next], Shape(next),
           Tables', Numbering', numbered <= numbered',
           \A g \in Handlers \ {h} :
               /\ txn[g].added # {} => thumbnail'[txn[g].post] # NoRow
               /\ \A i \in txn[g].added : images'[i] = NoRow
               /\ (txn[g].drop \union txn[g].gone) \intersect next.added = {}
               /\ (next.drop \union next.gone) \intersect txn[g].added = {}
               /\ txn[g].added \intersect next.added = {},
           (next.drop \union next.gone) \intersect next.added = {},
           Owns(next)'
    PROVE  PostInv'
  <1>1. txn \in [Handlers -> Transaction] /\ numbered \in Nat /\ numbered' \in Nat
    BY DEF PostInv, TypeOK, Tables
  <1>2. txn'[h] = next /\ \A g \in Handlers \ {h} : txn'[g] = txn[g]
    BY <1>1
  <1>3. TypeOK'
    BY <1>1 DEF Tables, TypeOK
  <1>4. Apart'
    BY <1>2 DEF PostInv, Apart
  <1>5. ASSUME NEW g \in Handlers \ {h}
        PROVE  Shape(txn[g])' /\ Owns(txn[g])'
    <2>1. Shape(txn[g]) /\ Owns(txn[g])
      BY DEF PostInv
    <2>2. \A i \in 1..numbered : i \in 1..numbered'
      BY <1>1
    <2>3. Owns(txn[g])'
      BY <1>2, <2>1, <2>2 DEF Owns, Exists
    <2>4. QED
      BY <1>2, <2>1, <2>3 DEF Shape
  <1>6. Shape(txn[h])' /\ Owns(txn[h])'
    BY <1>2 DEF Shape, Owns
  <1>7. QED
    BY <1>3, <1>4, <1>5, <1>6 DEF PostInv

\* A step that leaves the rows alone and has no more ids than before.
LEMMA PostQuiet ==
    ASSUME PostConstants, PostInv, NEW h \in Handlers, NEW next \in Transaction,
           txn' = [txn EXCEPT ![h] = next], Shape(next),
           UNCHANGED <<thumbnail, posted, images, numbered>>,
           uploads' \in 0..MaxUploads, objects' \subseteq 1..uploads', cutShort' \in BOOLEAN,
           sameKey' \in BOOLEAN, kept' \subseteq Posts,
           next.drop \union next.gone \subseteq txn[h].drop \union txn[h].gone,
           next.added \subseteq txn[h].added,
           next.added # {} => next.lock = txn[h].lock /\ next.post = txn[h].post
    PROVE  PostInv'
  <1>1. Tables' /\ Numbering'
    BY DEF PostInv, TypeOK, Tables, Numbering, Exists
  <1>2. Owns(txn[h]) /\ Apart /\ \A g \in Handlers : Owns(txn[g])
    BY DEF PostInv
  <1>3. Owns(next)'
    BY <1>2 DEF Owns, Exists
  <1>4. (next.drop \union next.gone) \intersect next.added = {}
    BY <1>2 DEF Apart
  <1>5. \A g \in Handlers \ {h} :
               /\ txn[g].added # {} => thumbnail'[txn[g].post] # NoRow
               /\ \A i \in txn[g].added : images'[i] = NoRow
               /\ (txn[g].drop \union txn[g].gone) \intersect next.added = {}
               /\ (next.drop \union next.gone) \intersect txn[g].added = {}
               /\ txn[g].added \intersect next.added = {}
    <2>1. SUFFICES ASSUME NEW g \in Handlers \ {h}
                   PROVE  /\ txn[g].added # {} => thumbnail'[txn[g].post] # NoRow
                          /\ \A i \in txn[g].added : images'[i] = NoRow
                          /\ (txn[g].drop \union txn[g].gone) \intersect next.added = {}
                          /\ (next.drop \union next.gone) \intersect txn[g].added = {}
                          /\ txn[g].added \intersect next.added = {}
      OBVIOUS
    <2>2. /\ (txn[g].drop \union txn[g].gone) \intersect txn[h].added = {}
          /\ (txn[h].drop \union txn[h].gone) \intersect txn[g].added = {}
          /\ txn[g].added \intersect txn[h].added = {}
      BY <1>2 DEF Apart
    <2>3. Owns(txn[g])
      BY <1>2
    <2>4. QED
      BY <2>2, <2>3 DEF Owns, Exists
  <1>6. numbered <= numbered'
    BY DEF PostInv, TypeOK
  <1>7. QED
    BY <1>1, <1>3, <1>4, <1>5, <1>6, PostAfter

\* The end of a handler.
LEMMA PostEnds ==
    ASSUME PostConstants, PostInv, NEW h \in Handlers, txn' = [txn EXCEPT ![h] = Idle],
           UNCHANGED <<thumbnail, posted, images, numbered>>,
           uploads' \in 0..MaxUploads, objects' \subseteq 1..uploads', cutShort' \in BOOLEAN,
           sameKey' \in BOOLEAN, kept' \subseteq Posts
    PROVE  PostInv'
  <1>1. Idle \in Transaction /\ Shape(Idle)
    BY IdleRecord
  <1>2. Idle.drop = {} /\ Idle.gone = {} /\ Idle.added = {}
    BY DEF Idle
  <1>3. QED
    BY <1>1, <1>2, PostQuiet

\* The ids and pictures create commits.
LEMMA CommittedPost ==
    ASSUME PostConstants, PostInv, NEW h \in Handlers, CreateCommit(h)
    PROVE  /\ txn[h].stage = "committing" /\ txn[h].op = "create"
           /\ txn' = [txn EXCEPT ![h] = Idle]
           /\ posted + 1 \in Posts /\ posted' = posted + 1
           /\ Len(txn[h].pictures) = txn[h].files
           /\ numbered' = numbered + txn[h].files /\ numbered' \in 0..MaxUploads
           /\ numbered <= numbered'
           /\ images' \in [ImageIds -> Image \union {NoRow}]
           /\ \A i \in ImageIds :
                 images'[i] = IF i \in numbered + 1 .. numbered'
                              THEN [post |-> posted + 1, picture |-> txn[h].pictures[i - numbered]]
                              ELSE images[i]
           /\ \A i \in numbered + 1 .. numbered' :
                 /\ i - numbered \in 1..Len(txn[h].pictures)
                 /\ txn[h].pictures[i - numbered] \in Pictures
           /\ thumbnail' = [thumbnail EXCEPT ![posted + 1] =
                              IF txn[h].files = 0 THEN None ELSE txn[h].pictures[1]]
           /\ txn[h].files # 0 => txn[h].pictures[1] \in Pictures
  <1> DEFINE t == txn[h]
             ids == numbered + 1 .. numbered + t.files
             s == [t EXCEPT !.post = posted + 1, !.added = ids]
  <1>1. /\ t \in Transaction /\ Shape(t) /\ t.stage = "committing" /\ t.op = "create"
        /\ numbered \in 0..MaxUploads /\ numbered \in Nat /\ posted \in Nat
        /\ t.pictures \in Seq(Pictures) /\ Len(t.pictures) \in Nat
        /\ images \in [ImageIds -> Image \union {NoRow}]
    <2>1. t \in Transaction /\ t.stage = "committing" /\ t.op = "create" /\ Shape(t)
      BY DEF CreateCommit, PostInv, TypeOK
    <2>2. t.pictures \in Seq(Pictures) /\ Len(t.pictures) \in Nat
      BY <2>1, PictureSeq, LenProperties
    <2>3. QED
      BY <2>1, <2>2 DEF PostInv, TypeOK
  <1>2. Len(t.pictures) = t.files
    BY <1>1 DEF Shape
  <1>3. /\ posted < MaxPosts /\ numbered + t.files <= MaxUploads
        /\ posted' = posted + 1 /\ numbered' = numbered + t.files
        /\ txn' = [txn EXCEPT ![h] = Idle]
        /\ images' = [i \in ImageIds |-> IF i \in ids THEN Added(s, i) ELSE images[i]]
        /\ thumbnail' = [thumbnail EXCEPT ![posted + 1] =
                              IF t.files = 0 THEN None ELSE t.pictures[1]]
    BY DEF CreateCommit, Goto
  <1>4. posted + 1 \in Posts /\ numbered' \in 0..MaxUploads /\ numbered <= numbered'
    BY <1>1, <1>2, <1>3 DEF Posts, PostConstants
  <1>5. s.post = posted + 1 /\ s.added = ids /\ s.pictures = t.pictures
    BY <1>1 DEF Transaction
  <1>6. ASSUME NEW i \in ids
        PROVE  /\ i - numbered \in 1..Len(t.pictures)
               /\ Added(s, i) = [post |-> posted + 1, picture |-> t.pictures[i - numbered]]
               /\ t.pictures[i - numbered] \in Pictures
    <2> HIDE DEF s, t
    <2>1. s.added = numbered + 1 .. numbered + Len(s.pictures) /\ i \in s.added
      BY <1>2, <1>5, <1>6
    <2>2. s.pictures \in Seq(Pictures)
      BY <1>1, <1>5
    <2>3. /\ i - numbered \in 1..Len(s.pictures)
          /\ Added(s, i) = [post |-> s.post, picture |-> s.pictures[i - numbered]]
          /\ s.pictures[i - numbered] \in Pictures
      BY <1>1, <2>1, <2>2, AddedImage
    <2>4. QED
      BY <1>5, <2>3
  <1> HIDE DEF s
  <1>7. /\ images' \in [ImageIds -> Image \union {NoRow}]
        /\ \A i \in ImageIds :
               images'[i] = IF i \in numbered + 1 .. numbered'
                            THEN [post |-> posted + 1, picture |-> t.pictures[i - numbered]]
                            ELSE images[i]
    <2>1. ids = numbered + 1 .. numbered'
      BY <1>3
    <2> HIDE DEF ids
    <2>2. \A i \in ids : Added(s, i) \in Image
      BY <1>4, <1>6 DEF Image
    <2>3. images' \in [ImageIds -> Image \union {NoRow}]
      BY <1>1, <1>3, <2>2
    <2>4. \A i \in ImageIds : images'[i] = IF i \in ids THEN Added(s, i) ELSE images[i]
      BY <1>3
    <2>5. QED
      BY <1>6, <2>1, <2>3, <2>4
  <1>8. t.files # 0 => t.pictures[1] \in Pictures
    BY <1>1, <1>2, ElementOfSeq
  <1>9. QED
    BY <1>1, <1>2, <1>3, <1>4, <1>6, <1>7, <1>8

\* create commits: its ids are above those the others know of.
LEMMA PostCreateCommit ==
    ASSUME PostConstants, PostInv, NEW h \in Handlers, CreateCommit(h)
    PROVE  PostInv'
  <1> DEFINE p == posted + 1
  <1>1. PICK s : s = txn[h].pictures
    OBVIOUS
  <1>2. /\ txn' = [txn EXCEPT ![h] = Idle]
        /\ p \in Posts /\ posted' = p
        /\ numbered' \in 0..MaxUploads /\ numbered <= numbered'
        /\ images' \in [ImageIds -> Image \union {NoRow}]
        /\ \A i \in ImageIds :
              images'[i] = IF i \in numbered + 1 .. numbered'
                           THEN [post |-> p, picture |-> s[i - numbered]] ELSE images[i]
        /\ \E shown \in Pictures \union {None} : thumbnail' = [thumbnail EXCEPT ![p] = shown]
    BY <1>1, CommittedPost
  <1>3. UNCHANGED <<uploads, objects, sameKey, cutShort, kept>>
    BY DEF CreateCommit, bucket
  <1>4. /\ numbered \in Nat /\ numbered' \in Nat /\ posted \in Nat
        /\ thumbnail \in [Posts -> Pictures \union {None, NoRow}]
        /\ \A i \in ImageIds : images[i] # NoRow => images[i].post \in Posts
    BY <1>2 DEF PostInv, TypeOK, Image
  <1>5. /\ thumbnail' \in [Posts -> Pictures \union {None, NoRow}]
        /\ thumbnail'[p] # NoRow
        /\ \A q \in Posts \ {p} : thumbnail'[q] = thumbnail[q]
    BY <1>2, <1>4 DEF PostConstants, Pictures
  <1>6. \A i \in ImageIds : images'[i] # NoRow => Exists(images[i].post)'
    BY <1>2, <1>4, <1>5 DEF PostInv, TypeOK, Exists
  <1>7. posted' \in 0..MaxPosts
    BY <1>2, <1>4 DEF Posts, PostConstants
  <1>8. Tables'
    BY <1>2, <1>3, <1>5, <1>6, <1>7 DEF Tables, PostInv, TypeOK
  <1>9. \A i \in ImageIds : images'[i] # NoRow => i <= numbered'
    <2>1. SUFFICES ASSUME NEW i \in ImageIds, images'[i] # NoRow, ~(i <= numbered')
                   PROVE  FALSE
      OBVIOUS
    <2>2. i \in Nat /\ i \notin numbered + 1 .. numbered' /\ ~(i <= numbered)
      BY <1>2, <1>4, <2>1 DEF ImageIds
    <2>3. QED
      BY <1>2, <2>1, <2>2 DEF PostInv, Numbering
  <1>10. \A q \in Posts : thumbnail'[q] # NoRow => q <= posted'
    <2>1. \A q \in Posts : q <= posted => q <= posted'
      BY <1>2, <1>4 DEF Posts
    <2>2. p <= posted'
      BY <1>2, <1>4
    <2>3. QED
      BY <1>5, <2>1, <2>2 DEF PostInv, Numbering, Exists
  <1>11. Numbering'
    BY <1>9, <1>10 DEF Numbering, Exists
  <1>12. Idle.drop = {} /\ Idle.gone = {} /\ Idle.added = {}
    BY DEF Idle
  <1>13. Owns(Idle)'
    BY <1>12 DEF Owns
  <1>14. ASSUME NEW g \in Handlers \ {h}
         PROVE  /\ txn[g].added # {} => thumbnail'[txn[g].post] # NoRow
                /\ \A i \in txn[g].added : images'[i] = NoRow
    <2>1. Owns(txn[g]) /\ txn[g] \in Transaction
      BY DEF PostInv, TypeOK
    <2>2. \A i \in txn[g].added : i \in ImageIds /\ i \notin numbered + 1 .. numbered'
      BY <1>4, <2>1 DEF Owns, Transaction
    <2>3. \A i \in txn[g].added : images'[i] = NoRow
      BY <1>2, <2>1, <2>2 DEF Owns
    <2>4. ASSUME txn[g].added # {}
          PROVE  thumbnail'[txn[g].post] # NoRow
      <3>1. Shape(txn[g]) /\ thumbnail[txn[g].post] # NoRow
        BY <2>1, <2>4 DEF PostInv, Owns, Exists
      <3>2. txn[g].post \in Posts
        BY <2>4, <3>1 DEF Shape
      <3>3. QED
        BY <1>5, <3>1, <3>2
    <2>5. QED
      BY <2>3, <2>4
  <1>15. Idle \in Transaction /\ Shape(Idle)
    BY IdleRecord
  <1>16. PICK next \in Transaction : next = Idle
    BY <1>15
  <1>17. /\ txn' = [txn EXCEPT ![h] = next] /\ Shape(next) /\ numbered <= numbered'
         /\ (next.drop \union next.gone) \intersect next.added = {}
         /\ \A g \in Handlers \ {h} :
               /\ (txn[g].drop \union txn[g].gone) \intersect next.added = {}
               /\ (next.drop \union next.gone) \intersect txn[g].added = {}
               /\ txn[g].added \intersect next.added = {}
    BY <1>2, <1>12, <1>15, <1>16
  <1>18. Owns(next)'
    BY <1>13, <1>16 DEF Owns
  <1>19. QED
    BY <1>8, <1>11, <1>14, <1>17, <1>18, PostAfter

\* What update commits.
LEMMA CommittedUpdate ==
    ASSUME PostConstants, PostInv, NEW h \in Handlers, UpdateCommit(h)
    PROVE  \E a \in Nat :
             /\ txn[h].added = a + 1 .. a + Len(txn[h].pictures)
             /\ images' \in [ImageIds -> Image \union {NoRow}]
             /\ \A i \in ImageIds :
                   images'[i] = CASE i \in txn[h].gone -> NoRow
                                  [] i \in txn[h].added ->
                                       [post |-> txn[h].post, picture |-> txn[h].pictures[i - a]]
                                  [] OTHER -> images[i]
             /\ \A i \in txn[h].added : /\ i \in ImageIds /\ i \notin txn[h].gone
                                        /\ i - a \in 1..Len(txn[h].pictures)
                                        /\ txn[h].pictures[i - a] \in Pictures
                                        /\ Added(txn[h], i).picture = txn[h].pictures[i - a]
             /\ txn[h].added # {} => Exists(txn[h].post)
             /\ thumbnail' = [thumbnail EXCEPT ![txn[h].post] =
                                IF Exists(txn[h].post) THEN txn[h].shown ELSE @]
             /\ txn[h].shown \in Pictures \union {None}
             /\ txn[h].post \in Posts
  <1>1. PICK t \in Transaction : t = txn[h]
    BY DEF PostInv, TypeOK
  <1>2. /\ Shape(t) /\ t.stage = "committing" /\ t.op = "update" /\ Owns(t)
        /\ t.pictures \in Seq(Pictures) /\ t.gone \intersect t.added = {}
        /\ images \in [ImageIds -> Image \union {NoRow}]
    BY <1>1, PictureSeq DEF UpdateCommit, PostInv, TypeOK, Apart
  <1>3. PICK a \in Nat : t.added = a + 1 .. a + Len(t.pictures)
    BY <1>2 DEF Shape
  <1>4. ASSUME NEW i \in t.added
        PROVE  /\ i \in ImageIds /\ i \notin t.gone
               /\ i - a \in 1..Len(t.pictures)
               /\ Added(t, i) = [post |-> t.post, picture |-> t.pictures[i - a]]
               /\ t.pictures[i - a] \in Pictures
    BY <1>2, <1>3, AddedImage DEF Transaction
  <1>5. t.post \in Posts /\ t.shown \in Pictures \union {None}
    BY <1>2 DEF Shape, Transaction
  <1>6. images' = [i \in ImageIds |-> CASE i \in t.gone -> NoRow
                                        [] i \in t.added -> Added(t, i)
                                        [] OTHER -> images[i]]
    BY <1>1 DEF UpdateCommit
  <1>7. images' \in [ImageIds -> Image \union {NoRow}]
    BY <1>2, <1>4, <1>5, <1>6 DEF Image
  <1>8. \A i \in ImageIds :
            images'[i] = CASE i \in t.gone -> NoRow
                           [] i \in t.added -> [post |-> t.post, picture |-> t.pictures[i - a]]
                           [] OTHER -> images[i]
    BY <1>4, <1>6
  <1>9. thumbnail' = [thumbnail EXCEPT ![t.post] = IF Exists(t.post) THEN t.shown ELSE @]
    BY <1>1 DEF UpdateCommit
  <1>10. \A i \in t.added : Added(t, i).picture = t.pictures[i - a]
    BY <1>4
  <1>11. t.added # {} => Exists(t.post)
    BY <1>2 DEF Owns
  <1>12. QED
    BY <1>1, <1>3, <1>4, <1>5, <1>7, <1>8, <1>9, <1>10, <1>11

\* update commits.
LEMMA PostUpdateCommit ==
    ASSUME PostConstants, PostInv, NEW h \in Handlers, UpdateCommit(h)
    PROVE  PostInv'
  <1>1. PICK t \in Transaction : t = txn[h]
    BY DEF PostInv, TypeOK
  <1>2. PICK next \in Transaction :
             /\ txn' = [txn EXCEPT ![h] = next] /\ Shape(next)
             /\ next.drop = {} /\ next.gone = {} /\ next.added = {}
    BY UpdateCommitMoves
  <1>3. PICK a \in Nat :
             /\ images' \in [ImageIds -> Image \union {NoRow}]
             /\ \A i \in ImageIds :
                   images'[i] = CASE i \in t.gone -> NoRow
                                  [] i \in t.added ->
                                       [post |-> t.post, picture |-> t.pictures[i - a]]
                                  [] OTHER -> images[i]
             /\ t.added # {} => Exists(t.post)
             /\ thumbnail' = [thumbnail EXCEPT ![t.post] =
                                IF Exists(t.post) THEN t.shown ELSE @]
             /\ t.shown \in Pictures \union {None} /\ t.post \in Posts
    BY <1>1, CommittedUpdate
  <1>4. UNCHANGED <<posted, numbered, uploads, objects, sameKey, cutShort, kept>>
    BY DEF UpdateCommit, bucket
  <1>5. /\ thumbnail' \in [Posts -> Pictures \union {None, NoRow}]
        /\ \A q \in Posts : thumbnail'[q] # NoRow <=> thumbnail[q] # NoRow
    <2>1. t.shown # NoRow
      BY <1>3 DEF PostConstants, Pictures
    <2>2. thumbnail \in [Posts -> Pictures \union {None, NoRow}]
      BY DEF PostInv, TypeOK
    <2>3. QED
      BY <1>3, <2>1, <2>2 DEF Exists
  <1>6. /\ \A i \in ImageIds : images'[i] # NoRow =>
              \/ i \in t.added /\ images'[i].post = t.post
              \/ images'[i] = images[i]
        /\ \A i \in ImageIds : images[i] # NoRow => images[i].post \in Posts
    BY <1>3 DEF PostInv, TypeOK, Image
  <1>7. \A i \in ImageIds : images'[i] # NoRow => Exists(images[i].post)'
    BY <1>3, <1>5, <1>6 DEF PostInv, TypeOK, Exists
  <1>8. Tables'
    BY <1>3, <1>4, <1>5, <1>7 DEF Tables, PostInv, TypeOK
  <1>9. \A i \in t.added : i \in 1..numbered
    BY <1>1 DEF PostInv, Owns
  <1>10. \A i \in t.added : i <= numbered
    BY <1>9 DEF PostInv, TypeOK
  <1>11. Numbering'
    BY <1>4, <1>5, <1>6, <1>10 DEF Numbering, PostInv, Exists
  <1>12. Owns(next)'
    BY <1>2 DEF Owns
  <1>13. ASSUME NEW g \in Handlers \ {h}
         PROVE  /\ txn[g].added # {} => thumbnail'[txn[g].post] # NoRow
                /\ \A i \in txn[g].added : images'[i] = NoRow
    <2>1. Owns(txn[g]) /\ Shape(txn[g]) /\ txn[g] \in Transaction
      BY DEF PostInv, TypeOK
    <2>2. \A i \in txn[g].added : i \in ImageIds /\ i \notin t.added
      BY <1>1, <2>1 DEF PostInv, Apart, Transaction
    <2>3. \A i \in txn[g].added : images'[i] = NoRow
      BY <1>6, <2>1, <2>2 DEF Owns
    <2>4. txn[g].added # {} => thumbnail'[txn[g].post] # NoRow
      BY <1>5, <2>1 DEF Owns, Shape, Exists
    <2>5. QED
      BY <2>3, <2>4
  <1>14. numbered <= numbered'
    BY <1>4 DEF PostInv, TypeOK
  <1>15. QED
    BY <1>2, <1>8, <1>11, <1>12, <1>13, <1>14, PostAfter

\* The images of an update are inserted, with ids of its own.
LEMMA PostInsertImages ==
    ASSUME PostConstants, PostInv, NEW h \in Handlers, InsertImages(h)
    PROVE  PostInv'
  <1>1. CASE ~Exists(txn[h].post)
    <2>1. /\ txn' = [txn EXCEPT ![h] = Idle] /\ cutShort' = TRUE
          /\ UNCHANGED <<thumbnail, posted, kept, images, numbered, uploads, objects, sameKey>>
      BY <1>1 DEF InsertImages, Goto, posts, bucket
    <2>2. QED
      BY <2>1, PostEnds DEF PostInv, TypeOK
  <1>2. CASE Exists(txn[h].post)
    <2>1. PICK t \in Transaction : t = txn[h]
      BY DEF PostInv, TypeOK
    <2>2. PICK next \in Transaction :
             /\ txn' = [txn EXCEPT ![h] = next] /\ Shape(next)
             /\ next.post = t.post
             /\ next.drop = {} /\ next.gone = t.gone
             /\ next.added = numbered + 1 .. numbered + Len(t.pictures)
             /\ next.lock # "none"
             /\ numbered' = numbered + Len(t.pictures)
             /\ numbered' \in 0..MaxUploads
      BY <1>2, <2>1, InsertImagesMoves
    <2>3. UNCHANGED <<thumbnail, posted, kept, images, uploads, objects, sameKey, cutShort>>
      BY <1>2 DEF InsertImages, posts, bucket
    <2>4. Len(t.pictures) \in Nat /\ numbered \in Nat /\ MaxUploads \in Nat
      BY PictureSeq DEF PostInv, TypeOK, PostConstants
    <2>5. numbered <= numbered'
      BY <2>2, <2>4
    <2>6. Tables'
      BY <2>2, <2>3 DEF Tables, PostInv, TypeOK, Exists
    <2>7. \A i \in ImageIds : images[i] # NoRow => i <= numbered
      BY DEF PostInv, Numbering
    <2>8. Numbering'
      <3>1. \A i \in ImageIds : i <= numbered => i <= numbered'
        BY <2>2, <2>4 DEF ImageIds
      <3>2. QED
        BY <2>3, <2>7, <3>1 DEF PostInv, Numbering, Exists
    <2>9. \A i \in next.added : i \in ImageIds /\ ~(i <= numbered) /\ i \in 1..numbered'
      BY <2>2, <2>4 DEF ImageIds
    <2>10. \A i \in next.added : images'[i] = NoRow
      BY <2>3, <2>7, <2>9
    <2>11. ASSUME NEW g \in Handlers
           PROVE  /\ \A i \in txn[g].drop \union txn[g].gone \union txn[g].added :
                         i \in 1..numbered' /\ i \notin next.added
      <3>1. \A i \in txn[g].drop \union txn[g].gone \union txn[g].added : i \in 1..numbered
        BY DEF PostInv, Owns
      <3>2. \A i \in 1..numbered : i \in 1..numbered' /\ i <= numbered
        BY <2>2, <2>4
      <3>3. QED
        BY <2>9, <3>1, <3>2
    <2>12. Owns(next)'
      BY <1>2, <2>1, <2>2, <2>3, <2>9, <2>10, <2>11 DEF Owns, Exists
    <2>13. ASSUME NEW g \in Handlers \ {h}
           PROVE  /\ txn[g].added # {} => thumbnail'[txn[g].post] # NoRow
                  /\ \A i \in txn[g].added : images'[i] = NoRow
                  /\ (txn[g].drop \union txn[g].gone) \intersect next.added = {}
                  /\ (next.drop \union next.gone) \intersect txn[g].added = {}
                  /\ txn[g].added \intersect next.added = {}
      <3>1. Owns(txn[g])
        BY DEF PostInv
      <3>2. txn[h].gone \intersect txn[g].added = {}
        BY DEF PostInv, Apart
      <3>3. QED
        BY <2>1, <2>2, <2>3, <2>11, <3>1, <3>2 DEF Owns, Exists
    <2>14. (next.drop \union next.gone) \intersect next.added = {}
      BY <2>1, <2>2, <2>11
    <2>15. QED
      BY <2>2, <2>5, <2>6, <2>8, <2>12, <2>13, <2>14, PostAfter
  <1>3. QED
    BY <1>1, <1>2

\* A post is deleted that no row, written or about to be, refers to.
LEMMA PostRemove ==
    ASSUME PostConstants, PostInv, NEW h \in Handlers, Remove(h)
    PROVE  PostInv'
  <1>1. PICK p \in Posts : p = txn[h].post
    <2>1. txn[h].stage = "removing" /\ Shape(txn[h])
      BY DEF Remove, PostInv
    <2>2. QED
      BY <2>1 DEF Shape
  <1>2. /\ txn' = [txn EXCEPT ![h] = Idle]
        /\ UNCHANGED <<posted, images, numbered, uploads, objects, sameKey, cutShort>>
    BY DEF Remove, Goto, imageRows, bucket
  <1>3. CASE ImagesOf(p) # {}
    <2>1. kept' = kept \union {p} /\ UNCHANGED thumbnail
      BY <1>1, <1>3 DEF Remove
    <2>2. QED
      BY <1>2, <2>1, PostEnds DEF PostInv, TypeOK
  <1>4. CASE ImagesOf(p) = {}
    <2>1. /\ thumbnail' = [thumbnail EXCEPT ![p] = NoRow] /\ UNCHANGED kept
          /\ Free(h, p, {"S", "X"})
      BY <1>1, <1>4 DEF Remove
    <2>2. thumbnail \in [Posts -> Pictures \union {None, NoRow}]
      BY DEF PostInv, TypeOK
    <2>3. /\ thumbnail' \in [Posts -> Pictures \union {None, NoRow}]
          /\ \A q \in Posts \ {p} : thumbnail'[q] = thumbnail[q]
          /\ \A q \in Posts : thumbnail'[q] # NoRow => thumbnail[q] # NoRow
      BY <2>1, <2>2
    <2>4. \A i \in ImageIds : images[i] # NoRow => images[i].post \in Posts \ {p}
      BY <1>4 DEF ImagesOf, PostInv, TypeOK, Image
    <2>5. Tables'
      BY <1>2, <2>1, <2>3, <2>4 DEF Tables, PostInv, TypeOK, Exists
    <2>6. Numbering'
      BY <1>2, <2>3 DEF Numbering, PostInv, Exists
    <2>7. Idle.drop = {} /\ Idle.gone = {} /\ Idle.added = {}
      BY DEF Idle
    <2>8. Owns(Idle)'
      BY <2>7 DEF Owns
    <2>9. ASSUME NEW g \in Handlers \ {h}
          PROVE  /\ txn[g].added # {} => thumbnail'[txn[g].post] # NoRow
                 /\ \A i \in txn[g].added : images'[i] = NoRow
      <3>1. Owns(txn[g]) /\ Shape(txn[g]) /\ txn[g] \in Transaction
        BY DEF PostInv, TypeOK
      <3>2. ASSUME txn[g].added # {}
            PROVE  thumbnail'[txn[g].post] # NoRow
        <4>1. txn[g].lock \in {"S", "X"} /\ thumbnail[txn[g].post] # NoRow
          BY <3>1, <3>2 DEF Owns, Transaction, Exists
        <4>2. txn[g].post # p
          BY <2>1, <4>1 DEF Free
        <4>3. txn[g].post \in Posts
          BY <3>1, <3>2 DEF Shape
        <4>4. QED
          BY <2>3, <4>1, <4>2, <4>3
      <3>3. QED
        BY <1>2, <3>1, <3>2 DEF Owns
    <2>10. Idle \in Transaction /\ Shape(Idle) /\ numbered <= numbered'
      BY <1>2, IdleRecord DEF PostInv, TypeOK
    <2>11. QED
      BY <1>2, <2>5, <2>6, <2>7, <2>8, <2>9, <2>10, PostAfter
  <1>5. QED
    BY <1>3, <1>4

\* update has loaded images that rows hold: nobody is inserting them.
LEMMA PostUpdateFind ==
    ASSUME PostConstants, PostInv, NEW h \in Handlers, NEW p \in Posts,
           NEW drop, Loads(h, p, drop)
    PROVE  PostInv'
  <1>1. PICK next \in Transaction :
             /\ txn' = [txn EXCEPT ![h] = next] /\ Shape(next)
             /\ Starts(next, p, drop)
    BY UpdateFindMoves
  <1>2. UNCHANGED <<thumbnail, posted, kept, images, numbered, uploads, objects, sameKey, cutShort>>
    BY DEF Loads, UpdateFind, posts, imageRows, bucket
  <1>3. Tables' /\ Numbering' /\ numbered <= numbered'
    BY <1>2 DEF PostInv, TypeOK, Tables, Numbering, Exists
  <1>4. \A i \in drop : i \in ImageIds /\ images[i] # NoRow
    BY DEF Loads, UpdateFind, ImagesOf
  <1>5. \A i \in drop : i \in 1..numbered
    BY <1>4 DEF PostInv, TypeOK, Numbering, ImageIds
  <1>6. Owns(next)'
    BY <1>1, <1>2, <1>5 DEF Owns, Starts
  <1>7. \A g \in Handlers \ {h} :
               /\ txn[g].added # {} => thumbnail'[txn[g].post] # NoRow
               /\ \A i \in txn[g].added : images'[i] = NoRow
               /\ (txn[g].drop \union txn[g].gone) \intersect next.added = {}
               /\ (next.drop \union next.gone) \intersect txn[g].added = {}
               /\ txn[g].added \intersect next.added = {}
    BY <1>1, <1>2, <1>4 DEF PostInv, Owns, Exists, Starts
  <1>8. QED
    BY <1>1, <1>3, <1>6, <1>7, PostAfter DEF Starts

LEMMA PostInit ==
    ASSUME PostConstants, Init
    PROVE  PostInv
  <1>1. Idle \in Transaction /\ Shape(Idle)
    BY IdleRecord
  <1>2. Idle.drop = {} /\ Idle.gone = {} /\ Idle.added = {}
    BY DEF Idle
  <1>3. \A h \in Handlers : txn[h] = Idle
    BY DEF Init
  <1>4. TypeOK
    <2>1. /\ 0 \in 0..MaxPosts /\ 0 \in 0..MaxUploads /\ {} \subseteq 1..0
          /\ FALSE \in BOOLEAN /\ {} \subseteq Posts
      BY DEF PostConstants
    <2>2. txn \in [Handlers -> Transaction]
      BY <1>1 DEF Init
    <2>3. /\ thumbnail \in [Posts -> Pictures \union {None, NoRow}]
          /\ images \in [ImageIds -> Image \union {NoRow}]
          /\ \A i \in ImageIds : images[i] # NoRow => Exists(images[i].post)
      BY DEF Init
    <2>4. QED
      BY <2>1, <2>2, <2>3 DEF Init, TypeOK
  <1>5. Numbering
    BY DEF Init, Numbering, Exists
  <1>6. Apart
    BY <1>2, <1>3 DEF Apart
  <1>7. \A h \in Handlers : Shape(txn[h]) /\ Owns(txn[h])
    BY <1>1, <1>2, <1>3 DEF Owns
  <1>8. QED
    BY <1>4, <1>5, <1>6, <1>7 DEF PostInv

LEMMA PostInductive ==
    ASSUME PostConstants, PostInv, [Next]_vars
    PROVE  PostInv'
  <1>1. CASE UNCHANGED vars
    BY <1>1 DEF vars, PostInv, TypeOK, Numbering, Apart, Shape, Owns, Exists
  <1>2. ASSUME NEW h \in Handlers, NEW n \in 0..Limit, Create(h, n)
        PROVE  PostInv'
    <2>1. UNCHANGED <<thumbnail, posted, kept, images, numbered, uploads, objects, sameKey, cutShort>>
      BY <1>2 DEF Create, posts, imageRows, bucket
    <2>2. PICK next \in Transaction :
             /\ txn' = [txn EXCEPT ![h] = next] /\ Shape(next)
             /\ next.drop = {} /\ next.gone = {} /\ next.added = {}
      BY <1>2, CreateMoves
    <2>3. QED
      BY <2>1, <2>2, PostQuiet DEF PostInv, TypeOK
  <1>3. ASSUME NEW h \in Handlers, NEW n \in 0..Limit, UploadFails(h, n)
        PROVE  PostInv'
    <2>1. /\ txn' = [txn EXCEPT ![h] = Idle] /\ cutShort' = TRUE
          /\ UNCHANGED <<thumbnail, posted, kept, images, numbered, sameKey>>
          /\ uploads' = uploads + n /\ uploads + n <= MaxUploads
          /\ objects' = objects \union (uploads + 1 .. uploads')
      BY <1>3 DEF UploadFails, Goto, posts, imageRows
    <2>2. n \in Nat /\ uploads \in Nat /\ MaxUploads \in Nat /\ objects \subseteq 1..uploads
      BY DEF PostInv, TypeOK, PostConstants
    <2>3. uploads' \in 0..MaxUploads /\ objects' \subseteq 1..uploads'
      BY <2>1, <2>2
    <2>4. QED
      BY <2>1, <2>3, PostEnds DEF PostInv, TypeOK
  <1>4. ASSUME NEW h \in Handlers, NEW alike \in BOOLEAN, Upload(h, alike)
        PROVE  PostInv'
    <2>1. /\ UNCHANGED <<thumbnail, posted, kept, images, numbered, cutShort>>
          /\ sameKey' = (sameKey \/ alike)
      BY <1>4 DEF Upload, posts, imageRows
    <2>2. PICK next \in Transaction :
             /\ txn' = [txn EXCEPT ![h] = next] /\ Shape(next)
             /\ txn[h].stage = "uploading"
             /\ next.op = txn[h].op /\ next.post = txn[h].post
             /\ next.stage = IF next.op = "create" THEN "committing" ELSE "inserting"
             /\ Len(next.pictures) = txn[h].files
             /\ next.pictures = [i \in 1..txn[h].files |->
                                    IF alike THEN uploads' ELSE uploads + i]
             /\ next.old = txn[h].old /\ next.drop = {} /\ next.gone = txn[h].gone
             /\ next.added = {}
             /\ uploads' \in uploads..MaxUploads
             /\ objects' = objects \union (uploads + 1 .. uploads')
             /\ ~alike => uploads' = uploads + txn[h].files
      BY <1>4, UploadMoves, Zenon
    <2>3. uploads \in Nat /\ MaxUploads \in Nat /\ objects \subseteq 1..uploads
      BY DEF PostInv, TypeOK, PostConstants
    <2>4. uploads' \in 0..MaxUploads /\ objects' \subseteq 1..uploads'
      <3>1. uploads' \in Nat /\ uploads <= uploads' /\ uploads' <= MaxUploads
        BY <2>2, <2>3
      <3>2. objects' = objects \union (uploads + 1 .. uploads')
        BY <2>2
      <3>3. QED
        BY <2>3, <3>1, <3>2
    <2>5. sameKey' \in BOOLEAN
      BY <2>1 DEF PostInv, TypeOK
    <2>6. QED
      BY <2>1, <2>2, <2>4, <2>5, PostQuiet DEF PostInv, TypeOK
  <1>5. ASSUME NEW h \in Handlers, UpdateText(h)
        PROVE  PostInv'
    <2>1. UNCHANGED <<thumbnail, posted, kept, images, numbered, uploads, objects, sameKey, cutShort>>
      BY <1>5 DEF UpdateText, posts, imageRows, bucket
    <2>2. PICK next \in Transaction :
             /\ txn' = [txn EXCEPT ![h] = next] /\ Shape(next)
             /\ next.drop = txn[h].drop /\ next.gone = {} /\ next.added = {}
      BY <1>5, UpdateTextMoves
    <2>3. QED
      BY <2>1, <2>2, PostQuiet DEF PostInv, TypeOK
  <1>6. ASSUME NEW h \in Handlers, DeleteImages(h)
        PROVE  PostInv'
    <2>1. UNCHANGED <<thumbnail, posted, kept, images, numbered, uploads, objects, sameKey, cutShort>>
      BY <1>6 DEF DeleteImages, posts, imageRows, bucket
    <2>2. PICK next \in Transaction :
             /\ txn' = [txn EXCEPT ![h] = next] /\ Shape(next)
             /\ next.drop = {} /\ next.gone = txn[h].drop /\ next.added = {}
      BY <1>6, DeleteImagesMoves
    <2>3. QED
      BY <2>1, <2>2, PostQuiet DEF PostInv, TypeOK
  <1>7. ASSUME NEW h \in Handlers, ListImages(h)
        PROVE  PostInv'
    <2>1. UNCHANGED <<thumbnail, posted, kept, images, numbered, uploads, objects, sameKey, cutShort>>
      BY <1>7 DEF ListImages, posts, imageRows, bucket
    <2>2. PICK next \in Transaction :
             /\ txn' = [txn EXCEPT ![h] = next] /\ Shape(next)
             /\ next.drop = {} /\ next.gone = txn[h].gone /\ next.added = txn[h].added
             /\ next.lock = txn[h].lock /\ next.post = txn[h].post
      BY <1>7, ListImagesMoves
    <2>3. QED
      BY <2>1, <2>2, PostQuiet DEF PostInv, TypeOK
  <1>8. ASSUME NEW h \in Handlers, NEW failed \in SUBSET txn[h].old, ClearImages(h, failed)
        PROVE  PostInv'
    <2>1. /\ txn' = [txn EXCEPT ![h] = Idle] /\ cutShort' = (cutShort \/ failed # {})
          /\ objects' = objects \ (txn[h].old \ failed)
          /\ UNCHANGED <<thumbnail, posted, kept, images, numbered, uploads, sameKey>>
      BY <1>8 DEF ClearImages, Goto, posts, imageRows
    <2>2. cutShort' \in BOOLEAN
      BY <2>1 DEF PostInv, TypeOK
    <2>3. QED
      BY <2>1, <2>2, PostEnds DEF PostInv, TypeOK
  <1>9. ASSUME NEW h \in Handlers, NEW p \in Posts, RemoveFind(h, p)
        PROVE  PostInv'
    <2>1. UNCHANGED <<thumbnail, posted, kept, images, numbered, uploads, objects, sameKey, cutShort>>
      BY <1>9 DEF RemoveFind, posts, imageRows, bucket
    <2>2. PICK next \in Transaction :
             /\ txn' = [txn EXCEPT ![h] = next] /\ Shape(next)
             /\ next.drop = {} /\ next.gone = {} /\ next.added = {}
      BY <1>9, RemoveFindMoves
    <2>3. QED
      BY <2>1, <2>2, PostQuiet DEF PostInv, TypeOK
  <1>10. ASSUME NEW h \in Handlers, Interrupt(h)
         PROVE  PostInv'
    <2>1. /\ txn' = [txn EXCEPT ![h] = Idle] /\ cutShort' = TRUE
          /\ UNCHANGED <<thumbnail, posted, kept, images, numbered, uploads, objects, sameKey>>
      BY <1>10 DEF Interrupt, Goto, posts, imageRows, bucket
    <2>2. QED
      BY <2>1, PostEnds DEF PostInv, TypeOK
  <1>11. QED
    BY <1>1, <1>2, <1>3, <1>4, <1>5, <1>6, <1>7, <1>8, <1>9, <1>10, PostUpdateFind,
       PostCreateCommit, PostUpdateCommit, PostInsertImages, PostRemove DEF Next, Loads

\* Every behaviour keeps the types: a transaction inserts images only under a
\* lock, and the ids it has taken are of rows no other transaction has seen.
THEOREM PostTypeCorrect ==
    ASSUME PostConstants
    PROVE  Spec => []TypeOK
  <1>1. Init => PostInv
    BY PostInit
  <1>2. PostInv /\ [Next]_vars => PostInv'
    BY PostInductive
  <1>3. PostInv => TypeOK
    BY DEF PostInv
  <1>4. QED
    BY <1>1, <1>2, <1>3, PTL DEF Spec

-----------------------------------------------------------------------------
\* The bucket, as long as no two files of a request have had one key.

Pending(t) == {t.pictures[n] : n \in DOMAIN t.pictures}
InRow(k) == \E i \in ImageIds : images[i] # NoRow /\ images[i].picture = k

\* Pictures no row holds yet are in the bucket.
Fresh(t) ==
    /\ \A m, n \in DOMAIN t.pictures : t.pictures[m] = t.pictures[n] => m = n
    /\ \A k \in Pending(t) : k \in objects /\ ~InRow(k)

\* The pictures to be deleted are those of the images to be deleted.
Outdated(t) ==
    /\ \A k \in t.old : k <= uploads
    /\ \A i \in ImageIds : images[i] # NoRow =>
          (images[i].picture \in t.old <=> i \in t.drop \union t.gone)

\* Nobody deletes or inserts a picture another is about to insert.
PicturesApart ==
    \A g, h \in Handlers :
        /\ txn[g].old \intersect Pending(txn[h]) = {}
        /\ g # h => Pending(txn[g]) \intersect Pending(txn[h]) = {}

\* Why a picture is in the bucket.
Wanted(k) ==
    \/ InRow(k)
    \/ \E h \in Handlers : k \in Pending(txn[h])
    \/ \E h \in Handlers : txn[h].stage = "clearing" /\ k \in txn[h].old

OneRowEach ==
    \A i, j \in ImageIds :
        images[i] # NoRow /\ images[j] # NoRow /\ images[i].picture = images[j].picture => i = j

BucketInv ==
    /\ ImagesStored
    /\ OneRowEach
    /\ PicturesApart
    /\ \A h \in Handlers : Fresh(txn[h]) /\ Outdated(txn[h])
    /\ ~cutShort => \A k \in objects : Wanted(k)

\* A step that leaves the rows and the bucket alone.
LEMMA BucketQuiet ==
    ASSUME PostConstants, PostInv, BucketInv, NEW h \in Handlers, NEW next \in Transaction,
           txn' = [txn EXCEPT ![h] = next], UNCHANGED <<images, uploads, objects>>,
           next.pictures \in {txn[h].pictures, <<>>},
           \/ /\ next.old = txn[h].old
              /\ next.drop \union next.gone = txn[h].drop \union txn[h].gone
           \/ next.old = {} /\ next.drop \union next.gone = {},
           ~cutShort' => /\ ~cutShort /\ next.pictures = txn[h].pictures
                         /\ txn[h].stage # "clearing"
    PROVE  BucketInv'
  <1>1. /\ txn'[h] = next /\ \A g \in Handlers \ {h} : txn'[g] = txn[g]
    BY DEF PostInv, TypeOK
  <1>2. DOMAIN <<>> = {}
    BY NoPictures
  <1>3. Pending(next) \subseteq Pending(txn[h])
    BY <1>2 DEF Pending
  <1>4. next.old \subseteq txn[h].old
    OBVIOUS
  <1>5. ImagesStored' /\ OneRowEach'
    BY DEF BucketInv, ImagesStored, OneRowEach
  <1>6. PicturesApart'
    <2>1. SUFFICES ASSUME NEW f \in Handlers, NEW g \in Handlers
                   PROVE  /\ txn'[f].old \intersect Pending(txn'[g]) = {}
                          /\ f # g => Pending(txn'[f]) \intersect Pending(txn'[g]) = {}
      BY DEF PicturesApart, Pending
    <2>2. /\ txn'[f].old \subseteq txn[f].old
          /\ Pending(txn'[f]) \subseteq Pending(txn[f])
          /\ Pending(txn'[g]) \subseteq Pending(txn[g])
      BY <1>1, <1>3, <1>4
    <2>3. /\ txn[f].old \intersect Pending(txn[g]) = {}
          /\ f # g => Pending(txn[f]) \intersect Pending(txn[g]) = {}
      BY DEF BucketInv, PicturesApart
    <2>4. QED
      BY <2>2, <2>3
  <1>7. ASSUME NEW g \in Handlers
        PROVE  Fresh(txn[g])' /\ Outdated(txn[g])'
    <2>1. Fresh(txn[g]) /\ Outdated(txn[g])
      BY DEF BucketInv
    <2>2. \A k : InRow(k)' <=> InRow(k)
      BY DEF InRow
    <2>3. Fresh(txn[g])'
      <3>1. txn'[g].pictures = txn[g].pictures \/ DOMAIN txn'[g].pictures = {}
        BY <1>1, <1>2
      <3>2. QED
        BY <2>1, <2>2, <3>1 DEF Fresh, Pending
    <2>4. Outdated(txn[g])'
      <3>1. CASE g = h
        <4>1. Outdated(next)'
          BY <2>1, <3>1 DEF Outdated
        <4>2. QED
          BY <1>1, <3>1, <4>1 DEF Outdated
      <3>2. CASE g # h
        BY <1>1, <2>1, <3>2 DEF Outdated
      <3>3. QED
        BY <3>1, <3>2
    <2>5. QED
      BY <2>3, <2>4
  <1>8. ASSUME ~cutShort', NEW k \in objects'
        PROVE  Wanted(k)'
    <2>1. Wanted(k) /\ next.pictures = txn[h].pictures /\ txn[h].stage # "clearing"
      BY <1>8 DEF BucketInv
    <2>2. InRow(k) => InRow(k)'
      BY DEF InRow
    <2>3. \A g \in Handlers : txn'[g].pictures = txn[g].pictures
      BY <1>1, <2>1
    <2>4. \A g \in Handlers : txn[g].stage = "clearing" => txn'[g] = txn[g]
      BY <1>1, <2>1
    <2>5. QED
      BY <2>1, <2>2, <2>3, <2>4 DEF Wanted, Pending
  <1>9. QED
    BY <1>5, <1>6, <1>7, <1>8 DEF BucketInv

\* A commit: the rows of some images go, those of the pictures uploaded come.
Commits(h, next, s, a, added) ==
    /\ txn' = [txn EXCEPT ![h] = next] /\ UNCHANGED <<uploads, objects, cutShort>>
    /\ s = txn[h].pictures /\ added = a + 1 .. a + Len(s)
    /\ images' \in [ImageIds -> Image \union {NoRow}]
    /\ \A i \in added : /\ i \in ImageIds /\ images[i] = NoRow
                        /\ images'[i].picture = s[i - a] /\ images'[i] # NoRow
    /\ \A i \in txn[h].gone : i \in ImageIds => images'[i] = NoRow
    /\ \A i \in ImageIds : i \notin added \union txn[h].gone => images'[i] = images[i]
    /\ \A g \in Handlers \ {h} : (txn[g].drop \union txn[g].gone) \intersect added = {}
    /\ txn[h].drop = {} /\ txn[h].stage # "clearing"
    /\ next.pictures = <<>> /\ next.drop = {} /\ next.gone = {} /\ next.old = txn[h].old
    /\ next.stage = "clearing" \/ next.old = {}

LEMMA BucketCommit ==
    ASSUME PostConstants, PostInv, BucketInv, NEW h \in Handlers, NEW next \in Transaction,
           NEW s, NEW a \in Nat, NEW added, Commits(h, next, s, a, added)
    PROVE  BucketInv'
  <1>1. /\ txn'[h] = next /\ \A g \in Handlers \ {h} : txn'[g] = txn[g]
    BY DEF PostInv, TypeOK, Commits
  <1> USE DEF Commits
  <1>2. DOMAIN <<>> = {}
    BY NoPictures
  <1>3. Pending(next) = {}
    BY <1>2 DEF Pending
  <1>4. DOMAIN s = 1..Len(s) /\ Len(s) \in Nat
    BY PictureSeq DEF PostInv, TypeOK, PostConstants
  <1>5. \A i \in added : i - a \in DOMAIN s /\ i = a + (i - a)
    BY <1>4
  <1>6. \A i \in added : s[i - a] \in Pending(txn[h])
    BY <1>5 DEF Pending
  <1>7. /\ Fresh(txn[h]) /\ Outdated(txn[h])
        /\ \A g \in Handlers : txn[g].old \intersect Pending(txn[h]) = {}
    BY DEF BucketInv, PicturesApart
  <1>8. \A i \in ImageIds : images'[i] # NoRow =>
            \/ /\ i \notin added /\ i \notin txn[h].gone
               /\ images'[i] = images[i]
            \/ /\ i \in added /\ images'[i].picture = s[i - a]
               /\ images'[i].picture \in Pending(txn[h])
    BY <1>6
  <1>9. \A k : InRow(k)' => InRow(k) \/ k \in Pending(txn[h])
    BY <1>8 DEF InRow
  <1>10. ImagesStored'
    BY <1>7, <1>8 DEF BucketInv, ImagesStored, Fresh
  <1>11. OneRowEach'
    <2>1. SUFFICES ASSUME NEW i \in ImageIds, NEW j \in ImageIds, images'[i] # NoRow,
                          images'[j] # NoRow, images'[i].picture = images'[j].picture
                   PROVE  i = j
      BY DEF OneRowEach
    <2>2. CASE i \notin added /\ j \notin added
      BY <1>8, <2>1, <2>2 DEF BucketInv, OneRowEach
    <2>3. CASE i \in added /\ j \in added
      <3>1. s[i - a] = s[j - a] /\ i - a \in DOMAIN s /\ j - a \in DOMAIN s
        BY <1>5, <2>1, <2>3
      <3>2. i - a = j - a
        BY <1>7, <3>1 DEF Fresh
      <3>3. QED
        BY <1>5, <2>3, <3>2
    <2>4. \A x, y \in ImageIds :
              x \in added /\ y \notin added /\ images'[y] # NoRow =>
                  images'[x].picture # images'[y].picture
      <3>1. SUFFICES ASSUME NEW x \in added, NEW y \in ImageIds, y \notin added,
                            images'[y] # NoRow, images'[x].picture = images'[y].picture
                     PROVE  FALSE
        OBVIOUS
      <3>2. images'[y] = images[y] /\ images'[x].picture \in Pending(txn[h])
        BY <1>6, <1>8, <3>1
      <3>3. InRow(images'[x].picture)
        BY <3>1, <3>2 DEF InRow
      <3>4. QED
        BY <1>7, <3>2, <3>3 DEF Fresh
    <2>5. QED
      BY <2>1, <2>2, <2>3, <2>4
  <1>12. PicturesApart'
    <2>1. SUFFICES ASSUME NEW f \in Handlers, NEW g \in Handlers
                   PROVE  /\ txn'[f].old \intersect Pending(txn'[g]) = {}
                          /\ f # g => Pending(txn'[f]) \intersect Pending(txn'[g]) = {}
      BY DEF PicturesApart, Pending
    <2>2. /\ txn'[f].old = txn[f].old
          /\ Pending(txn'[f]) \subseteq Pending(txn[f])
          /\ Pending(txn'[g]) \subseteq Pending(txn[g])
      BY <1>1, <1>3
    <2>3. /\ txn[f].old \intersect Pending(txn[g]) = {}
          /\ f # g => Pending(txn[f]) \intersect Pending(txn[g]) = {}
      BY DEF BucketInv, PicturesApart
    <2>4. QED
      BY <2>2, <2>3
  <1>13. ASSUME NEW g \in Handlers \ {h}
         PROVE  Fresh(txn[g])' /\ Outdated(txn[g])'
    <2>1. /\ Fresh(txn[g]) /\ Outdated(txn[g])
          /\ Pending(txn[g]) \intersect Pending(txn[h]) = {}
      BY DEF BucketInv, PicturesApart
    <2>2. Fresh(txn[g])'
      <3>1. Pending(txn'[g]) = Pending(txn[g])
        BY <1>1
      <3>2. \A k \in Pending(txn[g]) : k \in objects' /\ ~InRow(k)'
        BY <1>9, <2>1 DEF Fresh
      <3>3. QED
        BY <1>1, <2>1, <3>1, <3>2 DEF Fresh, Pending
    <2>3. Outdated(txn[g])'
      BY <1>1, <1>7, <1>8, <2>1 DEF Outdated
    <2>4. QED
      BY <2>2, <2>3
  <1>14. Fresh(txn[h])' /\ Outdated(txn[h])'
    <2>1. Fresh(next)'
      BY <1>2, <1>3 DEF Fresh
    <2>2. Outdated(next)'
      BY <1>7, <1>8 DEF Outdated
    <2>3. QED
      BY <1>1, <2>1, <2>2 DEF Fresh, Pending, Outdated
  <1>15. ASSUME ~cutShort', NEW k \in objects'
         PROVE  Wanted(k)'
    <2>1. Wanted(k)
      BY <1>15 DEF BucketInv
    <2>2. CASE InRow(k)
      <3>1. PICK i \in ImageIds : images[i] # NoRow /\ images[i].picture = k
        BY <2>2 DEF InRow
      <3>2. CASE i \in txn[h].gone
        <4>1. k \in txn[h].old
          BY <1>7, <3>1, <3>2 DEF Outdated
        <4>2. QED
          BY <1>1, <4>1 DEF Wanted
      <3>3. CASE i \notin txn[h].gone
        <4>1. images'[i] = images[i]
          BY <3>1, <3>3
        <4>2. InRow(k)'
          BY <3>1, <4>1 DEF InRow
        <4>3. QED
          BY <4>2 DEF Wanted
      <3>4. QED
        BY <3>2, <3>3
    <2>3. CASE k \in Pending(txn[h])
      <3>1. PICK n \in 1..Len(s) : k = s[n]
        BY <1>4, <2>3 DEF Pending
      <3>2. a + n \in added /\ (a + n) - a = n
        BY <1>4
      <3>3. a + n \in ImageIds /\ images'[a + n] # NoRow /\ images'[a + n].picture = k
        BY <3>1, <3>2
      <3>4. InRow(k)'
        BY <3>3 DEF InRow
      <3>5. QED
        BY <3>4 DEF Wanted
    <2>4. ASSUME NEW g \in Handlers \ {h},
                 k \in Pending(txn[g]) \/ (txn[g].stage = "clearing" /\ k \in txn[g].old)
          PROVE  Wanted(k)'
      BY <1>1, <2>4 DEF Wanted, Pending
    <2>5. \/ InRow(k)
          \/ k \in Pending(txn[h])
          \/ \E g \in Handlers \ {h} :
                k \in Pending(txn[g]) \/ (txn[g].stage = "clearing" /\ k \in txn[g].old)
      BY <2>1 DEF Wanted
    <2>6. QED
      BY <2>2, <2>3, <2>4, <2>5
  <1>16. QED
    BY <1>10, <1>11, <1>12, <1>13, <1>14, <1>15 DEF BucketInv

LEMMA BucketCreateCommit ==
    ASSUME PostConstants, PostInv, BucketInv, NEW h \in Handlers, CreateCommit(h)
    PROVE  BucketInv'
  <1>1. PICK s : s = txn[h].pictures
    OBVIOUS
  <1>2. PICK a \in Nat : a = numbered
    BY DEF PostInv, TypeOK
  <1>3. /\ txn[h].stage = "committing" /\ txn[h].op = "create"
        /\ txn' = [txn EXCEPT ![h] = Idle]
        /\ Len(s) = txn[h].files
        /\ numbered' = a + txn[h].files /\ numbered' \in 0..MaxUploads
        /\ images' \in [ImageIds -> Image \union {NoRow}]
        /\ \A i \in ImageIds :
              images'[i] = IF i \in a + 1 .. numbered'
                           THEN [post |-> posted + 1, picture |-> s[i - a]] ELSE images[i]
        /\ \A i \in a + 1 .. numbered' : s[i - a] \in Pictures
        /\ posted + 1 \in Posts
    BY <1>1, <1>2, CommittedPost
  <1>4. PICK added : added = a + 1 .. a + Len(s)
    OBVIOUS
  <1>5. /\ txn[h].drop = {} /\ txn[h].gone = {} /\ txn[h].old = {}
    BY <1>3 DEF PostInv, Shape
  <1>6. \A i \in added : i \in ImageIds /\ ~(i <= numbered) /\ i \notin 1..numbered
    BY <1>2, <1>3, <1>4 DEF ImageIds, PostConstants
  <1>7. \A i \in added : images[i] = NoRow
    BY <1>6 DEF PostInv, Numbering
  <1>8. \A i \in added : images'[i] = [post |-> posted + 1, picture |-> s[i - a]]
                         /\ images'[i] \in Image
    BY <1>3, <1>4, <1>6 DEF Image
  <1>9. \A i \in added : images'[i].picture = s[i - a] /\ images'[i] # NoRow
    <2>1. ASSUME NEW i \in added
          PROVE  images'[i].picture = s[i - a]
      <3>1. PICK k : k = s[i - a]
        OBVIOUS
      <3>2. images'[i] = [post |-> posted + 1, picture |-> k]
        BY <1>8, <3>1
      <3>3. QED
        BY <3>1, <3>2
    <2>2. \A i \in added : images'[i] # NoRow
      BY <1>8 DEF PostConstants
    <2>3. QED
      BY <2>1, <2>2
  <1>10. \A i \in ImageIds : i \notin added \union txn[h].gone => images'[i] = images[i]
    BY <1>3, <1>4
  <1>11. \A g \in Handlers \ {h} : (txn[g].drop \union txn[g].gone) \intersect added = {}
    BY <1>6 DEF PostInv, Owns
  <1>12. /\ Idle \in Transaction /\ Idle.pictures = <<>> /\ Idle.drop = {} /\ Idle.gone = {}
         /\ Idle.old = {}
    BY IdleRecord DEF Idle
  <1>13. UNCHANGED <<uploads, objects, cutShort>>
    BY DEF CreateCommit, bucket
  <1>14. \A i \in txn[h].gone : i \in ImageIds => images'[i] = NoRow
    BY <1>5
  <1>15. Commits(h, Idle, s, a, added)
    BY <1>1, <1>3, <1>4, <1>5, <1>6, <1>7, <1>9, <1>10, <1>11, <1>12, <1>13, <1>14
       DEF Commits
  <1>16. QED
    BY <1>12, <1>15, BucketCommit

LEMMA BucketUpdateCommit ==
    ASSUME PostConstants, PostInv, BucketInv, NEW h \in Handlers, UpdateCommit(h)
    PROVE  BucketInv'
  <1>1. PICK t \in Transaction : t = txn[h]
    BY DEF PostInv, TypeOK
  <1>2. PICK next \in Transaction :
             /\ txn' = [txn EXCEPT ![h] = next] /\ t.stage = "committing"
             /\ next.stage = "clearing"
             /\ next.drop = {} /\ next.old = t.old /\ next.gone = {}
             /\ next.pictures = <<>>
    BY <1>1, UpdateCommitMoves
  <1>3. PICK s : s = t.pictures
    OBVIOUS
  <1>4. PICK a \in Nat :
             /\ t.added = a + 1 .. a + Len(s)
             /\ images' \in [ImageIds -> Image \union {NoRow}]
             /\ \A i \in ImageIds :
                   images'[i] = CASE i \in t.gone -> NoRow
                                  [] i \in t.added -> [post |-> t.post, picture |-> s[i - a]]
                                  [] OTHER -> images[i]
             /\ \A i \in t.added : /\ i \in ImageIds /\ i \notin t.gone
                                   /\ s[i - a] \in Pictures
             /\ t.post \in Posts
    BY <1>1, <1>3, CommittedUpdate
  <1>5. \A i \in t.added : images[i] = NoRow
    BY <1>1 DEF PostInv, Owns
  <1>6. \A i \in t.added : images'[i] = [post |-> t.post, picture |-> s[i - a]]
                           /\ images'[i] \in Image
    BY <1>4 DEF Image
  <1>7. \A i \in t.added : images'[i].picture = s[i - a] /\ images'[i] # NoRow
    <2>1. ASSUME NEW i \in t.added
          PROVE  images'[i].picture = s[i - a]
      <3>1. PICK k : k = s[i - a]
        OBVIOUS
      <3>2. images'[i] = [post |-> t.post, picture |-> k]
        BY <1>6, <3>1
      <3>3. QED
        BY <3>1, <3>2
    <2>2. \A i \in t.added : images'[i] # NoRow
      BY <1>6 DEF PostConstants
    <2>3. QED
      BY <2>1, <2>2
  <1>8. \A i \in ImageIds : i \notin t.added \union t.gone => images'[i] = images[i]
    BY <1>4
  <1>9. \A g \in Handlers \ {h} : (txn[g].drop \union txn[g].gone) \intersect t.added = {}
    BY <1>1 DEF PostInv, Apart
  <1>10. UNCHANGED <<uploads, objects, cutShort>>
    BY DEF UpdateCommit, bucket
  <1>11. t.drop = {}
    BY <1>1, <1>2 DEF PostInv, Shape
  <1>12. \A i \in t.gone : i \in ImageIds => images'[i] = NoRow
    BY <1>4
  <1>13. Commits(h, next, s, a, t.added)
    BY <1>1, <1>2, <1>3, <1>4, <1>5, <1>7, <1>8, <1>9, <1>10, <1>11, <1>12 DEF Commits
  <1>14. QED
    BY <1>13, BucketCommit

\* update has loaded images with their pictures.
LEMMA BucketUpdateFind ==
    ASSUME PostConstants, PostInv, BucketInv, NEW h \in Handlers, NEW p \in Posts,
           NEW drop, Loads(h, p, drop)
    PROVE  BucketInv'
  <1>1. PICK next \in Transaction : txn' = [txn EXCEPT ![h] = next] /\ Starts(next, p, drop)
    BY UpdateFindMoves
  <1>2. /\ UNCHANGED <<images, uploads, objects, cutShort>>
        /\ txn[h].stage = "idle" /\ drop \subseteq ImagesOf(p)
    BY DEF Loads, UpdateFind, imageRows, bucket
  <1>3. /\ txn'[h] = next /\ \A g \in Handlers \ {h} : txn'[g] = txn[g]
    BY <1>1 DEF PostInv, TypeOK
  <1>4. DOMAIN <<>> = {}
    BY NoPictures
  <1>5. Pending(next) = {} /\ Pending(txn[h]) = {}
    BY <1>1, <1>2, <1>4 DEF Pending, Starts, PostInv, Shape
  <1>6. \A i \in drop : i \in ImageIds /\ images[i] # NoRow
    BY <1>2 DEF ImagesOf
  <1>7. \A k \in next.old : \E i \in drop : k = images[i].picture
    BY <1>1 DEF Starts, PicturesIn
  <1>8. \A i \in drop : images[i].picture \in next.old
    BY <1>1 DEF Starts, PicturesIn
  <1>9. ImagesStored' /\ OneRowEach'
    BY <1>2 DEF BucketInv, ImagesStored, OneRowEach
  <1>10. \A k \in next.old : k \in objects /\ InRow(k)
    BY <1>6, <1>7 DEF BucketInv, ImagesStored, InRow
  <1>11. \A g \in Handlers : next.old \intersect Pending(txn[g]) = {}
    BY <1>10 DEF BucketInv, Fresh
  <1>12. PicturesApart'
    <2>1. SUFFICES ASSUME NEW f \in Handlers, NEW g \in Handlers
                   PROVE  /\ txn'[f].old \intersect Pending(txn'[g]) = {}
                          /\ f # g => Pending(txn'[f]) \intersect Pending(txn'[g]) = {}
      BY DEF PicturesApart, Pending
    <2>2. Pending(txn'[f]) = Pending(txn[f]) /\ Pending(txn'[g]) = Pending(txn[g])
      BY <1>3, <1>5
    <2>3. /\ txn[f].old \intersect Pending(txn[g]) = {}
          /\ f # g => Pending(txn[f]) \intersect Pending(txn[g]) = {}
      BY DEF BucketInv, PicturesApart
    <2>4. QED
      BY <1>3, <1>11, <2>2, <2>3
  <1>13. \A k : InRow(k)' <=> InRow(k)
    BY <1>2 DEF InRow
  <1>14. Fresh(next)' /\ Outdated(next)'
    <2>1. Fresh(next)'
      BY <1>1, <1>4, <1>5 DEF Fresh, Starts
    <2>2. \A k \in next.old : k <= uploads
      <3>1. objects \subseteq 1..uploads /\ \A k \in 1..uploads : k <= uploads
        BY DEF PostInv, TypeOK
      <3>2. QED
        BY <1>10, <3>1
    <2>3. ASSUME NEW i \in ImageIds, images[i] # NoRow
          PROVE  images[i].picture \in next.old <=> i \in drop
      <3>1. ASSUME images[i].picture \in next.old
            PROVE  i \in drop
        <4>1. PICK j \in drop : images[i].picture = images[j].picture
          BY <1>7, <3>1
        <4>2. i = j
          BY <1>6, <2>3, <4>1 DEF BucketInv, OneRowEach
        <4>3. QED
          BY <4>1, <4>2
      <3>2. QED
        BY <1>8, <3>1
    <2>4. next.drop \union next.gone = drop
      BY <1>1 DEF Starts
    <2>5. QED
      BY <1>2, <2>1, <2>2, <2>3, <2>4 DEF Outdated
  <1>15. ASSUME NEW g \in Handlers
         PROVE  Fresh(txn[g])' /\ Outdated(txn[g])'
    <2>1. CASE g = h
      BY <1>3, <1>14, <2>1 DEF Fresh, Pending, Outdated
    <2>2. CASE g # h
      <3>1. Fresh(txn[g]) /\ Outdated(txn[g])
        BY DEF BucketInv
      <3>2. QED
        BY <1>2, <1>3, <1>13, <2>2, <3>1 DEF Fresh, Pending, Outdated
    <2>3. QED
      BY <2>1, <2>2
  <1>16. ASSUME ~cutShort', NEW k \in objects'
         PROVE  Wanted(k)'
    <2>1. Wanted(k)
      BY <1>2, <1>16 DEF BucketInv
    <2>2. \A g \in Handlers : k \in Pending(txn[g]) => g \in Handlers \ {h}
      BY <1>5
    <2>3. \A g \in Handlers : txn[g].stage = "clearing" => g \in Handlers \ {h}
      BY <1>2
    <2>4. QED
      BY <1>3, <1>13, <2>1, <2>2, <2>3 DEF Wanted, Pending
  <1>17. QED
    BY <1>9, <1>12, <1>15, <1>16 DEF BucketInv

\* Pictures are uploaded, to be inserted or (a failure) by nobody.
LEMMA BucketUploads ==
    ASSUME PostConstants, PostInv, BucketInv, NEW h \in Handlers, NEW next \in Transaction,
           txn' = [txn EXCEPT ![h] = next], UNCHANGED images,
           txn[h].stage = "uploading",
           NEW n \in Nat, uploads' = uploads + n,
           objects' = objects \union (uploads + 1 .. uploads'),
           \/ next.pictures = [i \in 1..n |-> uploads + i]
           \/ next.pictures = <<>> /\ cutShort',
           \/ /\ next.old = txn[h].old
              /\ next.drop \union next.gone = txn[h].drop \union txn[h].gone
           \/ next.old = {} /\ next.drop \union next.gone = {},
           ~cutShort' => ~cutShort
    PROVE  BucketInv'
  <1>1. /\ txn'[h] = next /\ \A g \in Handlers \ {h} : txn'[g] = txn[g]
    BY DEF PostInv, TypeOK
  <1>2. DOMAIN <<>> = {}
    BY NoPictures
  <1>3. uploads \in Nat /\ objects \subseteq 1..uploads /\ \A k \in objects : k <= uploads
    BY DEF PostInv, TypeOK
  <1>4. Pending(txn[h]) = {}
    BY <1>2 DEF Pending, PostInv, Shape
  <1>5. /\ \A k \in Pending(next) : k \in uploads + 1 .. uploads'
        /\ \A i, j \in DOMAIN next.pictures : next.pictures[i] = next.pictures[j] => i = j
    <2>1. CASE next.pictures = [i \in 1..n |-> uploads + i]
      <3>1. DOMAIN next.pictures = 1..n /\ \A i \in 1..n : next.pictures[i] = uploads + i
        BY <2>1
      <3>2. \A i \in 1..n : uploads + i \in uploads + 1 .. uploads'
        BY <1>3
      <3>3. \A i, j \in 1..n : uploads + i = uploads + j => i = j
        BY <1>3
      <3>4. QED
        BY <3>1, <3>2, <3>3 DEF Pending
    <2>2. CASE next.pictures = <<>>
      BY <1>2, <2>2 DEF Pending
    <2>3. QED
      BY <2>1, <2>2
  <1>6. \A k \in Pending(next) : k \in objects' /\ ~(k <= uploads) /\ k \notin objects
    BY <1>3, <1>5
  <1>7. \A k : InRow(k)' <=> InRow(k)
    BY DEF InRow
  <1>8. \A k : InRow(k) => k \in objects
    BY DEF InRow, BucketInv, ImagesStored
  <1>9. ImagesStored' /\ OneRowEach'
    BY DEF BucketInv, ImagesStored, OneRowEach
  <1>10. next.old \subseteq txn[h].old
    OBVIOUS
  <1>11. \A g \in Handlers : /\ \A k \in txn[g].old : k <= uploads
                             /\ Pending(txn[g]) \subseteq objects
    BY DEF BucketInv, Outdated, Fresh
  <1>12. PicturesApart'
    <2>1. SUFFICES ASSUME NEW f \in Handlers, NEW g \in Handlers
                   PROVE  /\ txn'[f].old \intersect Pending(txn'[g]) = {}
                          /\ f # g => Pending(txn'[f]) \intersect Pending(txn'[g]) = {}
      BY DEF PicturesApart, Pending
    <2>2. txn'[f].old \subseteq txn[f].old
      BY <1>1, <1>10
    <2>3. /\ txn[f].old \intersect Pending(txn[g]) = {}
          /\ f # g => Pending(txn[f]) \intersect Pending(txn[g]) = {}
      BY DEF BucketInv, PicturesApart
    <2>4. CASE g = h
      <3>1. Pending(txn'[g]) = Pending(next)
        BY <1>1, <2>4
      <3>2. f # g => Pending(txn'[f]) = Pending(txn[f])
        BY <1>1, <2>4
      <3>3. QED
        BY <1>6, <1>11, <2>2, <3>1, <3>2
    <2>5. CASE g # h
      <3>1. Pending(txn'[g]) = Pending(txn[g])
        BY <1>1, <2>5
      <3>2. Pending(txn'[f]) = Pending(txn[f]) \/ Pending(txn'[f]) = Pending(next)
        BY <1>1
      <3>3. QED
        BY <1>6, <1>11, <2>2, <2>3, <3>1, <3>2
    <2>6. QED
      BY <2>4, <2>5
  <1>13. ASSUME NEW g \in Handlers
         PROVE  Fresh(txn[g])' /\ Outdated(txn[g])'
    <2>1. Fresh(txn[g]) /\ Outdated(txn[g])
      BY DEF BucketInv
    <2>2. \A k \in txn[g].old : k \in Pictures
      BY DEF PostInv, TypeOK, Transaction
    <2>3. \A k \in txn[g].old : k <= uploads'
      BY <1>3, <2>1, <2>2 DEF Outdated, Pictures
    <2>4. Outdated(txn[g])'
      <3>1. CASE g = h
        <4>1. Outdated(next)'
          BY <1>10, <2>1, <2>3, <3>1 DEF Outdated
        <4>2. QED
          BY <1>1, <3>1, <4>1 DEF Outdated
      <3>2. CASE g # h
        BY <1>1, <2>1, <2>3, <3>2 DEF Outdated
      <3>3. QED
        BY <3>1, <3>2
    <2>5. Fresh(txn[g])'
      <3>1. CASE g = h
        <4>1. \A k \in Pending(next) : k \in objects' /\ ~InRow(k)'
          BY <1>6, <1>7, <1>8
        <4>2. QED
          BY <1>1, <1>5, <3>1, <4>1 DEF Fresh, Pending
      <3>2. CASE g # h
        <4>1. \A k \in Pending(txn[g]) : k \in objects' /\ ~InRow(k)'
          BY <1>7, <2>1 DEF Fresh
        <4>2. QED
          BY <1>1, <2>1, <3>2, <4>1 DEF Fresh, Pending
      <3>3. QED
        BY <3>1, <3>2
    <2>6. QED
      BY <2>4, <2>5
  <1>14. ASSUME ~cutShort', NEW k \in objects'
         PROVE  Wanted(k)'
    <2>1. next.pictures = [i \in 1..n |-> uploads + i]
      BY <1>14
    <2>2. CASE k \in objects
      <3>1. Wanted(k)
        BY <1>14, <2>2 DEF BucketInv
      <3>2. \A g \in Handlers : k \in Pending(txn[g]) => g \in Handlers \ {h}
        BY <1>4
      <3>3. \A g \in Handlers : txn[g].stage = "clearing" => g \in Handlers \ {h}
        OBVIOUS
      <3>4. QED
        BY <1>1, <1>7, <3>1, <3>2, <3>3 DEF Wanted, Pending
    <2>3. CASE k \in uploads + 1 .. uploads'
      <3>1. k - uploads \in 1..n /\ uploads + (k - uploads) = k
        BY <1>3, <2>3
      <3>2. k \in Pending(next)
        BY <2>1, <3>1 DEF Pending
      <3>3. QED
        BY <1>1, <3>2 DEF Wanted, Pending
    <2>4. QED
      BY <2>2, <2>3
  <1>15. QED
    BY <1>9, <1>12, <1>13, <1>14 DEF BucketInv

\* The pictures of deleted images leave the bucket.
LEMMA BucketClearImages ==
    ASSUME PostConstants, PostInv, BucketInv, NEW h \in Handlers, NEW failed,
           ClearImages(h, failed)
    PROVE  BucketInv'
  <1>1. /\ txn' = [txn EXCEPT ![h] = Idle] /\ cutShort' = (cutShort \/ failed # {})
        /\ objects' = objects \ (txn[h].old \ failed)
        /\ txn[h].stage = "clearing"
        /\ UNCHANGED <<images, uploads>>
    BY DEF ClearImages, Goto, imageRows
  <1>2. /\ txn'[h] = Idle /\ \A g \in Handlers \ {h} : txn'[g] = txn[g]
    BY <1>1 DEF PostInv, TypeOK
  <1>3. DOMAIN <<>> = {}
    BY NoPictures
  <1>4. /\ Idle.pictures = <<>> /\ Idle.drop = {} /\ Idle.gone = {} /\ Idle.old = {}
        /\ Pending(Idle) = {}
    BY <1>3 DEF Pending, Idle
  <1>5. /\ txn[h].drop = {} /\ txn[h].gone = {} /\ Pending(txn[h]) = {}
    BY <1>1, <1>3 DEF PostInv, Shape, Pending
  <1>6. \A i \in ImageIds : images[i] # NoRow => images[i].picture \notin txn[h].old
    BY <1>5 DEF BucketInv, Outdated
  <1>7. ImagesStored' /\ OneRowEach'
    BY <1>1, <1>6 DEF BucketInv, ImagesStored, OneRowEach
  <1>8. PicturesApart'
    <2>1. SUFFICES ASSUME NEW f \in Handlers, NEW g \in Handlers
                   PROVE  /\ txn'[f].old \intersect Pending(txn'[g]) = {}
                          /\ f # g => Pending(txn'[f]) \intersect Pending(txn'[g]) = {}
      BY DEF PicturesApart, Pending
    <2>2. /\ txn'[f].old \subseteq txn[f].old
          /\ Pending(txn'[f]) \subseteq Pending(txn[f])
          /\ Pending(txn'[g]) \subseteq Pending(txn[g])
      BY <1>2, <1>4
    <2>3. /\ txn[f].old \intersect Pending(txn[g]) = {}
          /\ f # g => Pending(txn[f]) \intersect Pending(txn[g]) = {}
      BY DEF BucketInv, PicturesApart
    <2>4. QED
      BY <2>2, <2>3
  <1>9. \A k : InRow(k)' <=> InRow(k)
    BY <1>1 DEF InRow
  <1>10. ASSUME NEW g \in Handlers
         PROVE  Fresh(txn[g])' /\ Outdated(txn[g])'
    <2>1. CASE g = h
      <3>1. Fresh(Idle)' /\ Outdated(Idle)'
        BY <1>3, <1>4 DEF Fresh, Outdated
      <3>2. QED
        BY <1>2, <2>1, <3>1 DEF Fresh, Pending, Outdated
    <2>2. CASE g # h
      <3>1. /\ Fresh(txn[g]) /\ Outdated(txn[g])
            /\ txn[h].old \intersect Pending(txn[g]) = {}
        BY DEF BucketInv, PicturesApart
      <3>2. \A k \in Pending(txn[g]) : k \in objects' /\ ~InRow(k)'
        BY <1>1, <1>9, <3>1 DEF Fresh
      <3>3. QED
        BY <1>1, <1>2, <2>2, <3>1, <3>2 DEF Fresh, Pending, Outdated
    <2>3. QED
      BY <2>1, <2>2
  <1>11. ASSUME ~cutShort', NEW k \in objects'
         PROVE  Wanted(k)'
    <2>1. Wanted(k) /\ k \notin txn[h].old
      BY <1>1, <1>11 DEF BucketInv
    <2>2. \A g \in Handlers : k \in Pending(txn[g]) => g \in Handlers \ {h}
      BY <1>5
    <2>3. \A g \in Handlers : k \in txn[g].old => g \in Handlers \ {h}
      BY <2>1
    <2>4. QED
      BY <1>2, <1>9, <2>1, <2>2, <2>3 DEF Wanted, Pending
  <1>12. QED
    BY <1>7, <1>8, <1>10, <1>11 DEF BucketInv

LEMMA BucketInit ==
    ASSUME PostConstants, Init
    PROVE  BucketInv
  <1>1. \A h \in Handlers : txn[h] = Idle
    BY DEF Init
  <1>2. DOMAIN <<>> = {}
    BY NoPictures
  <1>3. /\ Idle.pictures = <<>> /\ Idle.drop = {} /\ Idle.gone = {} /\ Idle.old = {}
        /\ Pending(Idle) = {}
    BY <1>2 DEF Pending, Idle
  <1>4. /\ objects = {} /\ \A i \in ImageIds : images[i] = NoRow
    BY DEF Init
  <1>5. ImagesStored /\ OneRowEach /\ \A k \in objects : Wanted(k)
    BY <1>4 DEF ImagesStored, OneRowEach
  <1>6. PicturesApart
    BY <1>1, <1>3 DEF PicturesApart
  <1>7. Fresh(Idle) /\ Outdated(Idle)
    BY <1>2, <1>3, <1>4 DEF Fresh, Outdated
  <1>8. QED
    BY <1>1, <1>5, <1>6, <1>7 DEF BucketInv

LEMMA BucketInductive ==
    ASSUME PostConstants, ~sameKey', PostInv, BucketInv, [Next]_vars
    PROVE  BucketInv'
  <1>1. CASE UNCHANGED vars
    <2>1. UNCHANGED <<images, uploads, objects, txn, cutShort>>
      BY <1>1 DEF vars
    <2>2. ImagesStored' /\ OneRowEach' /\ PicturesApart'
      BY <2>1 DEF BucketInv, ImagesStored, OneRowEach, PicturesApart, Pending
    <2>3. \A k : InRow(k)' <=> InRow(k)
      BY <2>1 DEF InRow
    <2>4. \A h \in Handlers : Fresh(txn[h])' /\ Outdated(txn[h])'
      BY <2>1, <2>3 DEF BucketInv, Fresh, Outdated, Pending
    <2>5. ~cutShort' => \A k \in objects' : Wanted(k)'
      BY <2>1, <2>3 DEF BucketInv, Wanted, Pending
    <2>6. QED
      BY <2>2, <2>4, <2>5 DEF BucketInv
  <1>2. Idle.drop = {} /\ Idle.gone = {} /\ Idle.old = {} /\ Idle.pictures = <<>>
    BY DEF Idle
  <1>3. Idle \in Transaction
    BY IdleRecord
  <1>4. ASSUME NEW h \in Handlers, txn[h].stage = "idle"
        PROVE  /\ txn[h].drop = {} /\ txn[h].gone = {} /\ txn[h].old = {}
               /\ txn[h].pictures = <<>>
    BY <1>2, <1>4 DEF PostInv, Shape
  <1>5. ASSUME NEW h \in Handlers, NEW n \in 0..Limit, Create(h, n)
        PROVE  BucketInv'
    <2>1. UNCHANGED <<images, uploads, objects, cutShort>> /\ txn[h].stage = "idle"
      BY <1>5 DEF Create, imageRows, bucket
    <2>2. PICK next \in Transaction :
             /\ txn' = [txn EXCEPT ![h] = next]
             /\ next.drop = {} /\ next.gone = {} /\ next.old = {} /\ next.pictures = <<>>
      BY <1>5, CreateMoves
    <2>3. QED
      BY <1>4, <2>1, <2>2, BucketQuiet
  <1>6. ASSUME NEW h \in Handlers, NEW n \in 0..Limit, UploadFails(h, n)
        PROVE  BucketInv'
    <2>1. /\ txn' = [txn EXCEPT ![h] = Idle] /\ cutShort' = TRUE
          /\ UNCHANGED images /\ uploads' = uploads + n /\ txn[h].stage = "uploading"
          /\ objects' = objects \union (uploads + 1 .. uploads')
      BY <1>6 DEF UploadFails, Goto, imageRows
    <2>2. n \in Nat
      BY DEF PostConstants
    <2>3. QED
      BY <1>2, <1>3, <2>1, <2>2, BucketUploads
  <1>7. ASSUME NEW h \in Handlers, NEW alike \in BOOLEAN, Upload(h, alike)
        PROVE  BucketInv'
    <2>1. UNCHANGED <<images, cutShort>> /\ ~alike
      BY <1>7 DEF Upload, imageRows
    <2>2. PICK next \in Transaction :
             /\ txn' = [txn EXCEPT ![h] = next] /\ Shape(next)
             /\ txn[h].stage = "uploading"
             /\ next.op = txn[h].op /\ next.post = txn[h].post
             /\ next.stage = IF next.op = "create" THEN "committing" ELSE "inserting"
             /\ Len(next.pictures) = txn[h].files
             /\ next.pictures = [i \in 1..txn[h].files |->
                                    IF alike THEN uploads' ELSE uploads + i]
             /\ next.old = txn[h].old /\ next.drop = {} /\ next.gone = txn[h].gone
             /\ next.added = {}
             /\ uploads' \in uploads..MaxUploads
             /\ objects' = objects \union (uploads + 1 .. uploads')
             /\ ~alike => uploads' = uploads + txn[h].files
      BY <1>7, UploadMoves, Zenon
    <2>3. PICK n \in Nat : n = txn[h].files
      BY DEF PostInv, TypeOK, Transaction, PostConstants
    <2>4. next.pictures = [i \in 1..n |-> uploads + i] /\ uploads' = uploads + n
      BY <2>1, <2>2, <2>3
    <2>5. txn[h].drop = {}
      BY <2>2 DEF PostInv, Shape
    <2>6. QED
      BY <2>1, <2>2, <2>4, <2>5, BucketUploads
  <1>8. ASSUME NEW h \in Handlers, UpdateText(h)
        PROVE  BucketInv'
    <2>1. UNCHANGED <<images, uploads, objects, cutShort>>
      BY <1>8 DEF UpdateText, imageRows, bucket
    <2>2. PICK next \in Transaction :
             /\ txn' = [txn EXCEPT ![h] = next] /\ txn[h].stage = "starting"
             /\ next.drop = txn[h].drop /\ next.gone = {} /\ next.old = txn[h].old
             /\ next.pictures = <<>>
      BY <1>8, UpdateTextMoves
    <2>3. txn[h].gone = {} /\ txn[h].pictures = <<>>
      BY <2>2 DEF PostInv, Shape
    <2>4. QED
      BY <2>1, <2>2, <2>3, BucketQuiet
  <1>9. ASSUME NEW h \in Handlers, DeleteImages(h)
        PROVE  BucketInv'
    <2>1. UNCHANGED <<images, uploads, objects, cutShort>>
      BY <1>9 DEF DeleteImages, imageRows, bucket
    <2>2. PICK next \in Transaction :
             /\ txn' = [txn EXCEPT ![h] = next] /\ txn[h].stage = "deleting"
             /\ next.drop = {} /\ next.gone = txn[h].drop /\ next.old = txn[h].old
             /\ next.pictures = <<>>
      BY <1>9, DeleteImagesMoves
    <2>3. txn[h].gone = {} /\ txn[h].pictures = <<>>
      BY <2>2 DEF PostInv, Shape
    <2>4. QED
      BY <2>1, <2>2, <2>3, BucketQuiet
  <1>10. ASSUME NEW h \in Handlers, InsertImages(h)
         PROVE  BucketInv'
    <2>1. UNCHANGED <<images, uploads, objects>> /\ txn[h].stage = "inserting"
      BY <1>10 DEF InsertImages, bucket
    <2>2. txn[h].drop = {}
      BY <2>1 DEF PostInv, Shape
    <2>3. CASE Exists(txn[h].post)
      <3>1. PICK next \in Transaction :
               /\ txn' = [txn EXCEPT ![h] = next]
               /\ next.drop = {} /\ next.gone = txn[h].gone /\ next.old = txn[h].old
               /\ next.pictures = txn[h].pictures
        BY <1>10, <2>3, InsertImagesMoves
      <3>2. UNCHANGED cutShort
        BY <1>10, <2>3 DEF InsertImages
      <3>3. QED
        BY <2>1, <2>2, <3>1, <3>2, BucketQuiet
    <2>4. CASE ~Exists(txn[h].post)
      <3>1. txn' = [txn EXCEPT ![h] = Idle] /\ cutShort' = TRUE
        BY <1>10, <2>4 DEF InsertImages, Goto
      <3>2. QED
        BY <1>2, <1>3, <2>1, <3>1, BucketQuiet
    <2>5. QED
      BY <2>3, <2>4
  <1>11. ASSUME NEW h \in Handlers, ListImages(h)
         PROVE  BucketInv'
    <2>1. UNCHANGED <<images, uploads, objects, cutShort>>
      BY <1>11 DEF ListImages, imageRows, bucket
    <2>2. PICK next \in Transaction :
             /\ txn' = [txn EXCEPT ![h] = next] /\ txn[h].stage = "listing"
             /\ next.drop = {} /\ next.gone = txn[h].gone /\ next.old = txn[h].old
             /\ next.pictures = txn[h].pictures
      BY <1>11, ListImagesMoves
    <2>3. txn[h].drop = {}
      BY <2>2 DEF PostInv, Shape
    <2>4. QED
      BY <2>1, <2>2, <2>3, BucketQuiet
  <1>12. ASSUME NEW h \in Handlers, NEW p \in Posts, RemoveFind(h, p)
         PROVE  BucketInv'
    <2>1. UNCHANGED <<images, uploads, objects, cutShort>> /\ txn[h].stage = "idle"
      BY <1>12 DEF RemoveFind, imageRows, bucket
    <2>2. PICK next \in Transaction :
             /\ txn' = [txn EXCEPT ![h] = next]
             /\ next.drop = {} /\ next.gone = {} /\ next.old = {} /\ next.pictures = <<>>
      BY <1>12, RemoveFindMoves
    <2>3. QED
      BY <1>4, <2>1, <2>2, BucketQuiet
  <1>13. ASSUME NEW h \in Handlers, Remove(h)
         PROVE  BucketInv'
    <2>1. /\ UNCHANGED <<images, uploads, objects, cutShort>> /\ txn[h].stage = "removing"
          /\ txn' = [txn EXCEPT ![h] = Idle]
      BY <1>13 DEF Remove, imageRows, bucket, Goto
    <2>2. txn[h].pictures = <<>>
      BY <2>1 DEF PostInv, Shape
    <2>3. QED
      BY <1>2, <1>3, <2>1, <2>2, BucketQuiet
  <1>14. ASSUME NEW h \in Handlers, Interrupt(h)
         PROVE  BucketInv'
    <2>1. /\ txn' = [txn EXCEPT ![h] = Idle] /\ cutShort' = TRUE
          /\ UNCHANGED <<images, uploads, objects>>
      BY <1>14 DEF Interrupt, Goto, imageRows, bucket
    <2>2. QED
      BY <1>2, <1>3, <2>1, BucketQuiet
  <1>15. QED
    BY <1>1, <1>5, <1>6, <1>7, <1>8, <1>9, <1>10, <1>11, <1>12, <1>13, <1>14,
       BucketUpdateFind, BucketCreateCommit, BucketUpdateCommit, BucketClearImages
       DEF Next, Loads

\* Once nothing is under way, what is in the bucket is what the rows say.
\* Keys that were once alike are remembered.
LEMMA KeysStayApart ==
    ASSUME [Next]_vars, ~sameKey'
    PROVE  ~sameKey
  <1>1. CASE UNCHANGED vars
    BY <1>1 DEF vars
  <1>2. ASSUME NEW h \in Handlers, NEW alike, Upload(h, alike) PROVE ~sameKey
    BY <1>2 DEF Upload
  <1>3. ASSUME NEW h \in Handlers, NEW n \in 0..Limit, Create(h, n) \/ UploadFails(h, n)
        PROVE  ~sameKey
    BY <1>3 DEF Create, UploadFails, bucket
  <1>4. ASSUME NEW h \in Handlers, NEW p, NEW drop, NEW n, NEW text,
               UpdateFind(h, p, drop, n, text) \/ RemoveFind(h, p)
        PROVE  ~sameKey
    BY <1>4 DEF UpdateFind, RemoveFind, bucket
  <1>5. ASSUME NEW h \in Handlers,
               UpdateText(h) \/ DeleteImages(h) \/ InsertImages(h) \/ ListImages(h)
        PROVE  ~sameKey
    BY <1>5 DEF UpdateText, DeleteImages, InsertImages, ListImages, bucket
  <1>6. ASSUME NEW h \in Handlers, CreateCommit(h) \/ UpdateCommit(h) \/ Remove(h) \/ Interrupt(h)
        PROVE  ~sameKey
    BY <1>6 DEF CreateCommit, UpdateCommit, Remove, Interrupt, bucket
  <1>7. ASSUME NEW h \in Handlers, NEW failed, ClearImages(h, failed) PROVE ~sameKey
    BY <1>7 DEF ClearImages
  <1>8. QED
    BY <1>1, <1>2, <1>3, <1>4, <1>5, <1>6, <1>7 DEF Next

LEMMA BucketSettles ==
    ASSUME PostConstants, PostInv, BucketInv
    PROVE  ImagesStored /\ BucketMatches
  <1>1. ASSUME ~cutShort, \A h \in Handlers : txn[h].stage = "idle"
        PROVE  objects = {images[i].picture : i \in {j \in ImageIds : images[j] # NoRow}}
    <2>1. \A h \in Handlers : Pending(txn[h]) = {}
      <3>1. DOMAIN <<>> = {}
        BY NoPictures
      <3>2. \A h \in Handlers : txn[h].pictures = <<>>
        BY <1>1 DEF PostInv, Shape
      <3>3. QED
        BY <3>1, <3>2 DEF Pending
    <2>2. \A k \in objects : InRow(k)
      BY <1>1, <2>1 DEF BucketInv, Wanted
    <2>3. QED
      BY <2>2 DEF InRow, BucketInv, ImagesStored
  <1>2. QED
    BY <1>1 DEF BucketMatches, BucketInv

-----------------------------------------------------------------------------
\* The images of a post, one handler at a time.

\* What was decided on the images as they were loaded still holds of them.
Within(t) ==
    t.op = "update" =>
        /\ t.drop \union t.gone \subseteq ImagesOf(t.post)
        /\ t.stage \in {"starting", "deleting", "uploading"} =>
              Cardinality(ImagesOf(t.post) \ (t.drop \union t.gone)) + t.files <= Limit
        /\ t.stage = "inserting" =>
              Cardinality(ImagesOf(t.post) \ t.gone) + Len(t.pictures) <= Limit
        /\ t.stage \in {"listing", "committing"} => Cardinality(Latest(t)) <= Limit
        /\ t.stage = "committing" => t.shown = Leading(t)

SerialInv ==
    /\ ThumbnailIsFirst
    /\ AtMostLimit
    /\ \A h \in Handlers : Within(txn[h])

LEMMA ImagesFinite ==
    ASSUME PostConstants, NEW S \in SUBSET ImageIds
    PROVE  IsFiniteSet(S) /\ Cardinality(S) \in Nat
  <1>1. IsFiniteSet(1..MaxUploads)
    BY FS_Interval DEF PostConstants
  <1>2. IsFiniteSet(S)
    BY <1>1, FS_Subset DEF ImageIds
  <1>3. QED
    BY <1>2, FS_CardinalityType

\* A run of n ids has n of them.
LEMMA RunOfIds ==
    ASSUME NEW a \in Nat, NEW n \in Nat
    PROVE  IsFiniteSet(a + 1 .. a + n) /\ Cardinality(a + 1 .. a + n) = n
  <1>1. a + 1 \in Int /\ a + n \in Int
    OBVIOUS
  <1>2. /\ IsFiniteSet(a + 1 .. a + n)
        /\ Cardinality(a + 1 .. a + n) = IF a + 1 > a + n THEN 0 ELSE (a + n) - (a + 1) + 1
    BY <1>1, FS_Interval
  <1>3. QED
    BY <1>2

\* Before and after a step of a handler, the others are idle.
LEMMA OthersRest ==
    ASSUME PostConstants, OneUnderWay(txn), OneUnderWay(txn'), PostInv, NEW h \in Handlers,
           NEW next, txn' = [txn EXCEPT ![h] = next],
           txn[h].stage # "idle" \/ next.stage # "idle"
    PROVE  /\ txn'[h] = next
           /\ \A g \in Handlers \ {h} : txn'[g] = Idle
           /\ Idle.op # "update" /\ \A g \in Handlers \ {h} : txn'[g].op # "update"
  <1>1. txn'[h] = next /\ \A g \in Handlers \ {h} : txn'[g] = txn[g]
    BY DEF PostInv, TypeOK
  <1>2. \A g \in Handlers \ {h} : txn[g].stage = "idle"
    BY <1>1 DEF OneUnderWay
  <1>3. \A g \in Handlers \ {h} : txn'[g] = Idle
    BY <1>1, <1>2 DEF PostInv, Shape
  <1>4. Idle.op # "update"
    BY DEF PostConstants, Idle
  <1>5. QED
    BY <1>1, <1>3, <1>4

\* A step of the handler under way that leaves the rows alone.
LEMMA SerialQuiet ==
    ASSUME PostConstants, OneUnderWay(txn), OneUnderWay(txn'), PostInv, SerialInv,
           NEW h \in Handlers, NEW next \in Transaction, txn' = [txn EXCEPT ![h] = next],
           txn[h].stage # "idle" \/ next.stage # "idle",
           UNCHANGED <<thumbnail, images>>, Within(next)
    PROVE  SerialInv'
  <1>1. txn'[h] = next /\ \A g \in Handlers \ {h} : txn'[g].op # "update"
    BY OthersRest
  <1>2. \A p : ImagesOf(p)' = ImagesOf(p)
    BY DEF ImagesOf
  <1>3. ThumbnailIsFirst' /\ AtMostLimit'
    BY <1>2 DEF SerialInv, ThumbnailIsFirst, AtMostLimit, Exists
  <1>4. Within(next)'
    BY <1>2 DEF Within, Latest, Leading, Added
  <1>5. Within(txn[h])'
    BY <1>1, <1>4 DEF Within, Latest, Leading, Added
  <1>6. \A g \in Handlers \ {h} : Within(txn[g])'
    BY <1>1 DEF Within
  <1>7. QED
    BY <1>3, <1>5, <1>6 DEF SerialInv

LEMMA SerialInsertImages ==
    ASSUME PostConstants, OneUnderWay(txn), OneUnderWay(txn'), PostInv, SerialInv,
           NEW h \in Handlers, InsertImages(h),
           Exists(txn[h].post)
    PROVE  SerialInv'
  <1>1. PICK t \in Transaction : t = txn[h]
    BY DEF PostInv, TypeOK
  <1>2. PICK next \in Transaction :
             /\ txn' = [txn EXCEPT ![h] = next]
             /\ t.stage = "inserting"
             /\ next.stage = "listing" /\ next.op = t.op /\ next.post = t.post
             /\ next.drop = {} /\ next.gone = t.gone
             /\ next.added = numbered + 1 .. numbered + Len(t.pictures)
    BY <1>1, InsertImagesMoves
  <1>3. UNCHANGED <<thumbnail, images>>
    BY DEF InsertImages, posts
  <1>4. Within(t) /\ Shape(t) /\ t.drop = {} /\ t.op = "update"
    BY <1>1, <1>2 DEF SerialInv, PostInv, Shape
  <1>5. Cardinality(ImagesOf(t.post) \ t.gone) + Len(t.pictures) <= Limit
    BY <1>2, <1>4 DEF Within
  <1>6. numbered \in Nat /\ Len(t.pictures) \in Nat /\ Limit \in Nat
    BY PictureSeq DEF PostInv, TypeOK, PostConstants
  <1>7. IsFiniteSet(next.added) /\ Cardinality(next.added) = Len(t.pictures)
    BY <1>2, <1>6, RunOfIds
  <1>8. PICK S \in SUBSET ImageIds : S = ImagesOf(t.post) \ t.gone
    BY DEF ImagesOf
  <1>9. /\ IsFiniteSet(S) /\ Cardinality(S) \in Nat
        /\ Cardinality(S \intersect next.added) \in Nat
    BY <1>8, ImagesFinite
  <1>10. Cardinality(S \union next.added)
            = Cardinality(S) + Cardinality(next.added) - Cardinality(S \intersect next.added)
    BY <1>7, <1>9, FS_Union
  <1>11. Cardinality(S \union next.added) <= Limit
    BY <1>5, <1>6, <1>7, <1>8, <1>9, <1>10
  <1>12. Latest(next) = S \union next.added
    BY <1>2, <1>8 DEF Latest
  <1>13. next.drop \union next.gone \subseteq ImagesOf(next.post)
    BY <1>2, <1>4 DEF Within
  <1>14. Within(next)
    BY <1>2, <1>11, <1>12, <1>13 DEF Within
  <1>15. QED
    BY <1>2, <1>3, <1>14, SerialQuiet

\* create commits a post with the images uploaded, and no others.
LEMMA SerialCreateCommit ==
    ASSUME PostConstants, OneUnderWay(txn), OneUnderWay(txn'), PostInv, SerialInv,
           NEW h \in Handlers, CreateCommit(h)
    PROVE  SerialInv'
  <1>1. PICK s : s = txn[h].pictures
    OBVIOUS
  <1>2. PICK a \in Nat : a = numbered
    BY DEF PostInv, TypeOK
  <1>3. PICK n \in Nat : n = txn[h].files /\ n <= Limit
    <2>1. txn[h].files \in 0..Limit /\ Limit \in Nat
      BY DEF PostInv, TypeOK, Transaction, PostConstants
    <2>2. QED
      BY <2>1
  <1>4. PICK p \in Posts : p = posted + 1
    BY CommittedPost
  <1>5. /\ txn' = [txn EXCEPT ![h] = Idle] /\ numbered' = a + n /\ numbered' \in 0..MaxUploads
        /\ \A i \in ImageIds :
              images'[i] = IF i \in a + 1 .. numbered'
                           THEN [post |-> p, picture |-> s[i - a]] ELSE images[i]
        /\ \A i \in a + 1 .. numbered' : s[i - a] \in Pictures
        /\ thumbnail' = [thumbnail EXCEPT ![p] = IF n = 0 THEN None ELSE s[1]]
    BY <1>1, <1>2, <1>3, <1>4, CommittedPost
  <1>6. PICK ids : ids = a + 1 .. a + n
    OBVIOUS
  <1>7. \A i \in ids : i \in ImageIds /\ ~(i <= numbered)
    BY <1>2, <1>3, <1>5, <1>6 DEF ImageIds, PostConstants
  <1>8. \A i \in ids : images[i] = NoRow
    BY <1>7 DEF PostInv, Numbering
  <1>9. ~Exists(p)
    BY <1>4 DEF PostInv, Numbering, TypeOK
  <1>10. \A i \in ids : /\ images'[i] = [post |-> p, picture |-> s[i - a]]
                        /\ images'[i] \in Image
    BY <1>5, <1>6, <1>7 DEF Image
  <1>11. \A i \in ids : images'[i].post = p /\ images'[i] # NoRow
    <2>1. ASSUME NEW i \in ids
          PROVE  images'[i].post = p
      <3>1. PICK k : k = s[i - a]
        OBVIOUS
      <3>2. images'[i] = [post |-> p, picture |-> k]
        BY <1>10, <3>1
      <3>3. QED
        BY <3>2
    <2>2. \A i \in ids : images'[i] # NoRow
      BY <1>10 DEF PostConstants
    <2>3. QED
      BY <2>1, <2>2
  <1>12. \A i \in ImageIds \ ids : images'[i] = images[i]
    BY <1>5, <1>6
  <1>13. \A i \in ImageIds : images[i] # NoRow => images[i].post # p
    BY <1>9 DEF PostInv, TypeOK
  <1>14. ImagesOf(p)' = ids
    BY <1>7, <1>11, <1>12, <1>13 DEF ImagesOf
  <1>15. \A q \in Posts \ {p} : ImagesOf(q)' = ImagesOf(q)
    BY <1>8, <1>11, <1>12 DEF ImagesOf
  <1>16. \A q \in Posts \ {p} : thumbnail'[q] = thumbnail[q]
    BY <1>5 DEF PostInv, TypeOK
  <1>17. ThumbnailIsFirst'
    <2>1. ASSUME NEW q \in Posts \ {p}, Exists(q)'
          PROVE  thumbnail'[q] = IF ImagesOf(q)' = {} THEN None
                                 ELSE images'[First(ImagesOf(q)')].picture
      <3>1. thumbnail[q] = IF ImagesOf(q) = {} THEN None
                           ELSE images[First(ImagesOf(q))].picture
        BY <1>16, <2>1 DEF SerialInv, ThumbnailIsFirst, Exists
      <3>2. ASSUME ImagesOf(q) # {}
            PROVE  images'[First(ImagesOf(q))] = images[First(ImagesOf(q))]
        <4>1. ImagesOf(q) \in SUBSET (1..MaxUploads) /\ MaxUploads \in Nat
          BY DEF ImagesOf, ImageIds, PostConstants
        <4>2. First(ImagesOf(q)) \in ImagesOf(q)
          BY <3>2, <4>1, LeastOf
        <4>3. First(ImagesOf(q)) \in ImageIds \ ids
          BY <1>8, <4>2 DEF ImagesOf
        <4>4. QED
          BY <1>12, <4>3
      <3>3. QED
        BY <1>15, <1>16, <3>1, <3>2
    <2>2. thumbnail'[p] = IF ids = {} THEN None ELSE images'[First(ids)].picture
      <3>1. thumbnail'[p] = IF n = 0 THEN None ELSE s[1]
        BY <1>5 DEF PostInv, TypeOK
      <3>2. CASE n = 0
        BY <1>6, <3>1, <3>2
      <3>3. CASE n # 0
        <4>1. First(ids) = a + 1 /\ a + 1 \in ids /\ (a + 1) - a = 1
          BY <1>6, <3>3, FirstOfRun
        <4>2. images'[a + 1] = [post |-> p, picture |-> s[1]]
          BY <1>10, <4>1
        <4>3. QED
          BY <3>1, <3>3, <4>1, <4>2
      <3>4. QED
        BY <3>2, <3>3
    <2>3. QED
      BY <1>14, <2>1, <2>2 DEF ThumbnailIsFirst
  <1>18. AtMostLimit'
    <2>1. Cardinality(ids) <= Limit
      BY <1>3, <1>6, RunOfIds
    <2>2. QED
      BY <1>14, <1>15, <2>1 DEF SerialInv, AtMostLimit
  <1>19. /\ txn'[h] = Idle /\ Idle.op # "update"
         /\ \A g \in Handlers \ {h} : txn'[g].op # "update"
    <2>1. txn[h].stage # "idle"
      BY DEF CreateCommit
    <2>2. QED
      BY <1>5, <2>1, OthersRest
  <1>20. \A g \in Handlers : Within(txn[g])'
    BY <1>19 DEF Within
  <1>21. QED
    BY <1>17, <1>18, <1>20 DEF SerialInv

\* update commits the images it has listed, and the first of them as thumbnail.
LEMMA SerialUpdateCommit ==
    ASSUME PostConstants, OneUnderWay(txn), OneUnderWay(txn'), PostInv, SerialInv,
           NEW h \in Handlers, UpdateCommit(h)
    PROVE  SerialInv'
  <1>1. PICK t \in Transaction : t = txn[h]
    BY DEF PostInv, TypeOK
  <1>2. PICK next \in Transaction :
             /\ txn' = [txn EXCEPT ![h] = next] /\ t.stage = "committing" /\ t.op = "update"
             /\ next.stage = "clearing" /\ next.drop = {} /\ next.gone = {}
    BY <1>1, UpdateCommitMoves
  <1>3. PICK p \in Posts : p = t.post
    BY <1>1, CommittedUpdate
  <1>4. PICK s : s = t.pictures
    OBVIOUS
  <1>5. PICK a \in Nat :
             /\ \A i \in ImageIds :
                   images'[i] = CASE i \in t.gone -> NoRow
                                  [] i \in t.added -> [post |-> p, picture |-> s[i - a]]
                                  [] OTHER -> images[i]
             /\ \A i \in t.added : /\ i \in ImageIds /\ i \notin t.gone
                                   /\ s[i - a] \in Pictures
                                   /\ Added(t, i).picture = s[i - a]
             /\ thumbnail' = [thumbnail EXCEPT ![p] = IF Exists(p) THEN t.shown ELSE @]
    BY <1>1, <1>3, <1>4, CommittedUpdate
  <1>6. /\ t.gone \subseteq ImagesOf(p) /\ t.shown = Leading(t)
        /\ Cardinality(Latest(t)) <= Limit
    BY <1>1, <1>2, <1>3 DEF SerialInv, Within
  <1>7. ASSUME NEW i \in t.added
        PROVE  /\ images'[i] = [post |-> p, picture |-> s[i - a]] /\ images'[i] \in Image
               /\ images'[i].post = p /\ images'[i].picture = s[i - a] /\ images'[i] # NoRow
    <2>1. PICK k \in Pictures : k = s[i - a]
      BY <1>5
    <2>2. images'[i] = [post |-> p, picture |-> k]
      BY <1>5, <2>1
    <2>3. images'[i] \in Image
      BY <2>2 DEF Image
    <2>4. images'[i] # NoRow
      BY <2>3 DEF PostConstants
    <2>5. QED
      BY <2>1, <2>2, <2>3, <2>4
  <1>8. \A i \in t.added : images[i] = NoRow
    BY <1>1 DEF PostInv, Owns
  <1>9. \A i \in ImageIds : i \notin t.gone \union t.added => images'[i] = images[i]
    BY <1>5
  <1>10. \A i \in t.gone : i \in ImageIds /\ images[i] # NoRow /\ images[i].post = p
                           /\ images'[i] = NoRow
    BY <1>5, <1>6 DEF ImagesOf
  <1>11. ImagesOf(p)' = Latest(t)
    <2>1. \A i \in ImageIds : i \in Latest(t) <=>
              \/ images[i] # NoRow /\ images[i].post = p /\ i \notin t.gone
              \/ i \in t.added
      BY <1>3 DEF Latest, ImagesOf
    <2>2. \A i \in ImageIds : (images'[i] # NoRow /\ images'[i].post = p) <=>
              \/ images[i] # NoRow /\ images[i].post = p /\ i \notin t.gone
              \/ i \in t.added
      BY <1>7, <1>8, <1>9, <1>10
    <2>3. Latest(t) \subseteq ImageIds
      BY <1>5 DEF Latest, ImagesOf
    <2>4. QED
      BY <2>1, <2>2, <2>3 DEF ImagesOf
  <1>12. \A q \in Posts \ {p} : ImagesOf(q)' = ImagesOf(q)
    BY <1>7, <1>8, <1>9, <1>10 DEF ImagesOf
  <1>13. /\ \A q \in Posts \ {p} : thumbnail'[q] = thumbnail[q]
         /\ thumbnail'[p] = IF Exists(p) THEN t.shown ELSE thumbnail[p]
    BY <1>5 DEF PostInv, TypeOK
  <1>14. \A i \in Latest(t) :
            images'[i].picture = IF i \in t.added THEN Added(t, i).picture ELSE images[i].picture
    BY <1>5, <1>7, <1>9 DEF Latest, ImagesOf
  <1>15. Latest(t) # {} => First(Latest(t)) \in Latest(t)
    <2>1. Latest(t) \in SUBSET (1..MaxUploads) /\ MaxUploads \in Nat
      BY <1>5 DEF Latest, ImagesOf, ImageIds, PostConstants
    <2>2. QED
      BY <2>1, LeastOf
  <1>16. ThumbnailIsFirst'
    <2>1. ASSUME NEW q \in Posts \ {p}, Exists(q)'
          PROVE  thumbnail'[q] = IF ImagesOf(q)' = {} THEN None
                                 ELSE images'[First(ImagesOf(q)')].picture
      <3>1. thumbnail[q] = IF ImagesOf(q) = {} THEN None
                           ELSE images[First(ImagesOf(q))].picture
        BY <1>13, <2>1 DEF SerialInv, ThumbnailIsFirst, Exists
      <3>2. ASSUME ImagesOf(q) # {}
            PROVE  images'[First(ImagesOf(q))] = images[First(ImagesOf(q))]
        <4>1. ImagesOf(q) \in SUBSET (1..MaxUploads) /\ MaxUploads \in Nat
          BY DEF ImagesOf, ImageIds, PostConstants
        <4>2. First(ImagesOf(q)) \in ImagesOf(q)
          BY <3>2, <4>1, LeastOf
        <4>3. First(ImagesOf(q)) \in ImageIds /\ First(ImagesOf(q)) \notin t.gone \union t.added
          BY <1>8, <1>10, <4>2 DEF ImagesOf
        <4>4. QED
          BY <1>9, <4>3
      <3>3. QED
        BY <1>12, <1>13, <3>1, <3>2
    <2>2. Exists(p)' => thumbnail'[p] = IF Latest(t) = {} THEN None
                                        ELSE images'[First(Latest(t))].picture
      <3>1. Exists(p)' => thumbnail'[p] = Leading(t)
        BY <1>6, <1>13 DEF Exists
      <3>2. Leading(t) = IF Latest(t) = {} THEN None
                         ELSE images'[First(Latest(t))].picture
        BY <1>14, <1>15 DEF Leading
      <3>3. QED
        BY <3>1, <3>2
    <2>3. QED
      BY <1>11, <2>1, <2>2 DEF ThumbnailIsFirst
  <1>17. AtMostLimit'
    BY <1>6, <1>11, <1>12 DEF SerialInv, AtMostLimit
  <1>18. txn'[h] = next /\ \A g \in Handlers \ {h} : txn'[g].op # "update"
    BY <1>1, <1>2, OthersRest
  <1>19. \A g \in Handlers : Within(txn[g])'
    BY <1>2, <1>18 DEF Within
  <1>20. QED
    BY <1>16, <1>17, <1>19 DEF SerialInv

LEMMA SerialRemove ==
    ASSUME PostConstants, OneUnderWay(txn), OneUnderWay(txn'), PostInv, SerialInv,
           NEW h \in Handlers, Remove(h)
    PROVE  SerialInv'
  <1>1. txn' = [txn EXCEPT ![h] = Idle] /\ UNCHANGED images
    BY DEF Remove, Goto, imageRows
  <1>2. txn'[h] = Idle /\ \A g \in Handlers \ {h} : txn'[g].op # "update"
    <2>1. txn[h].stage # "idle"
      BY DEF Remove
    <2>2. QED
      BY <1>1, <2>1, OthersRest
  <1>3. \A p : ImagesOf(p)' = ImagesOf(p)
    BY <1>1 DEF ImagesOf
  <1>4. \A q \in Posts : thumbnail'[q] = NoRow \/ thumbnail'[q] = thumbnail[q]
    <2>1. \/ thumbnail' = [thumbnail EXCEPT ![txn[h].post] = NoRow]
          \/ UNCHANGED thumbnail
      BY DEF Remove
    <2>2. QED
      BY <2>1 DEF PostInv, TypeOK
  <1>5. ThumbnailIsFirst' /\ AtMostLimit'
    BY <1>1, <1>3, <1>4 DEF SerialInv, ThumbnailIsFirst, AtMostLimit, Exists
  <1>6. Idle.op # "update"
    BY DEF PostConstants, Idle
  <1>7. \A g \in Handlers : Within(txn[g])'
    BY <1>2, <1>6 DEF Within
  <1>8. QED
    BY <1>5, <1>7 DEF SerialInv

LEMMA SerialInit ==
    ASSUME PostConstants, Init
    PROVE  SerialInv
  <1>1. \A p \in Posts : ~Exists(p) /\ ImagesOf(p) = {}
    BY DEF Init, Exists, ImagesOf
  <1>2. ThumbnailIsFirst /\ AtMostLimit
    BY <1>1, FS_EmptySet DEF ThumbnailIsFirst, AtMostLimit, PostConstants
  <1>3. \A h \in Handlers : Within(txn[h])
    BY DEF Init, Within, PostConstants, Idle
  <1>4. QED
    BY <1>2, <1>3 DEF SerialInv

LEMMA SerialInductive ==
    ASSUME PostConstants, OneUnderWay(txn), OneUnderWay(txn'), PostInv, SerialInv,
           [Next]_vars
    PROVE  SerialInv'
  <1>1. CASE UNCHANGED vars
    <2>1. UNCHANGED <<thumbnail, images, txn>>
      BY <1>1 DEF vars
    <2>2. \A p : ImagesOf(p)' = ImagesOf(p)
      BY <2>1 DEF ImagesOf
    <2>3. ThumbnailIsFirst' /\ AtMostLimit'
      BY <2>1, <2>2 DEF SerialInv, ThumbnailIsFirst, AtMostLimit, Exists
    <2>4. \A h \in Handlers : Within(txn[h])'
      BY <2>1, <2>2 DEF SerialInv, Within, Latest, Leading, Added
    <2>5. QED
      BY <2>3, <2>4 DEF SerialInv
  <1>2. Idle \in Transaction /\ Within(Idle)
    BY IdleRecord DEF Within, Idle, PostConstants
  <1>3. ASSUME NEW h \in Handlers, txn[h].stage # "idle", txn' = [txn EXCEPT ![h] = Idle],
               UNCHANGED <<thumbnail, images>>
        PROVE  SerialInv'
    BY <1>2, <1>3, SerialQuiet
  <1>4. ASSUME NEW h \in Handlers, NEW n \in 0..Limit, Create(h, n)
        PROVE  SerialInv'
    <2>1. UNCHANGED <<thumbnail, images>>
      BY <1>4 DEF Create, posts, imageRows
    <2>2. PICK next \in Transaction :
             txn' = [txn EXCEPT ![h] = next] /\ next.stage = "uploading" /\ next.op = "create"
      BY <1>4, CreateMoves
    <2>3. QED
      BY <2>1, <2>2, SerialQuiet DEF Within
  <1>5. ASSUME NEW h \in Handlers, NEW n \in 0..Limit, UploadFails(h, n)
        PROVE  SerialInv'
    BY <1>3, <1>5 DEF UploadFails, Goto, posts, imageRows
  <1>6. ASSUME NEW h \in Handlers, NEW alike \in BOOLEAN, Upload(h, alike)
        PROVE  SerialInv'
    <2>1. UNCHANGED <<thumbnail, images>>
      BY <1>6 DEF Upload, posts, imageRows
    <2>2. PICK next \in Transaction :
             /\ txn' = [txn EXCEPT ![h] = next] /\ Shape(next)
             /\ txn[h].stage = "uploading"
             /\ next.op = txn[h].op /\ next.post = txn[h].post
             /\ next.stage = IF next.op = "create" THEN "committing" ELSE "inserting"
             /\ Len(next.pictures) = txn[h].files
             /\ next.pictures = [i \in 1..txn[h].files |->
                                    IF alike THEN uploads' ELSE uploads + i]
             /\ next.old = txn[h].old /\ next.drop = {} /\ next.gone = txn[h].gone
             /\ next.added = {}
             /\ uploads' \in uploads..MaxUploads
             /\ objects' = objects \union (uploads + 1 .. uploads')
             /\ ~alike => uploads' = uploads + txn[h].files
      BY <1>6, UploadMoves, Zenon
    <2>3. Within(txn[h]) /\ txn[h].drop = {}
      BY <2>2 DEF SerialInv, PostInv, Shape
    <2>4. Within(next)
      BY <2>2, <2>3 DEF Within
    <2>5. QED
      BY <2>1, <2>2, <2>4, SerialQuiet
  <1>7. ASSUME NEW h \in Handlers, NEW p \in Posts, NEW drop, Loads(h, p, drop)
        PROVE  SerialInv'
    <2>1. UNCHANGED <<thumbnail, images>> /\ drop \subseteq ImagesOf(p)
      BY <1>7 DEF Loads, UpdateFind, posts, imageRows
    <2>2. PICK next \in Transaction :
             txn' = [txn EXCEPT ![h] = next] /\ Starts(next, p, drop)
      BY <1>7, UpdateFindMoves
    <2>3. Within(next)
      BY <2>1, <2>2 DEF Within, Starts
    <2>4. QED
      BY <2>1, <2>2, <2>3, SerialQuiet DEF Starts
  <1>8. ASSUME NEW h \in Handlers, UpdateText(h)
        PROVE  SerialInv'
    <2>1. UNCHANGED <<thumbnail, images>>
      BY <1>8 DEF UpdateText, posts, imageRows
    <2>2. PICK next \in Transaction :
             /\ txn' = [txn EXCEPT ![h] = next]
             /\ txn[h].stage = "starting"
             /\ next.stage = "deleting" /\ next.op = txn[h].op /\ next.post = txn[h].post
             /\ next.files = txn[h].files
             /\ next.drop = txn[h].drop /\ next.gone = {}
      BY <1>8, UpdateTextMoves
    <2>3. Within(txn[h]) /\ txn[h].gone = {}
      BY <2>2 DEF SerialInv, PostInv, Shape
    <2>4. Within(next)
      BY <2>2, <2>3 DEF Within
    <2>5. QED
      BY <2>1, <2>2, <2>4, SerialQuiet
  <1>9. ASSUME NEW h \in Handlers, DeleteImages(h)
        PROVE  SerialInv'
    <2>1. UNCHANGED <<thumbnail, images>>
      BY <1>9 DEF DeleteImages, posts, imageRows
    <2>2. PICK next \in Transaction :
             /\ txn' = [txn EXCEPT ![h] = next]
             /\ txn[h].stage = "deleting"
             /\ next.stage = (IF txn[h].files = 0 THEN "listing" ELSE "uploading")
             /\ next.op = txn[h].op /\ next.post = txn[h].post
             /\ next.files = txn[h].files
             /\ next.drop = {} /\ next.gone = txn[h].drop /\ next.added = {}
      BY <1>9, DeleteImagesMoves
    <2>3. Within(txn[h]) /\ txn[h].gone = {}
      BY <2>2 DEF SerialInv, PostInv, Shape
    <2>4. PICK S \in SUBSET ImageIds : S = ImagesOf(txn[h].post) \ txn[h].drop
      BY DEF ImagesOf
    <2>5. ASSUME txn[h].op = "update"
          PROVE  Cardinality(S) + txn[h].files <= Limit
      BY <2>2, <2>3, <2>4, <2>5 DEF Within
    <2>6. Cardinality(S) \in Nat /\ txn[h].files \in 0..Limit
      BY <2>4, ImagesFinite DEF PostInv, TypeOK, Transaction
    <2>7. txn[h].op = "update" /\ txn[h].files = 0 => Cardinality(S) <= Limit
      BY <2>5, <2>6 DEF PostConstants
    <2>8. Latest(next) = S
      BY <2>2, <2>4 DEF Latest
    <2>9. Within(next)
      BY <2>2, <2>3, <2>4, <2>5, <2>7, <2>8 DEF Within
    <2>10. QED
      BY <2>1, <2>2, <2>9, SerialQuiet
  <1>10. ASSUME NEW h \in Handlers, InsertImages(h)
         PROVE  SerialInv'
    <2>1. CASE Exists(txn[h].post)
      BY <1>10, <2>1, SerialInsertImages
    <2>2. CASE ~Exists(txn[h].post)
      BY <1>3, <1>10, <2>2 DEF InsertImages, Goto, posts
    <2>3. QED
      BY <2>1, <2>2
  <1>11. ASSUME NEW h \in Handlers, ListImages(h)
         PROVE  SerialInv'
    <2>1. UNCHANGED <<thumbnail, images>>
      BY <1>11 DEF ListImages, posts, imageRows
    <2>2. PICK t \in Transaction : t = txn[h]
      BY DEF PostInv, TypeOK
    <2>3. PICK next \in Transaction :
             /\ txn' = [txn EXCEPT ![h] = next]
             /\ t.stage = "listing" /\ t.op = "update"
             /\ next.stage = "committing" /\ next.op = t.op /\ next.post = t.post
             /\ next.drop = {} /\ next.gone = t.gone
             /\ next.pictures = t.pictures /\ next.added = t.added
             /\ next.shown = Leading(t)
      BY <1>11, <2>2, ListImagesMoves
    <2>4. Within(t)
      BY <2>2 DEF SerialInv
    <2>5. Latest(next) = Latest(t) /\ \A i : Added(next, i) = Added(t, i)
      BY <2>3 DEF Latest, Added
    <2>6. next.shown = Leading(next)
      BY <2>3, <2>5 DEF Leading, Latest
    <2>7. Within(next)
      BY <2>3, <2>4, <2>5, <2>6 DEF Within
    <2>8. QED
      BY <2>1, <2>3, <2>7, SerialQuiet
  <1>12. ASSUME NEW h \in Handlers, NEW failed, ClearImages(h, failed)
         PROVE  SerialInv'
    BY <1>3, <1>12 DEF ClearImages, Goto, posts, imageRows
  <1>13. ASSUME NEW h \in Handlers, NEW p \in Posts, RemoveFind(h, p)
         PROVE  SerialInv'
    <2>1. UNCHANGED <<thumbnail, images>>
      BY <1>13 DEF RemoveFind, posts, imageRows
    <2>2. PICK next \in Transaction :
             txn' = [txn EXCEPT ![h] = next] /\ next.stage = "removing" /\ next.op = "remove"
      BY <1>13, RemoveFindMoves
    <2>3. QED
      BY <2>1, <2>2, SerialQuiet DEF Within
  <1>14. ASSUME NEW h \in Handlers, Interrupt(h)
         PROVE  SerialInv'
    BY <1>3, <1>14 DEF Interrupt, Goto, posts, imageRows
  <1>15. QED
    BY <1>1, <1>4, <1>5, <1>6, <1>7, <1>8, <1>9, <1>10, <1>11, <1>12, <1>13, <1>14,
       SerialCreateCommit, SerialUpdateCommit, SerialRemove DEF Next, Loads

\* Whatever overlaps and wherever a handler ends, the picture of an image row
\* is in the bucket, and unless one was cut short nothing else is, once nothing
\* is under way; files of one request have names of their own.  One handler at
\* a time, a post shows its first image and has at most as many as allowed
\* (create, update and remove of posts, uploadFiles and deleteFiles).
THEOREM PostsKeepTheirImages ==
    ASSUME PostConstants
    PROVE  PostSpec => []PostsKeepImages
  <1> DEFINE Inv == /\ PostInv
                    /\ ~sameKey => BucketInv
                    /\ inTurn => OneUnderWay(txn) /\ SerialInv
             Step == Next /\ UNCHANGED inTurn /\ (inTurn => OneUnderWay(txn'))
  <1>1. Init => Inv
    <2>1. Init => OneUnderWay(txn)
      BY DEF Init, OneUnderWay, Idle
    <2>2. QED
      BY <2>1, PostInit, BucketInit, SerialInit
  <1>2. Inv /\ [Step]_<<vars, inTurn>> => Inv'
    <2> SUFFICES ASSUME Inv, [Step]_<<vars, inTurn>>
                 PROVE  Inv'
      OBVIOUS
    <2>1. [Next]_vars /\ inTurn' = inTurn
      OBVIOUS
    <2>2. inTurn /\ OneUnderWay(txn) => OneUnderWay(txn')
      BY DEF vars
    <2>3. PostInv'
      BY <2>1, PostInductive
    <2>4. ~sameKey' => BucketInv'
      <3>1. SUFFICES ASSUME ~sameKey'
                     PROVE  BucketInv'
        OBVIOUS
      <3>2. ~sameKey
        BY <2>1, <3>1, KeysStayApart
      <3>3. QED
        BY <2>1, <3>1, <3>2, BucketInductive
    <2>5. inTurn => OneUnderWay(txn)' /\ SerialInv'
      <3>1. SUFFICES ASSUME inTurn
                     PROVE  OneUnderWay(txn') /\ SerialInv'
        BY DEF OneUnderWay
      <3>2. OneUnderWay(txn) /\ OneUnderWay(txn')
        BY <2>2, <3>1
      <3>3. QED
        BY <2>1, <3>1, <3>2, SerialInductive
    <2>6. QED
      BY <2>1, <2>3, <2>4, <2>5
  <1>3. Inv => PostsKeepImages
    BY BucketSettles DEF PostsKeepImages, SerialInv, PostInv
  <1>4. QED
    BY <1>1, <1>2, <1>3, PTL DEF PostSpec

-----------------------------------------------------------------------------
\* Tags of posts and members.

\* A request has finitely many names; null is no owner.
TagConstants ==
    /\ IsFiniteSet(Names) /\ MaxTags \in Nat /\ MaxLinks \in Nat
    /\ None \notin Owners

\* What a record holds at each statement: the tags found or created are those
\* the database takes for the names of the request, one of every name among
\* them; the links are the owner's, and the inactive ones lead to these tags.
TagRecord(t) ==
    /\ t.stage = "idle" => t = Tag!Idle
    /\ t.stage # "idle" => t.owner \in Owners
    /\ t.stage = "clearing" => t.names = {}
    /\ t.tags \subseteq DOMAIN tags
    /\ \A i \in t.tags : Tag!Like(tags[i], t.names)
    /\ t.stage \in {"linking", "inserting", "activating", "listing", "deactivating"} =>
          \A n \in t.names : \E i \in t.tags : tags[i] = n
    /\ t.links \subseteq Tag!LinksOf(t.owner)
    /\ t.stage = "finding" => t.tags = {}
    /\ t.stage \in {"finding", "creating", "linking"} => t.inactive = {}
    /\ t.inactive \subseteq Tag!LinksOf(t.owner)
    /\ \A l \in t.inactive : links[l].tag \in t.tags

\* How far the links of an owner nobody else works on have come.
Synced(t) ==
    LET linked == {i \in t.tags : \E l \in Tag!ActiveOf(t.owner) : links[l].tag = i} IN
    /\ t.stage = "inserting" => t.links \subseteq Tag!ActiveOf(t.owner) \union t.inactive
    /\ t.stage = "activating" =>
          \A i \in t.tags : i \in linked \/ \E l \in t.inactive : links[l].tag = i
    /\ t.stage \in {"listing", "deactivating"} => t.tags = linked
    /\ t.stage = "deactivating" =>
          t.links = {l \in Tag!ActiveOf(t.owner) : links[l].tag \notin t.tags}

TagInv ==
    /\ Tag!TypeOK
    /\ \A h \in Handlers :
         /\ TagRecord(tagTxn[h])
         /\ tagTxn[h].alone =>
               /\ Synced(tagTxn[h]) /\ tagTxn[h].others = {}
               /\ \A g \in Handlers \ {h} : tagTxn[g].owner # tagTxn[h].owner
    /\ \A o \in Owners : asked[o].all =>
         /\ asked[o].names \subseteq Tag!ShownNames(o)
         /\ \A h \in Handlers : tagTxn[h].owner # o

\* A finite set as a sequence without repetitions.
LEMMA TagSequence ==
    ASSUME NEW T, NEW S \in SUBSET T, IsFiniteSet(S)
    PROVE  /\ Tag!SetToSeq(S) \in Seq(T)
           /\ Len(Tag!SetToSeq(S)) = Cardinality(S) /\ Cardinality(S) \in Nat
           /\ \A n \in 1..Cardinality(S) : Tag!SetToSeq(S)[n] \in S
           /\ \A m, n \in 1..Cardinality(S) :
                 Tag!SetToSeq(S)[m] = Tag!SetToSeq(S)[n] => m = n
           /\ \A x \in S : \E n \in 1..Cardinality(S) : Tag!SetToSeq(S)[n] = x
  <1> DEFINE f == Tag!SetToSeq(S)
  <1>1. Tag!Cardinality(S) = Cardinality(S)
    BY DEF Tag!Cardinality, Cardinality
  <1>2. Cardinality(S) \in Nat
    BY FS_CardinalityType
  <1>3. \E b \in Bijection(1..Cardinality(S), S) : TRUE
    BY FS_CardinalityType DEF ExistsBijection
  <1>4. /\ f \in [1..Cardinality(S) -> S]
        /\ \A m, n \in DOMAIN f : f[m] = f[n] => m = n
    BY <1>1, <1>3
       DEF Tag!SetToSeq, Tag!IsInjective, Bijection, Injection, IsInjective
  <1>5. f \in Injection(1..Cardinality(S), S)
    BY <1>4 DEF Injection, IsInjective
  <1>6. f \in Surjection(1..Cardinality(S), S)
    <2>1. IsFiniteSet(1..Cardinality(S)) /\ Cardinality(1..Cardinality(S)) = Cardinality(S)
      BY <1>2, FS_Interval
    <2>2. QED
      BY <1>5, <2>1, FS_Injection
  <1>7. \A x \in S : \E n \in 1..Cardinality(S) : f[n] = x
    BY <1>6 DEF Surjection
  <1>8. f \in Seq(T) /\ Len(f) = Cardinality(S)
    <2>1. f \in [1..Cardinality(S) -> T]
      BY <1>4
    <2>2. f \in Seq(T)
      BY <1>2, <2>1, SeqDef
    <2>3. QED
      BY <1>2, <2>1, <2>2, LenProperties
  <1>9. QED
    BY <1>2, <1>4, <1>7, <1>8

\* What a handler writes: more tags, more links of its owner, or whether links
\* of its owner are active.
TagWrites(o) ==
    /\ tags' \in Seq(Names) /\ Len(tags) <= Len(tags') /\ Len(tags') <= MaxTags
    /\ \A i \in DOMAIN tags : tags'[i] = tags[i]
    /\ links' \in Seq(Tag!Link) /\ Len(links) <= Len(links') /\ Len(links') <= MaxLinks
    /\ \A l \in DOMAIN links : links'[l].owner = links[l].owner /\ links'[l].tag = links[l].tag
    /\ \A l \in DOMAIN links : links[l].owner # o => links'[l] = links[l]
    /\ \A l \in DOMAIN links' : l \notin DOMAIN links =>
          links'[l].owner = o /\ links'[l].tag \in DOMAIN tags'

\* The ids in use, and what is shown of the other owners.
LEMMA TagRows ==
    ASSUME TagConstants, TagInv, NEW o \in Owners \union {None}, TagWrites(o)
    PROVE  /\ DOMAIN tags \subseteq DOMAIN tags' /\ DOMAIN links \subseteq DOMAIN links'
           /\ DOMAIN tags' \subseteq 1..MaxTags /\ DOMAIN links' \subseteq 1..MaxLinks
           /\ Tag!LinksOf(o) \subseteq Tag!LinksOf(o)'
           /\ \A q \in Owners \union {None} : q # o =>
                 /\ Tag!LinksOf(q)' = Tag!LinksOf(q) /\ Tag!ActiveOf(q)' = Tag!ActiveOf(q)
           /\ \A q \in Owners : q # o => Tag!ShownNames(q)' = Tag!ShownNames(q)
           /\ \A l \in DOMAIN links' : links'[l].tag \in DOMAIN tags'
  <1>1. /\ tags \in Seq(Names) /\ links \in Seq(Tag!Link)
        /\ \A l \in DOMAIN links : links[l].tag \in DOMAIN tags
        /\ DOMAIN tags = 1..Len(tags) /\ DOMAIN links = 1..Len(links)
        /\ Len(tags) \in Nat /\ Len(links) \in Nat
    BY LenProperties DEF TagInv, Tag!TypeOK
  <1>2. /\ DOMAIN tags' = 1..Len(tags') /\ DOMAIN links' = 1..Len(links')
        /\ Len(tags') \in Nat /\ Len(links') \in Nat
        /\ Len(tags) <= Len(tags') /\ Len(links) <= Len(links')
        /\ Len(tags') <= MaxTags /\ Len(links') <= MaxLinks
    BY LenProperties DEF TagWrites
  <1>3. DOMAIN tags \subseteq DOMAIN tags' /\ DOMAIN links \subseteq DOMAIN links'
    BY <1>1, <1>2
  <1>4. DOMAIN tags' \subseteq 1..MaxTags /\ DOMAIN links' \subseteq 1..MaxLinks
    BY <1>2 DEF TagConstants
  <1>5. Tag!LinksOf(o) \subseteq Tag!LinksOf(o)'
    BY <1>3 DEF Tag!LinksOf, TagWrites
  <1>6. ASSUME NEW q \in Owners \union {None}, q # o
        PROVE  /\ Tag!LinksOf(q)' = Tag!LinksOf(q) /\ Tag!ActiveOf(q)' = Tag!ActiveOf(q)
               /\ \A l \in Tag!LinksOf(q) : links'[l] = links[l]
    <2>1. \A l \in DOMAIN links' : links'[l].owner = q =>
              l \in DOMAIN links /\ links[l].owner = q /\ links'[l] = links[l]
      BY <1>6 DEF TagWrites
    <2>2. \A l \in DOMAIN links : links[l].owner = q =>
              l \in DOMAIN links' /\ links'[l] = links[l]
      BY <1>3, <1>6 DEF TagWrites
    <2>3. Tag!LinksOf(q)' = Tag!LinksOf(q)
      BY <2>1, <2>2 DEF Tag!LinksOf
    <2>4. QED
      BY <2>2, <2>3 DEF Tag!ActiveOf, Tag!LinksOf
  <1>7. ASSUME NEW q \in Owners, q # o
        PROVE  Tag!ShownNames(q)' = Tag!ShownNames(q)
    <2>1. /\ Tag!ActiveOf(q)' = Tag!ActiveOf(q)
          /\ \A l \in Tag!ActiveOf(q) : l \in DOMAIN links /\ links'[l] = links[l]
      BY <1>6, <1>7 DEF Tag!ActiveOf, Tag!LinksOf
    <2>2. \A l \in Tag!ActiveOf(q) : tags'[links[l].tag] = tags[links[l].tag]
      BY <1>1, <2>1 DEF TagWrites
    <2>3. Tag!TagsOf(Tag!ActiveOf(q))' = Tag!TagsOf(Tag!ActiveOf(q))
      BY <2>1 DEF Tag!TagsOf
    <2>4. QED
      BY <2>1, <2>2, <2>3 DEF Tag!ShownNames, Tag!TagsOf
  <1>8. \A l \in DOMAIN links' : links'[l].tag \in DOMAIN tags'
    BY <1>1, <1>3 DEF TagWrites
  <1>9. QED
    BY <1>3, <1>4, <1>5, <1>6, <1>7, <1>8

\* A step of a handler that works on one owner.
LEMMA TagAfter ==
    ASSUME TagConstants, TagInv, NEW h \in Handlers, NEW o \in Owners, tagTxn[h].owner = o,
           NEW next \in Tag!Transaction, tagTxn' = [tagTxn EXCEPT ![h] = next],
           TagWrites(o), next.owner \in {o, None}, TagRecord(next)',
           next.alone =>
               tagTxn[h].alone /\ next.owner = o /\ next.others = {} /\ Synced(next)',
           asked' \in [Owners -> Tag!Asked],
           \A q \in Owners \ {o} : asked'[q] = asked[q],
           asked'[o].all =>
               /\ tagTxn[h].alone /\ next.owner # o
               /\ asked'[o].names \subseteq Tag!ShownNames(o)'
    PROVE  TagInv'
  <1>1. /\ tagTxn \in [Handlers -> Tag!Transaction] /\ tagTxn'[h] = next
        /\ \A g \in Handlers \ {h} : tagTxn'[g] = tagTxn[g]
    BY DEF TagInv, Tag!TypeOK
  <1>2. Tag!TypeOK'
    BY <1>1, TagRows DEF Tag!TypeOK, TagWrites
  <1>3. ASSUME NEW g \in Handlers \ {h}
        PROVE  TagRecord(tagTxn[g])'
    <2>1. PICK t \in Tag!Transaction : t = tagTxn[g]
      BY <1>1
    <2>2. TagRecord(t)
      BY <2>1 DEF TagInv
    <2>3. t.owner \in Owners \union {None}
      BY DEF Tag!Transaction
    <2>4. Tag!LinksOf(t.owner) \subseteq Tag!LinksOf(t.owner)'
      BY <2>3, TagRows
    <2>5. /\ \A i \in t.tags : i \in DOMAIN tags' /\ tags'[i] = tags[i]
          /\ \A l \in t.inactive : links'[l].tag = links[l].tag
      BY <2>2, TagRows DEF TagRecord, TagWrites, Tag!LinksOf
    <2>6. TagRecord(t)'
      <3>1. \A i \in t.tags : Tag!Like(tags'[i], t.names)
        BY <2>2, <2>5 DEF TagRecord
      <3>2. QED
        BY <2>2, <2>4, <2>5, <3>1 DEF TagRecord, Tag!Like
    <2>7. QED
      BY <1>1, <2>1, <2>6 DEF TagRecord
  <1>4. ASSUME NEW g \in Handlers \ {h}, tagTxn[g].alone
        PROVE  /\ Synced(tagTxn[g])' /\ tagTxn'[g].others = {}
               /\ \A f \in Handlers \ {g} : tagTxn'[f].owner # tagTxn'[g].owner
    <2>1. PICK t \in Tag!Transaction : t = tagTxn[g]
      BY <1>1
    <2>2. /\ Synced(t) /\ \A f \in Handlers \ {g} : tagTxn[f].owner # t.owner
          /\ TagRecord(t) /\ t.others = {}
      BY <1>4, <2>1 DEF TagInv
    <2>3. t.owner # o /\ t.owner \in Owners \union {None}
      BY <2>2 DEF Tag!Transaction
    <2>4. /\ Tag!LinksOf(t.owner)' = Tag!LinksOf(t.owner)
          /\ Tag!ActiveOf(t.owner)' = Tag!ActiveOf(t.owner)
      BY <2>3, TagRows
    <2>5. \A l \in Tag!LinksOf(t.owner) : links'[l].tag = links[l].tag
      BY DEF TagWrites, Tag!LinksOf
    <2>6. /\ t.links \subseteq Tag!LinksOf(t.owner)
          /\ t.inactive \subseteq Tag!LinksOf(t.owner)
          /\ Tag!ActiveOf(t.owner) \subseteq Tag!LinksOf(t.owner)
      BY <2>2 DEF TagRecord, Tag!ActiveOf
    <2>7. Synced(t)'
      BY <2>2, <2>4, <2>5, <2>6 DEF Synced
    <2>8. t.owner # None
      <3>1. CASE t.stage = "idle"
        <4>1. t.alone = FALSE
          BY <2>2, <3>1 DEF TagRecord, Tag!Idle
        <4>2. QED
          BY <1>4, <2>1, <4>1
      <3>2. CASE t.stage # "idle"
        BY <2>2, <3>2 DEF TagRecord, TagConstants
      <3>3. QED
        BY <3>1, <3>2
    <2>9. \A f \in Handlers \ {g} : tagTxn'[f].owner # t.owner
      BY <1>1, <2>2, <2>3, <2>8
    <2>10. QED
      BY <1>1, <2>1, <2>2, <2>7, <2>9 DEF Synced
  <1>5. ASSUME next.alone
        PROVE  /\ Synced(next)' /\ next.others = {}
               /\ \A f \in Handlers \ {h} : tagTxn'[f].owner # next.owner
    BY <1>1, <1>5 DEF TagInv
  <1>6. TagRecord(tagTxn[h])'
    BY <1>1 DEF TagRecord
  <1>7. tagTxn'[h].alone =>
            /\ Synced(tagTxn[h])' /\ tagTxn'[h].others = {}
            /\ \A f \in Handlers \ {h} : tagTxn'[f].owner # tagTxn'[h].owner
    BY <1>1, <1>5 DEF Synced
  <1>8. ASSUME NEW q \in Owners, asked'[q].all
        PROVE  /\ asked'[q].names \subseteq Tag!ShownNames(q)'
               /\ \A g \in Handlers : tagTxn'[g].owner # q
    <2>1. CASE q = o
      BY <1>1, <1>8, <2>1 DEF TagInv
    <2>2. CASE q # o
      <3>1. /\ asked'[q] = asked[q] /\ asked[q].names \subseteq Tag!ShownNames(q)
            /\ \A g \in Handlers : tagTxn[g].owner # q
        BY <1>8, <2>2 DEF TagInv
      <3>2. Tag!ShownNames(q)' = Tag!ShownNames(q)
        BY <2>2, TagRows
      <3>3. next.owner # q
        BY <2>2 DEF TagConstants
      <3>4. QED
        BY <1>1, <3>1, <3>2, <3>3
    <2>3. QED
      BY <2>1, <2>2
  <1>9. QED
    BY <1>1, <1>2, <1>3, <1>4, <1>6, <1>7, <1>8 DEF TagInv


\* The handler of a statement works for an owner.
LEMMA TagHandler ==
    ASSUME TagConstants, TagInv, NEW h \in Handlers, tagTxn[h].stage # "idle"
    PROVE  /\ tagTxn[h] \in Tag!Transaction /\ tagTxn[h].owner \in Owners
           /\ TagRecord(tagTxn[h])
           /\ tagTxn[h].alone => Synced(tagTxn[h]) /\ tagTxn[h].others = {}
           /\ ~asked[tagTxn[h].owner].all
           /\ asked \in [Owners -> Tag!Asked]
           /\ tags \in Seq(Names) /\ links \in Seq(Tag!Link)
           /\ DOMAIN tags = 1..Len(tags) /\ DOMAIN links = 1..Len(links)
           /\ Len(tags) \in 0..MaxTags /\ Len(links) \in 0..MaxLinks
           /\ \A l \in DOMAIN links : links[l] \in Tag!Link /\ links[l].tag \in DOMAIN tags
  <1>1. /\ TagRecord(tagTxn[h])
        /\ tagTxn[h].alone => Synced(tagTxn[h]) /\ tagTxn[h].others = {}
    BY DEF TagInv
  <1>2. tagTxn[h].owner \in Owners
    BY <1>1 DEF TagRecord
  <1>3. tagTxn[h] \in Tag!Transaction /\ ~asked[tagTxn[h].owner].all
    BY <1>2 DEF TagInv, Tag!TypeOK
  <1>4. /\ tags \in Seq(Names) /\ links \in Seq(Tag!Link)
        /\ asked \in [Owners -> Tag!Asked]
        /\ \A l \in DOMAIN links : links[l].tag \in DOMAIN tags
        /\ Len(tags) <= MaxTags /\ Len(links) <= MaxLinks
    BY DEF TagInv, Tag!TypeOK
  <1>5. /\ DOMAIN tags = 1..Len(tags) /\ DOMAIN links = 1..Len(links)
        /\ Len(tags) \in Nat /\ Len(links) \in Nat
    BY <1>4, LenProperties
  <1>6. \A l \in DOMAIN links : links[l] \in Tag!Link
    BY <1>4, <1>5, ElementOfSeq
  <1>7. Len(tags) \in 0..MaxTags /\ Len(links) \in 0..MaxLinks
    BY <1>4, <1>5 DEF TagConstants
  <1>8. QED
    BY <1>1, <1>2, <1>3, <1>4, <1>5, <1>6, <1>7

\* A statement that writes no row.
LEMMA TagReads ==
    ASSUME TagConstants, TagInv, UNCHANGED <<tags, links>>, NEW o
    PROVE  TagWrites(o)
  <1>1. /\ tags \in Seq(Names) /\ links \in Seq(Tag!Link)
        /\ Len(tags) <= MaxTags /\ Len(links) <= MaxLinks
        /\ Len(tags) \in Nat /\ Len(links) \in Nat
    BY LenProperties DEF TagInv, Tag!TypeOK
  <1>2. Len(tags) <= Len(tags) /\ Len(links) <= Len(links)
    BY <1>1
  <1>3. QED
    BY <1>1, <1>2 DEF TagWrites

\* What a statement that activates or deactivates links does to them.
Switched(S, a) ==
    /\ DOMAIN links' = DOMAIN links
    /\ \A l \in DOMAIN links :
          /\ links'[l].owner = links[l].owner /\ links'[l].tag = links[l].tag
          /\ links'[l].active = IF l \in S THEN a ELSE links[l].active

\* Only links of the owner are touched.
LEMMA TagSwitches ==
    ASSUME TagConstants, TagInv, NEW h \in Handlers, tagTxn[h].stage # "idle",
           NEW o \in Owners, o = tagTxn[h].owner,
           NEW S \in SUBSET Tag!LinksOf(o), NEW a \in BOOLEAN,
           Tag!SetActive(S, a), UNCHANGED tags
    PROVE  TagWrites(o) /\ Switched(S, a)
  <1>1. /\ tags \in Seq(Names) /\ links \in Seq(Tag!Link)
        /\ DOMAIN links = 1..Len(links)
        /\ Len(tags) \in 0..MaxTags /\ Len(links) \in 0..MaxLinks
        /\ \A l \in DOMAIN links : links[l] \in Tag!Link
    BY TagHandler
  <1>2. ASSUME NEW l \in DOMAIN links
        PROVE  /\ links'[l].owner = links[l].owner /\ links'[l].tag = links[l].tag
               /\ links'[l].active = IF l \in S THEN a ELSE links[l].active
               /\ links'[l] \in Tag!Link
               /\ links[l].owner # o => links'[l] = links[l]
    <2>1. PICK k \in Tag!Link : k = links[l]
      BY <1>1
    <2>2. links'[l] = IF l \in S THEN [k EXCEPT !.active = a] ELSE k
      BY <2>1 DEF Tag!SetActive
    <2>3. l \in S => links[l].owner = o
      BY DEF Tag!LinksOf
    <2>4. [k EXCEPT !.active = a] \in Tag!Link
      BY DEF Tag!Link
    <2>5. /\ [k EXCEPT !.active = a].owner = k.owner
          /\ [k EXCEPT !.active = a].tag = k.tag
          /\ [k EXCEPT !.active = a].active = a
      BY DEF Tag!Link
    <2>6. QED
      BY <2>1, <2>2, <2>3, <2>4, <2>5
  <1>3. DOMAIN links' = DOMAIN links
    BY DEF Tag!SetActive
  <1>4. links' \in Seq(Tag!Link) /\ Len(links') = Len(links)
    <2>1. links' \in [1..Len(links) -> Tag!Link]
      BY <1>1, <1>2, <1>3 DEF Tag!SetActive
    <2>2. Len(links) \in Nat
      BY <1>1
    <2>3. links' \in Seq(Tag!Link)
      BY <2>1, <2>2, SeqDef
    <2>4. QED
      BY <2>1, <2>2, <2>3, LenProperties
  <1>5. TagWrites(o)
    <2>1. /\ Len(tags) <= Len(tags) /\ Len(links) <= Len(links)
          /\ Len(tags) <= MaxTags /\ Len(links) <= MaxLinks
      BY <1>1 DEF TagConstants
    <2>2. QED
      BY <1>1, <1>2, <1>3, <1>4, <2>1 DEF TagWrites
  <1>6. QED
    BY <1>2, <1>3, <1>5 DEF Switched

\* The end of a request, with what it made its owner show.
LEMMA TagFinish ==
    ASSUME TagConstants, TagInv, NEW h \in Handlers, NEW from, from # "idle",
           Tag!Finish(h, from), TagWrites(tagTxn[h].owner),
           NEW o \in Owners, o = tagTxn[h].owner,
           tagTxn[h].alone => tagTxn[h].names \subseteq Tag!ShownNames(o)'
    PROVE  TagInv'
  <1>1. PICK t \in Tag!Transaction : t = tagTxn[h]
    BY TagHandler DEF Tag!Finish, Tag!Step
  <1>2. o = t.owner
    BY <1>1
  <1>3. PICK next \in Tag!Transaction : next = Tag!Idle
    BY DEF Tag!Transaction, Tag!Idle
  <1>4. /\ next.owner = None /\ next.alone = FALSE /\ next.tags = {} /\ next.links = {}
        /\ next.inactive = {} /\ next.stage = "idle"
    BY <1>3 DEF Tag!Idle
  <1>5. TagRecord(next)'
    BY <1>3, <1>4 DEF TagRecord, Tag!Idle
  <1>6. tagTxn' = [tagTxn EXCEPT ![h] = next]
    BY <1>3 DEF Tag!Finish, Tag!Step
  <1>7. PICK v \in Tag!Asked :
           v = [names |-> t.names \union t.others, all |-> t.alone]
    BY DEF Tag!Transaction, Tag!Asked
  <1>8. v.names = t.names \union t.others /\ v.all = t.alone
    BY <1>7
  <1>9. /\ asked' \in [Owners -> Tag!Asked]
        /\ \A q \in Owners \ {o} : asked'[q] = asked[q]
        /\ asked'[o] = v
    <2>1. asked' = [asked EXCEPT ![o] = v] /\ asked \in [Owners -> Tag!Asked]
      BY <1>1, <1>2, <1>7 DEF Tag!Finish, TagInv, Tag!TypeOK
    <2>2. QED
      BY <2>1
  <1>10. next.owner \in {o, None} /\ next.owner # o
    BY <1>4 DEF TagConstants
  <1>11. ASSUME asked'[o].all
         PROVE  /\ tagTxn[h].alone /\ next.owner # o
                /\ asked'[o].names \subseteq Tag!ShownNames(o)'
    <2>1. t.alone
      BY <1>8, <1>9, <1>11
    <2>2. t.others = {}
      BY <1>1, <2>1 DEF TagInv
    <2>3. QED
      BY <1>1, <1>2, <1>8, <1>9, <1>10, <2>1, <2>2
  <1>12. /\ tagTxn[h].owner = o /\ TagWrites(o)
         /\ next.alone =>
                tagTxn[h].alone /\ next.owner = o /\ next.others = {} /\ Synced(next)'
    BY <1>1, <1>2, <1>4
  <1>13. QED
    BY <1>4, <1>5, <1>6, <1>9, <1>10, <1>11, <1>12, TagAfter

\* A request without names leaves nothing active.
LEMMA TagClear ==
    ASSUME TagConstants, TagInv, NEW h \in Handlers, Tag!Clear(h)
    PROVE  TagInv'
  <1>1. tagTxn[h].stage = "clearing" /\ tagTxn[h].stage # "idle"
    BY DEF Tag!Clear, Tag!Finish, Tag!Step
  <1>2. PICK o \in Owners : o = tagTxn[h].owner
    BY <1>1, TagHandler
  <1>3. /\ Tag!SetActive(Tag!ActiveOf(o), FALSE) /\ UNCHANGED tags
        /\ Tag!Finish(h, "clearing")
    BY <1>2 DEF Tag!Clear
  <1>4. PICK S \in SUBSET Tag!LinksOf(o) : S = Tag!ActiveOf(o)
    BY DEF Tag!ActiveOf
  <1>5. /\ TagWrites(o) /\ DOMAIN links' = DOMAIN links
        /\ \A l \in DOMAIN links :
              /\ links'[l].owner = links[l].owner
              /\ links'[l].active = IF l \in S THEN FALSE ELSE links[l].active
    <2>1. TagWrites(o) /\ Switched(S, FALSE)
      BY <1>1, <1>2, <1>3, <1>4, TagSwitches, Zenon
    <2>2. QED
      BY <2>1 DEF Switched
  <1>6. Tag!ActiveOf(o)' = {}
    BY <1>4, <1>5 DEF Tag!ActiveOf, Tag!LinksOf
  <1>7. tagTxn[h].names = {}
    BY <1>1, TagHandler DEF TagRecord
  <1>8. Tag!ShownNames(o)' = {}
    BY <1>6 DEF Tag!ShownNames, Tag!TagsOf
  <1>9. QED
    BY <1>2, <1>3, <1>5, <1>7, <1>8, TagFinish


\* A step within a request: which owner it is and what it has not yet answered.
LEMMA TagGoesOn ==
    ASSUME TagConstants, TagInv, NEW h \in Handlers, tagTxn[h].stage # "idle",
           NEW next \in Tag!Transaction, tagTxn' = [tagTxn EXCEPT ![h] = next],
           UNCHANGED asked, TagWrites(tagTxn[h].owner),
           next.owner = tagTxn[h].owner, next.alone = tagTxn[h].alone,
           next.others = tagTxn[h].others,
           TagRecord(next)', next.alone => Synced(next)'
    PROVE  TagInv'
  <1>1. PICK o \in Owners : o = tagTxn[h].owner
    BY TagHandler
  <1>2. /\ asked' \in [Owners -> Tag!Asked]
        /\ \A q \in Owners \ {o} : asked'[q] = asked[q]
        /\ ~asked'[o].all
    BY <1>1, TagHandler
  <1>3. next.owner \in {o, None} /\ next.owner = o /\ TagWrites(o)
    BY <1>1
  <1>4. next.alone =>
            tagTxn[h].alone /\ next.owner = o /\ next.others = {} /\ Synced(next)'
    BY <1>3, TagHandler
  <1>5. QED
    BY <1>1, <1>2, <1>3, <1>4, TagAfter

\* The tags that have one of these names.
LEMMA TagFindTags ==
    ASSUME TagConstants, TagInv, NEW h \in Handlers, Tag!FindTags(h)
    PROVE  TagInv'
  <1>1. tagTxn[h].stage = "finding" /\ UNCHANGED <<tags, links, asked>>
    BY DEF Tag!FindTags, Tag!Step
  <1>2. PICK t \in Tag!Transaction : t = tagTxn[h]
    BY <1>1, TagHandler
  <1>3. t.owner \in Owners /\ TagRecord(t) /\ t.stage = "finding" /\ DOMAIN tags \subseteq 1..MaxTags
    BY <1>1, <1>2, TagHandler, TagRows, TagReads
  <1>4. Tag!Named(t.names) \in SUBSET (1..MaxTags)
    BY <1>3 DEF Tag!Named
  <1> DEFINE found == Tag!Named(t.names)
             next == [t EXCEPT !.stage = IF t.names \subseteq {tags[i] : i \in found}
                                         THEN "linking" ELSE "creating",
                               !.tags = found]
  <1>5. /\ next \in Tag!Transaction /\ next.tags = found
        /\ next.owner = t.owner /\ next.alone = t.alone /\ next.others = t.others
        /\ next.names = t.names /\ next.links = t.links /\ next.inactive = t.inactive
        /\ next.stage \in {"linking", "creating"}
        /\ next.stage = "linking" => t.names \subseteq {tags[i] : i \in found}
    BY <1>4 DEF Tag!Transaction
  <1>6. tagTxn' = [tagTxn EXCEPT ![h] = next]
    BY <1>2 DEF Tag!FindTags, Tag!Step
  <1>7. found \subseteq DOMAIN tags /\ \A i \in found : Tag!Like(tags[i], t.names)
    BY DEF Tag!Named
  <1> HIDE DEF next
  <1>8. TagRecord(next)
    <2>1. next.stage = "linking" => \A n \in next.names : \E i \in next.tags : tags[i] = n
      BY <1>5
    <2>2. t.tags = {} /\ t.inactive \subseteq Tag!LinksOf(t.owner) /\ t.inactive = {}
      BY <1>3 DEF TagRecord
    <2>3. QED
      BY <1>3, <1>5, <1>7, <2>1, <2>2 DEF TagRecord
  <1>9. Synced(next)
    BY <1>5 DEF Synced
  <1>10. PICK n \in Tag!Transaction : n = next
    BY <1>5
  <1>11. TagRecord(n)' /\ Synced(n)'
    BY <1>1, <1>8, <1>9, <1>10
       DEF TagRecord, Synced, Tag!LinksOf, Tag!ActiveOf
  <1>12. QED
    BY <1>1, <1>2, <1>5, <1>6, <1>10, <1>11, TagGoesOn, TagReads

\* The links of the owner to the tags of its request.
LEMMA TagFindLinks ==
    ASSUME TagConstants, TagInv, NEW h \in Handlers, Tag!FindLinks(h)
    PROVE  TagInv'
  <1>1. tagTxn[h].stage = "linking" /\ UNCHANGED <<tags, links, asked>>
    BY DEF Tag!FindLinks, Tag!Step
  <1>2. PICK t \in Tag!Transaction : t = tagTxn[h]
    BY <1>1, TagHandler
  <1>3. t.owner \in Owners /\ TagRecord(t) /\ t.stage = "linking" /\ DOMAIN links \subseteq 1..MaxLinks
    BY <1>1, <1>2, TagHandler, TagRows, TagReads
  <1>4. PICK S \in SUBSET (1..MaxLinks) :
           S = {l \in Tag!LinksOf(t.owner) : links[l].tag \in t.tags}
    BY <1>3 DEF Tag!LinksOf
  <1>5. PICK next \in Tag!Transaction :
           /\ tagTxn' = [tagTxn EXCEPT ![h] = next]
           /\ next.owner = t.owner /\ next.alone = t.alone /\ next.names = t.names
           /\ next.others = t.others /\ next.inactive = S \ Tag!ActiveOf(t.owner)
           /\ next.stage = "inserting" /\ next.tags = t.tags /\ next.links = S
    <2> DEFINE next == [t EXCEPT !.stage = "inserting", !.links = S,
                                 !.inactive = S \ Tag!ActiveOf(t.owner)]
    <2>1. /\ next \in Tag!Transaction /\ next.links = S
          /\ next.owner = t.owner /\ next.alone = t.alone /\ next.names = t.names
          /\ next.others = t.others /\ next.inactive = S \ Tag!ActiveOf(t.owner)
          /\ next.stage = "inserting" /\ next.tags = t.tags
      BY DEF Tag!Transaction
    <2>2. tagTxn' = [tagTxn EXCEPT ![h] = next]
      BY <1>2, <1>4 DEF Tag!FindLinks, Tag!Step
    <2> HIDE DEF next
    <2>3. QED
      BY <2>1, <2>2
  <1>6. TagRecord(next)
    BY <1>3, <1>4, <1>5 DEF TagRecord
  <1>7. Synced(next)
    BY <1>5 DEF Synced
  <1>8. TagRecord(next)' /\ Synced(next)'
    BY <1>1, <1>6, <1>7 DEF TagRecord, Synced, Tag!LinksOf, Tag!ActiveOf
  <1>9. QED
    BY <1>1, <1>2, <1>5, <1>8, TagGoesOn, TagReads

\* The active links to other tags; every tag of the request has an active one.
LEMMA TagFindActive ==
    ASSUME TagConstants, TagInv, NEW h \in Handlers, Tag!FindActive(h)
    PROVE  TagInv'
  <1>1. tagTxn[h].stage = "listing" /\ UNCHANGED <<tags, links, asked>>
    BY DEF Tag!FindActive, Tag!Step
  <1>2. PICK t \in Tag!Transaction : t = tagTxn[h]
    BY <1>1, TagHandler
  <1>3. /\ t.owner \in Owners /\ TagRecord(t) /\ t.stage = "listing"
        /\ t.alone => Synced(t)
        /\ DOMAIN links \subseteq 1..MaxLinks
    BY <1>1, <1>2, TagHandler, TagRows, TagReads
  <1>4. PICK S \in SUBSET (1..MaxLinks) :
           S = {l \in Tag!ActiveOf(t.owner) : links[l].tag \notin t.tags}
    BY <1>3 DEF Tag!LinksOf, Tag!ActiveOf
  <1>5. PICK next \in Tag!Transaction :
           /\ tagTxn' = [tagTxn EXCEPT ![h] = next]
           /\ next.owner = t.owner /\ next.alone = t.alone /\ next.names = t.names
           /\ next.others = t.others /\ next.inactive = t.inactive
           /\ next.stage = "deactivating" /\ next.tags = t.tags /\ next.links = S
    <2> DEFINE next == [t EXCEPT !.stage = "deactivating", !.links = S]
    <2>1. /\ next \in Tag!Transaction /\ next.links = S
          /\ next.owner = t.owner /\ next.alone = t.alone /\ next.names = t.names
          /\ next.others = t.others /\ next.inactive = t.inactive
          /\ next.stage = "deactivating" /\ next.tags = t.tags
      BY DEF Tag!Transaction
    <2>2. tagTxn' = [tagTxn EXCEPT ![h] = next]
      BY <1>2, <1>4 DEF Tag!FindActive, Tag!Step
    <2> HIDE DEF next
    <2>3. QED
      BY <2>1, <2>2
  <1>6. TagRecord(next)
    BY <1>3, <1>4, <1>5 DEF TagRecord, Tag!ActiveOf
  <1>7. next.alone => Synced(next)
    BY <1>3, <1>4, <1>5 DEF Synced
  <1>8. TagRecord(next)' /\ (next.alone => Synced(next)')
    BY <1>1, <1>6, <1>7 DEF TagRecord, Synced, Tag!LinksOf, Tag!ActiveOf
  <1>9. QED
    BY <1>1, <1>2, <1>5, <1>8, TagGoesOn, TagReads


\* Rows written behind those of a table.
LEMMA Appended ==
    ASSUME NEW T, NEW r \in Seq(T), NEW s \in Seq(T)
    PROVE  /\ r \o s \in Seq(T) /\ Len(r \o s) = Len(r) + Len(s)
           /\ DOMAIN (r \o s) = 1..(Len(r) + Len(s))
           /\ \A i \in 1..Len(r) : (r \o s)[i] = r[i]
           /\ \A n \in 1..Len(s) : (r \o s)[Len(r) + n] = s[n]
  <1>1. Len(r) \in Nat /\ Len(s) \in Nat
    BY LenProperties
  <1>2. /\ r \o s \in Seq(T) /\ Len(r \o s) = Len(r) + Len(s)
        /\ \A i \in 1..(Len(r) + Len(s)) :
              (r \o s)[i] = IF i <= Len(r) THEN r[i] ELSE s[i - Len(r)]
    BY ConcatProperties
  <1>3. DOMAIN (r \o s) = 1..(Len(r) + Len(s))
    BY <1>2, LenProperties
  <1>4. ASSUME NEW i \in 1..Len(r)
        PROVE  (r \o s)[i] = r[i]
    <2>1. i \in 1..(Len(r) + Len(s)) /\ i <= Len(r)
      BY <1>1
    <2>2. QED
      BY <1>2, <2>1
  <1>5. ASSUME NEW n \in 1..Len(s)
        PROVE  (r \o s)[Len(r) + n] = s[n]
    <2>1. /\ Len(r) + n \in 1..(Len(r) + Len(s)) /\ ~(Len(r) + n <= Len(r))
          /\ Len(r) + n - Len(r) = n
      BY <1>1
    <2>2. QED
      BY <1>2, <2>1
  <1>6. QED
    BY <1>2, <1>3, <1>4, <1>5

\* The tags a handler has created: one for each of the names that had none.
TagsMade(h, new) ==
    LET t == tagTxn[h]
        missing == t.names \ {tags[i] : i \in t.tags} IN
    /\ new \intersect DOMAIN tags = {} /\ DOMAIN tags' = DOMAIN tags \union new
    /\ \A i \in DOMAIN tags : tags'[i] = tags[i]
    /\ \A i \in new : tags'[i] \in missing
    /\ \A x \in missing : \E i \in new : tags'[i] = x
    /\ \A i, j \in new : tags'[i] = tags'[j] => i = j
    /\ tagTxn' = [tagTxn EXCEPT ![h] = [t EXCEPT !.stage = "linking", !.tags = t.tags \union new]]
    /\ TagWrites(t.owner)

LEMMA TagMakesTags ==
    ASSUME TagConstants, TagInv, NEW h \in Handlers, Tag!CreateTags(h)
    PROVE  \E new \in SUBSET (1..MaxTags) : TagsMade(h, new)
  <1>1. tagTxn[h].stage = "creating" /\ UNCHANGED <<links, asked>>
    BY DEF Tag!CreateTags, Tag!Step
  <1>2. PICK t \in Tag!Transaction : t = tagTxn[h]
    BY <1>1, TagHandler
  <1>3. /\ t.owner \in Owners /\ TagRecord(t) /\ t.stage = "creating"
        /\ tags \in Seq(Names) /\ links \in Seq(Tag!Link)
        /\ DOMAIN tags = 1..Len(tags) /\ Len(tags) \in Nat
        /\ Len(links) \in Nat /\ Len(links) <= MaxLinks
        /\ t.names \in SUBSET Names
    BY <1>1, <1>2, TagHandler DEF TagConstants, Tag!Transaction
  <1>4. PICK missing \in SUBSET Names : missing = t.names \ {tags[i] : i \in t.tags}
    BY <1>3
  <1>5. PICK s : s = Tag!SetToSeq(missing)
    OBVIOUS
  <1>6. IsFiniteSet(missing)
    BY FS_Subset DEF TagConstants
  <1>7. PICK c \in Nat : c = Cardinality(missing)
    BY <1>6, FS_CardinalityType
  <1>8. /\ s \in Seq(Names) /\ Len(s) = c
        /\ \A n \in 1..c : s[n] \in missing
        /\ \A m, n \in 1..c : s[m] = s[n] => m = n
        /\ \A x \in missing : \E n \in 1..c : s[n] = x
    BY <1>5, <1>6, <1>7, TagSequence
  <1>9. /\ tags' = tags \o s /\ Len(tags) + c <= MaxTags
        /\ tagTxn' = [tagTxn EXCEPT ![h] =
               [t EXCEPT !.stage = "linking", !.tags = t.tags \union (Len(tags) + 1)..Len(tags')]]
    <2>1. Tag!Cardinality(missing) = Cardinality(missing)
      BY DEF Tag!Cardinality, Cardinality
    <2>2. QED
      BY <1>2, <1>4, <1>5, <1>7, <2>1 DEF Tag!CreateTags, Tag!Step
  <1>10. /\ tags' \in Seq(Names) /\ Len(tags') = Len(tags) + c
         /\ DOMAIN tags' = 1..(Len(tags) + c)
         /\ \A i \in 1..Len(tags) : tags'[i] = tags[i]
         /\ \A n \in 1..c : tags'[Len(tags) + n] = s[n]
    <2>1. /\ tags \o s \in Seq(Names) /\ Len(tags \o s) = Len(tags) + Len(s)
          /\ DOMAIN (tags \o s) = 1..(Len(tags) + Len(s))
          /\ \A i \in 1..Len(tags) : (tags \o s)[i] = tags[i]
          /\ \A n \in 1..Len(s) : (tags \o s)[Len(tags) + n] = s[n]
      <3>1. tags \in Seq(Names) /\ s \in Seq(Names)
        BY <1>3, <1>8
      <3>2. tags \o s \in Seq(Names) /\ Len(tags \o s) = Len(tags) + Len(s)
        BY <3>1, Appended
      <3>3. DOMAIN (tags \o s) = 1..(Len(tags) + Len(s))
        BY <3>1, Appended
      <3>4. \A i \in 1..Len(tags) : (tags \o s)[i] = tags[i]
        BY <3>1, Appended
      <3>5. \A n \in 1..Len(s) : (tags \o s)[Len(tags) + n] = s[n]
        BY <3>1, Appended
      <3>6. QED
        BY <3>2, <3>3, <3>4, <3>5
    <2>2. tags' = tags \o s /\ Len(s) = c
      BY <1>8, <1>9
    <2>3. QED
      BY <2>1, <2>2
  <1>11. PICK new \in SUBSET (1..MaxTags) : new = (Len(tags) + 1)..Len(tags')
    BY <1>3, <1>9, <1>10 DEF TagConstants
  <1>12. \A i \in new : i \in DOMAIN tags' /\ tags'[i] \in missing
    <2>1. ASSUME NEW i \in new
          PROVE  i \in DOMAIN tags' /\ tags'[i] \in missing
      <3>1. PICK n \in 1..c : i = Len(tags) + n
        <4>1. i - Len(tags) \in 1..c /\ i = Len(tags) + (i - Len(tags))
          BY <1>3, <1>10, <1>11
        <4>2. QED
          BY <4>1
      <3>2. tags'[i] = s[n] /\ s[n] \in missing
        BY <1>8, <1>10, <3>1
      <3>3. i \in 1..(Len(tags) + c)
        BY <1>3, <3>1
      <3>4. QED
        BY <1>10, <3>2, <3>3
    <2>2. QED
      BY <2>1
  <1>13. \A x \in missing : \E i \in new : tags'[i] = x
    <2>1. ASSUME NEW x \in missing
          PROVE  \E i \in new : tags'[i] = x
      <3>1. PICK n \in 1..c : s[n] = x
        BY <1>8
      <3>2. Len(tags) + n \in new
        BY <1>3, <1>10, <1>11
      <3>3. QED
        BY <1>10, <3>1, <3>2
    <2>2. QED
      BY <2>1
  <1>14. TagWrites(t.owner)
    <2>1. Len(tags) <= Len(tags') /\ Len(tags') <= MaxTags /\ Len(links) <= Len(links)
      BY <1>3, <1>9, <1>10 DEF TagConstants
    <2>2. QED
      BY <1>1, <1>3, <1>10, <2>1 DEF TagWrites
  <1>15. ASSUME NEW i \in new, NEW j \in new, tags'[i] = tags'[j]
         PROVE  i = j
    <2>1. i - Len(tags) \in 1..c /\ j - Len(tags) \in 1..c
      BY <1>3, <1>10, <1>11
    <2>2. i = Len(tags) + (i - Len(tags)) /\ j = Len(tags) + (j - Len(tags))
      BY <1>3, <1>10, <1>11
    <2>3. s[i - Len(tags)] = s[j - Len(tags)]
      BY <1>10, <1>15, <2>1, <2>2
    <2>4. i - Len(tags) = j - Len(tags)
      BY <1>8, <2>1, <2>3
    <2>5. QED
      BY <2>2, <2>4
  <1>16. new \intersect DOMAIN tags = {} /\ DOMAIN tags' = DOMAIN tags \union new
    BY <1>3, <1>10, <1>11
  <1>17. tagTxn' = [tagTxn EXCEPT ![h] =
             [tagTxn[h] EXCEPT !.stage = "linking", !.tags = tagTxn[h].tags \union new]]
    BY <1>2, <1>9, <1>11
  <1>18. QED
    BY <1>2, <1>3, <1>4, <1>10, <1>12, <1>13, <1>14, <1>15, <1>16, <1>17 DEF TagsMade

\* The names that had no tag get one each.
LEMMA TagCreateTags ==
    ASSUME TagConstants, TagInv, NEW h \in Handlers, Tag!CreateTags(h)
    PROVE  TagInv'
  <1>1. tagTxn[h].stage = "creating" /\ UNCHANGED <<links, asked>>
    BY DEF Tag!CreateTags, Tag!Step
  <1>2. PICK t \in Tag!Transaction : t = tagTxn[h]
    BY <1>1, TagHandler
  <1>3. t.owner \in Owners /\ TagRecord(t) /\ t.stage = "creating"
    BY <1>1, <1>2, TagHandler
  <1>4. PICK missing \in SUBSET Names : missing = t.names \ {tags[i] : i \in t.tags}
    BY DEF Tag!Transaction
  <1>5. PICK new \in SUBSET (1..MaxTags) : TagsMade(h, new)
    BY TagMakesTags
  <1>6. /\ DOMAIN tags' = DOMAIN tags \union new
        /\ \A i \in DOMAIN tags : tags'[i] = tags[i]
        /\ \A i \in new : tags'[i] \in missing
        /\ \A x \in missing : \E i \in new : tags'[i] = x
        /\ tagTxn' = [tagTxn EXCEPT ![h] =
               [t EXCEPT !.stage = "linking", !.tags = t.tags \union new]]
        /\ TagWrites(t.owner)
    BY <1>2, <1>4, <1>5 DEF TagsMade
  <1>7. t.tags \in SUBSET (1..MaxTags)
    BY DEF Tag!Transaction
  <1>8. PICK next \in Tag!Transaction :
           /\ tagTxn' = [tagTxn EXCEPT ![h] = next]
           /\ next.owner = t.owner /\ next.alone = t.alone /\ next.names = t.names
           /\ next.others = t.others /\ next.inactive = t.inactive
           /\ next.stage = "linking" /\ next.tags = t.tags \union new /\ next.links = t.links
    <2> DEFINE next == [t EXCEPT !.stage = "linking", !.tags = t.tags \union new]
    <2>1. /\ next \in Tag!Transaction /\ next.links = t.links
          /\ next.owner = t.owner /\ next.alone = t.alone /\ next.names = t.names
          /\ next.others = t.others /\ next.inactive = t.inactive
          /\ next.stage = "linking" /\ next.tags = t.tags \union new
      BY <1>7 DEF Tag!Transaction
    <2>2. tagTxn' = [tagTxn EXCEPT ![h] = next]
      BY <1>6
    <2> HIDE DEF next
    <2>3. QED
      BY <2>1, <2>2
  <1>9. TagRecord(next)'
    <2>1. \A i \in t.tags :
              i \in DOMAIN tags' /\ tags'[i] = tags[i] /\ Tag!Like(tags[i], t.names)
      BY <1>3, <1>6 DEF TagRecord
    <2>2. \A n \in t.names : \E i \in t.tags \union new : tags'[i] = n
      <3>1. ASSUME NEW n \in t.names
            PROVE  \E i \in t.tags \union new : tags'[i] = n
        <4>1. CASE n \in missing
          BY <1>6, <4>1
        <4>2. CASE n \notin missing
          <5>1. PICK i \in t.tags : tags[i] = n
            BY <1>4, <4>2
          <5>2. QED
            BY <2>1, <5>1
        <4>3. QED
          BY <4>1, <4>2
      <3>2. QED
        BY <3>1
    <2>3. /\ next.tags \subseteq DOMAIN tags'
          /\ \A i \in next.tags : Tag!Like(tags'[i], next.names)
      <3>1. \A n \in t.names : Tag!Like(n, t.names)
        BY DEF Tag!Like
      <3>2. \A i \in t.tags : Tag!Like(tags'[i], t.names)
        BY <2>1
      <3>3. \A i \in new : Tag!Like(tags'[i], t.names)
        BY <1>4, <1>6, <3>1
      <3>4. next.names = t.names /\ next.tags = t.tags \union new
        BY <1>8
      <3>5. QED
        BY <1>6, <2>1, <3>2, <3>3, <3>4
    <2>4. next.links \subseteq Tag!LinksOf(next.owner)' /\ next.inactive = {}
      BY <1>1, <1>3, <1>8 DEF TagRecord, Tag!LinksOf
    <2>5. \A i \in next.tags : Tag!Like(tags[i], next.names)'
      BY <2>3 DEF Tag!Like
    <2>6. QED
      BY <1>3, <1>8, <2>2, <2>3, <2>4, <2>5 DEF TagRecord
  <1>10. Synced(next)'
    BY <1>8 DEF Synced
  <1>11. QED
    BY <1>1, <1>2, <1>6, <1>8, <1>9, <1>10, TagGoesOn

\* The links a handler has inserted: one for each of its tags that had none.
LinksMade(h, new) ==
    LET t == tagTxn[h]
        missing == t.tags \ Tag!TagsOf(t.links) IN
    /\ new \intersect DOMAIN links = {} /\ DOMAIN links' = DOMAIN links \union new
    /\ \A l \in DOMAIN links : links'[l] = links[l]
    /\ \A l \in new :
          links'[l].owner = t.owner /\ links'[l].tag \in missing /\ links'[l].active
    /\ \A i \in missing : \E l \in new : links'[l].tag = i
    /\ \A k, l \in new : links'[k].tag = links'[l].tag => k = l
    /\ tagTxn' = [tagTxn EXCEPT ![h] = [t EXCEPT !.stage = "activating"]]
    /\ TagWrites(t.owner)

LEMMA TagMakesLinks ==
    ASSUME TagConstants, TagInv, NEW h \in Handlers, Tag!InsertLinks(h)
    PROVE  \E new \in SUBSET (1..MaxLinks) : LinksMade(h, new)
  <1>1. tagTxn[h].stage = "inserting" /\ UNCHANGED <<tags, asked>>
    BY DEF Tag!InsertLinks, Tag!Step
  <1>2. PICK t \in Tag!Transaction : t = tagTxn[h]
    BY <1>1, TagHandler
  <1>3. /\ t.owner \in Owners /\ TagRecord(t) /\ t.stage = "inserting"
        /\ tags \in Seq(Names) /\ links \in Seq(Tag!Link)
        /\ DOMAIN links = 1..Len(links) /\ Len(links) \in Nat /\ Len(tags) \in Nat
        /\ Len(tags) <= MaxTags
        /\ t.tags \in SUBSET (1..MaxTags) /\ t.tags \subseteq DOMAIN tags
    BY <1>1, <1>2, TagHandler DEF TagConstants, TagRecord, Tag!Transaction
  <1>4. PICK missing \in SUBSET (1..MaxTags) : missing = t.tags \ Tag!TagsOf(t.links)
    BY <1>3
  <1> DEFINE Row(i) == [owner |-> t.owner, tag |-> i, active |-> TRUE]
  <1>5. PICK rows \in SUBSET Tag!Link : rows = {Row(i) : i \in missing}
    <2>1. \A i \in missing : Row(i) \in Tag!Link
      BY <1>3 DEF Tag!Link
    <2>2. QED
      BY <2>1
  <1>6. PICK s : s = Tag!SetToSeq(rows)
    OBVIOUS
  <1>7. /\ IsFiniteSet(missing) /\ IsFiniteSet(rows)
        /\ Cardinality(rows) <= Cardinality(missing)
        /\ Cardinality(missing) \in Nat
    <2>1. IsFiniteSet(missing)
      <3>1. IsFiniteSet(1..MaxTags)
        BY FS_Interval DEF TagConstants
      <3>2. QED
        BY <3>1, FS_Subset
    <2>2. PICK f : f = [i \in missing |-> Row(i)]
      OBVIOUS
    <2>3. f \in Surjection(missing, rows)
      BY <1>5, <2>2 DEF Surjection
    <2>4. QED
      BY <2>1, <2>3, FS_Surjection, FS_CardinalityType
  <1>8. PICK c \in Nat : c = Cardinality(rows)
    BY <1>7, FS_CardinalityType
  <1>9. /\ s \in Seq(Tag!Link) /\ Len(s) = c
        /\ \A n \in 1..c : s[n] \in rows
        /\ \A m, n \in 1..c : s[m] = s[n] => m = n
        /\ \A x \in rows : \E n \in 1..c : s[n] = x
    BY <1>6, <1>7, <1>8, TagSequence
  <1>10. /\ links' = links \o s /\ Len(links) + c <= MaxLinks
         /\ tagTxn' = [tagTxn EXCEPT ![h] = [t EXCEPT !.stage = "activating"]]
    <2>1. Tag!Cardinality(missing) = Cardinality(missing)
      BY DEF Tag!Cardinality, Cardinality
    <2>2. /\ links' = links \o s /\ Len(links) + Cardinality(missing) <= MaxLinks
          /\ tagTxn' = [tagTxn EXCEPT ![h] = [t EXCEPT !.stage = "activating"]]
      BY <1>2, <1>4, <1>5, <1>6, <2>1 DEF Tag!InsertLinks, Tag!Step
    <2>3. QED
      BY <1>3, <1>7, <1>8, <2>2 DEF TagConstants
  <1>11. /\ links' \in Seq(Tag!Link) /\ Len(links') = Len(links) + c
         /\ DOMAIN links' = 1..(Len(links) + c)
         /\ \A i \in 1..Len(links) : links'[i] = links[i]
         /\ \A n \in 1..c : links'[Len(links) + n] = s[n]
    <2>1. /\ links \o s \in Seq(Tag!Link) /\ Len(links \o s) = Len(links) + Len(s)
          /\ DOMAIN (links \o s) = 1..(Len(links) + Len(s))
          /\ \A i \in 1..Len(links) : (links \o s)[i] = links[i]
          /\ \A n \in 1..Len(s) : (links \o s)[Len(links) + n] = s[n]
      <3>1. links \in Seq(Tag!Link) /\ s \in Seq(Tag!Link)
        BY <1>3, <1>9
      <3>2. links \o s \in Seq(Tag!Link) /\ Len(links \o s) = Len(links) + Len(s)
        BY <3>1, Appended
      <3>3. DOMAIN (links \o s) = 1..(Len(links) + Len(s))
        BY <3>1, Appended
      <3>4. \A i \in 1..Len(links) : (links \o s)[i] = links[i]
        BY <3>1, Appended
      <3>5. \A n \in 1..Len(s) : (links \o s)[Len(links) + n] = s[n]
        BY <3>1, Appended
      <3>6. QED
        BY <3>2, <3>3, <3>4, <3>5
    <2>2. links' = links \o s /\ Len(s) = c
      BY <1>9, <1>10
    <2>3. QED
      BY <2>1, <2>2
  <1>12. ASSUME NEW l \in DOMAIN links', l \notin DOMAIN links
         PROVE  /\ links'[l].owner = t.owner /\ links'[l].tag \in missing
                /\ links'[l].active
    <2>1. PICK n \in 1..c : l = Len(links) + n
      <3>1. l - Len(links) \in 1..c /\ l = Len(links) + (l - Len(links))
        BY <1>3, <1>11, <1>12
      <3>2. QED
        BY <3>1
    <2>2. links'[l] \in rows
      BY <1>9, <1>11, <2>1
    <2>3. PICK i \in missing : links'[l] = Row(i)
      BY <1>5, <2>2
    <2>4. QED
      BY <2>3
  <1>13. ASSUME NEW i \in missing
         PROVE  \E l \in DOMAIN links' \ DOMAIN links : links'[l].tag = i
    <2>1. Row(i) \in rows
      BY <1>5
    <2>2. PICK n \in 1..c : s[n] = Row(i)
      BY <1>9, <2>1
    <2>3. Len(links) + n \in DOMAIN links' \ DOMAIN links
      BY <1>3, <1>11
    <2>4. links'[Len(links) + n] = Row(i)
      BY <1>11, <2>2
    <2>5. QED
      BY <2>3, <2>4
  <1>14. DOMAIN links \subseteq DOMAIN links' /\ \A l \in DOMAIN links : links'[l] = links[l]
    BY <1>3, <1>11
  <1>15. TagWrites(t.owner)
    <2>1. /\ Len(links) <= Len(links') /\ Len(links') <= MaxLinks /\ Len(tags) <= Len(tags)
      BY <1>3, <1>10, <1>11 DEF TagConstants
    <2>2. \A l \in DOMAIN links' : l \notin DOMAIN links =>
              links'[l].owner = t.owner /\ links'[l].tag \in DOMAIN tags'
      BY <1>1, <1>3, <1>4, <1>12
    <2>3. QED
      BY <1>1, <1>3, <1>11, <1>14, <2>1, <2>2 DEF TagWrites
  <1>16. PICK new \in SUBSET (1..MaxLinks) : new = DOMAIN links' \ DOMAIN links
    <2>1. Len(links) + c \in Nat /\ DOMAIN links' \ DOMAIN links \subseteq 1..(Len(links) + c)
      BY <1>3, <1>11
    <2>2. 1..(Len(links) + c) \subseteq 1..MaxLinks
      BY <1>10, <2>1 DEF TagConstants
    <2>3. QED
      BY <2>1, <2>2
  <1>17. ASSUME NEW k \in new, NEW l \in new, links'[k].tag = links'[l].tag
         PROVE  k = l
    <2>1. k - Len(links) \in 1..c /\ l - Len(links) \in 1..c
      BY <1>3, <1>11, <1>16
    <2>2. k = Len(links) + (k - Len(links)) /\ l = Len(links) + (l - Len(links))
      BY <1>3, <1>11, <1>16
    <2>3. /\ links'[k] = s[k - Len(links)] /\ links'[k] \in rows
          /\ links'[l] = s[l - Len(links)] /\ links'[l] \in rows
      <3>1. \A n \in 1..c : links'[Len(links) + n] = s[n] /\ s[n] \in rows
        BY <1>9, <1>11
      <3>2. QED
        BY <2>1, <2>2, <3>1
    <2>4. PICK i \in missing, j \in missing : links'[k] = Row(i) /\ links'[l] = Row(j)
      BY <1>5, <2>3
    <2>5. links'[k] = links'[l]
      BY <1>17, <2>4
    <2>6. k - Len(links) = l - Len(links)
      BY <1>9, <2>1, <2>3, <2>5
    <2>7. QED
      BY <2>2, <2>6
  <1>18. new \intersect DOMAIN links = {} /\ DOMAIN links' = DOMAIN links \union new
    BY <1>14, <1>16
  <1>19. /\ \A l \in new : /\ links'[l].owner = tagTxn[h].owner
                            /\ links'[l].tag \in missing /\ links'[l].active
         /\ \A i \in missing : \E l \in new : links'[l].tag = i
    BY <1>2, <1>12, <1>13, <1>16
  <1>20. /\ tagTxn' = [tagTxn EXCEPT ![h] = [tagTxn[h] EXCEPT !.stage = "activating"]]
         /\ TagWrites(tagTxn[h].owner)
    BY <1>2, <1>10, <1>15
  <1>21. missing = tagTxn[h].tags \ Tag!TagsOf(tagTxn[h].links)
    BY <1>2, <1>4
  <1>22. QED
    BY <1>14, <1>17, <1>18, <1>19, <1>20, <1>21 DEF LinksMade

\* A link for every tag of the request that had none.
LEMMA TagInsertLinks ==
    ASSUME TagConstants, TagInv, NEW h \in Handlers, Tag!InsertLinks(h)
    PROVE  TagInv'
  <1>1. tagTxn[h].stage = "inserting" /\ UNCHANGED <<tags, asked>>
    BY DEF Tag!InsertLinks, Tag!Step
  <1>2. PICK t \in Tag!Transaction : t = tagTxn[h]
    BY <1>1, TagHandler
  <1>3. t.owner \in Owners /\ TagRecord(t) /\ t.stage = "inserting"
    BY <1>1, <1>2, TagHandler
  <1>4. PICK missing : missing = t.tags \ Tag!TagsOf(t.links)
    OBVIOUS
  <1>5. PICK new \in SUBSET (1..MaxLinks) : LinksMade(h, new)
    BY TagMakesLinks
  <1>6. /\ DOMAIN links' = DOMAIN links \union new
        /\ \A l \in DOMAIN links : links'[l] = links[l]
        /\ \A l \in new :
              links'[l].owner = t.owner /\ links'[l].tag \in missing /\ links'[l].active
        /\ \A i \in missing : \E l \in new : links'[l].tag = i
        /\ tagTxn' = [tagTxn EXCEPT ![h] = [t EXCEPT !.stage = "activating"]]
        /\ TagWrites(t.owner)
    BY <1>2, <1>4, <1>5 DEF LinksMade
  <1>7. PICK next \in Tag!Transaction :
           /\ tagTxn' = [tagTxn EXCEPT ![h] = next]
           /\ next.owner = t.owner /\ next.alone = t.alone /\ next.names = t.names
           /\ next.others = t.others /\ next.inactive = t.inactive
           /\ next.stage = "activating" /\ next.tags = t.tags /\ next.links = t.links
    <2> DEFINE next == [t EXCEPT !.stage = "activating"]
    <2>1. /\ next \in Tag!Transaction /\ next.links = t.links
          /\ next.owner = t.owner /\ next.alone = t.alone /\ next.names = t.names
          /\ next.others = t.others /\ next.inactive = t.inactive
          /\ next.stage = "activating" /\ next.tags = t.tags
      BY DEF Tag!Transaction
    <2>2. tagTxn' = [tagTxn EXCEPT ![h] = next]
      BY <1>6
    <2> HIDE DEF next
    <2>3. QED
      BY <2>1, <2>2
  <1>8. TagRecord(next)'
    <2>1. /\ t.links \subseteq Tag!LinksOf(t.owner)'
          /\ t.inactive \subseteq Tag!LinksOf(t.owner)'
          /\ \A l \in t.inactive : links'[l].tag \in t.tags
      BY <1>3, <1>6 DEF TagRecord, Tag!LinksOf
    <2>2. \A i \in t.tags : Tag!Like(tags[i], t.names)'
      BY <1>1, <1>3 DEF TagRecord, Tag!Like
    <2>3. QED
      BY <1>1, <1>3, <1>7, <2>1, <2>2 DEF TagRecord
  <1>9. next.alone => Synced(next)'
    <2>1. ASSUME NEW i \in t.tags, t.alone
          PROVE  \/ \E l \in Tag!ActiveOf(t.owner)' : links'[l].tag = i
                 \/ \E l \in t.inactive : links'[l].tag = i
      <3>1. CASE i \in missing
        BY <1>6, <3>1 DEF Tag!ActiveOf, Tag!LinksOf
      <3>2. CASE i \notin missing
        <4>1. PICK l \in t.links : links[l].tag = i
          BY <1>4, <3>2 DEF Tag!TagsOf
        <4>2. l \in DOMAIN links
          BY <1>3 DEF TagRecord, Tag!LinksOf
        <4>3. l \in Tag!ActiveOf(t.owner) \/ l \in t.inactive
          BY <1>2, <1>3, <2>1, <4>1 DEF TagInv, Synced
        <4>4. l \in Tag!ActiveOf(t.owner) => l \in Tag!ActiveOf(t.owner)'
          BY <1>6, <4>2 DEF Tag!ActiveOf, Tag!LinksOf
        <4>5. QED
          BY <1>6, <4>1, <4>2, <4>3, <4>4
      <3>3. QED
        BY <3>1, <3>2
    <2>2. QED
      BY <1>7, <2>1 DEF Synced
  <1>10. QED
    BY <1>1, <1>2, <1>6, <1>7, <1>8, <1>9, TagGoesOn


\* The links found are activated: every tag of the request has an active one.
LEMMA TagActivate ==
    ASSUME TagConstants, TagInv, NEW h \in Handlers, Tag!Activate(h)
    PROVE  TagInv'
  <1>1. tagTxn[h].stage = "activating" /\ UNCHANGED <<tags, asked>>
    BY DEF Tag!Activate, Tag!Step
  <1>2. PICK t \in Tag!Transaction : t = tagTxn[h]
    BY <1>1, TagHandler
  <1>3. /\ t.owner \in Owners /\ TagRecord(t) /\ t.stage = "activating"
        /\ t.alone => Synced(t)
    BY <1>1, <1>2, TagHandler
  <1>4. PICK o \in Owners : o = t.owner /\ o = tagTxn[h].owner
    BY <1>2, <1>3
  <1>5. PICK S \in SUBSET Tag!LinksOf(o) : S = t.inactive
    BY <1>3, <1>4 DEF TagRecord
  <1>6. Tag!SetActive(S, TRUE)
    BY <1>2, <1>5 DEF Tag!Activate
  <1>7. /\ TagWrites(o) /\ DOMAIN links' = DOMAIN links
        /\ \A l \in DOMAIN links :
              /\ links'[l].owner = links[l].owner /\ links'[l].tag = links[l].tag
              /\ links'[l].active = IF l \in S THEN TRUE ELSE links[l].active
    <2>1. TagWrites(o) /\ Switched(S, TRUE)
      BY <1>1, <1>4, <1>6, <1>5, TagSwitches, Zenon
    <2>2. QED
      BY <2>1 DEF Switched
  <1>8. PICK next \in Tag!Transaction :
           /\ tagTxn' = [tagTxn EXCEPT ![h] = next]
           /\ next.owner = t.owner /\ next.alone = t.alone /\ next.names = t.names
           /\ next.others = t.others /\ next.inactive = t.inactive
           /\ next.stage = "listing" /\ next.tags = t.tags /\ next.links = t.links
    <2> DEFINE next == [t EXCEPT !.stage = "listing"]
    <2>1. /\ next \in Tag!Transaction /\ next.links = t.links
          /\ next.owner = t.owner /\ next.alone = t.alone /\ next.names = t.names
          /\ next.others = t.others /\ next.inactive = t.inactive
          /\ next.stage = "listing" /\ next.tags = t.tags
      BY DEF Tag!Transaction
    <2>2. tagTxn' = [tagTxn EXCEPT ![h] = next]
      BY <1>2 DEF Tag!Activate, Tag!Step
    <2> HIDE DEF next
    <2>3. QED
      BY <2>1, <2>2
  <1>9. TagRecord(next)'
    <2>1. /\ t.links \subseteq Tag!LinksOf(o)'
          /\ t.inactive \subseteq Tag!LinksOf(o)'
          /\ \A l \in t.inactive : links'[l].tag \in t.tags
      BY <1>3, <1>4, <1>7 DEF TagRecord, Tag!LinksOf
    <2>2. \A i \in t.tags : Tag!Like(tags[i], t.names)'
      BY <1>1, <1>3 DEF TagRecord, Tag!Like
    <2>3. QED
      BY <1>1, <1>3, <1>4, <1>8, <2>1, <2>2 DEF TagRecord
  <1>10. next.alone => Synced(next)'
    <2>0. (\A i \in t.tags : \E l \in Tag!ActiveOf(o)' : links'[l].tag = i) => Synced(next)'
      <3>1. PICK A : A = Tag!ActiveOf(o)'
        OBVIOUS
      <3>2. (\A i \in t.tags : \E l \in A : links'[l].tag = i) =>
                t.tags = {i \in t.tags : \E l \in A : links'[l].tag = i}
        OBVIOUS
      <3>3. next.tags = t.tags /\ next.owner = o /\ next.stage = "listing"
        BY <1>4, <1>8
      <3>4. QED
        BY <3>1, <3>2, <3>3 DEF Synced
    <2>1. SUFFICES ASSUME t.alone, NEW i \in t.tags
                   PROVE  \E l \in Tag!ActiveOf(o)' : links'[l].tag = i
      BY <1>8, <2>0
    <2>2. \/ \E l \in Tag!ActiveOf(o) : links[l].tag = i
          \/ \E l \in t.inactive : links[l].tag = i
      BY <1>3, <1>4, <2>1 DEF Synced
    <2>3. PICK l \in Tag!LinksOf(o) :
             links[l].tag = i /\ (l \in t.inactive \/ links[l].active)
      BY <1>5, <2>2 DEF Tag!ActiveOf
    <2>4. /\ l \in DOMAIN links /\ links[l].owner = o
      BY DEF Tag!LinksOf
    <2>5. l \in DOMAIN links' /\ links'[l].owner = o /\ links'[l].tag = i /\ links'[l].active
      BY <1>5, <1>7, <2>3, <2>4
    <2>6. QED
      BY <2>5 DEF Tag!ActiveOf, Tag!LinksOf
  <1>11. QED
    BY <1>1, <1>4, <1>2, <1>7, <1>8, <1>9, <1>10, TagGoesOn

\* What is left active are links to the tags of the request.
LEMMA TagDeactivate ==
    ASSUME TagConstants, TagInv, NEW h \in Handlers, Tag!Deactivate(h)
    PROVE  TagInv'
  <1>1. tagTxn[h].stage = "deactivating" /\ tagTxn[h].stage # "idle" /\ UNCHANGED tags
    BY DEF Tag!Deactivate, Tag!Finish, Tag!Step
  <1>2. PICK t \in Tag!Transaction : t = tagTxn[h]
    BY <1>1, TagHandler
  <1>3. PICK o \in Owners : o = t.owner /\ o = tagTxn[h].owner
    BY <1>1, <1>2, TagHandler
  <1>4. TagRecord(t) /\ t.stage = "deactivating" /\ (t.alone => Synced(t))
    BY <1>1, <1>2, TagHandler
  <1>5. PICK S \in SUBSET Tag!LinksOf(o) : S = t.links
    BY <1>3, <1>4 DEF TagRecord
  <1>6. Tag!SetActive(S, FALSE) /\ Tag!Finish(h, "deactivating")
    BY <1>2, <1>5 DEF Tag!Deactivate
  <1>7. /\ TagWrites(o) /\ DOMAIN links' = DOMAIN links
        /\ \A l \in DOMAIN links :
              /\ links'[l].owner = links[l].owner /\ links'[l].tag = links[l].tag
              /\ links'[l].active = IF l \in S THEN FALSE ELSE links[l].active
    <2>1. TagWrites(o) /\ Switched(S, FALSE)
      BY <1>1, <1>3, <1>5, <1>6, TagSwitches, Zenon
    <2>2. QED
      BY <2>1 DEF Switched
  <1>8. ASSUME t.alone
        PROVE  t.names \subseteq Tag!ShownNames(o)'
    <2>1. PICK A : A = Tag!ActiveOf(o)
      OBVIOUS
    <2>2. /\ t.tags = {i \in t.tags : \E l \in A : links[l].tag = i}
          /\ S = {l \in A : links[l].tag \notin t.tags}
      BY <1>3, <1>4, <1>5, <1>8, <2>1 DEF Synced
    <2>3. A \subseteq DOMAIN links /\ Tag!ActiveOf(o)' = A \ S
      BY <1>7, <2>1 DEF Tag!ActiveOf, Tag!LinksOf
    <2>4. \A l \in A \ S : links'[l].tag = links[l].tag /\ links[l].tag \in t.tags
      BY <1>7, <2>2, <2>3
    <2>5. \A i \in t.tags : \E l \in A \ S : links'[l].tag = i
      BY <1>7, <2>2, <2>3
    <2>6. Tag!TagsOf(A \ S)' = t.tags
      BY <2>4, <2>5 DEF Tag!TagsOf
    <2>7. Tag!ShownNames(o)' = {tags[i] : i \in t.tags}
      BY <1>1, <2>3, <2>4, <2>5 DEF Tag!ShownNames, Tag!TagsOf
    <2>8. \A n \in t.names : \E i \in t.tags : tags[i] = n
      BY <1>4 DEF TagRecord
    <2>9. QED
      BY <2>7, <2>8
  <1>9. tagTxn[h].alone => tagTxn[h].names \subseteq Tag!ShownNames(o)'
    BY <1>2, <1>8
  <1>10. QED
    BY <1>3, <1>6, <1>7, <1>9, TagFinish

\* A request cut short leaves what it wrote; nothing is known of its owner.
LEMMA TagInterrupt ==
    ASSUME TagConstants, TagInv, NEW h \in Handlers, Tag!Interrupt(h)
    PROVE  TagInv'
  <1>1. tagTxn[h].stage # "idle" /\ UNCHANGED <<tags, links, asked>>
        /\ tagTxn' = [tagTxn EXCEPT ![h] = Tag!Idle]
    BY DEF Tag!Interrupt
  <1>2. PICK o \in Owners : o = tagTxn[h].owner
    BY <1>1, TagHandler
  <1>3. PICK next \in Tag!Transaction : next = Tag!Idle
    BY DEF Tag!Transaction, Tag!Idle
  <1>4. /\ next.owner = None /\ next.alone = FALSE /\ next.tags = {} /\ next.links = {}
        /\ next.inactive = {} /\ next.stage = "idle"
    BY <1>3 DEF Tag!Idle
  <1>5. TagRecord(next)'
    BY <1>3, <1>4 DEF TagRecord, Tag!Idle
  <1>6. /\ asked' \in [Owners -> Tag!Asked]
        /\ \A q \in Owners \ {o} : asked'[q] = asked[q]
        /\ ~asked'[o].all
    BY <1>1, <1>2, TagHandler
  <1>7. TagWrites(o) /\ next.owner \in {o, None} /\ ~next.alone
    BY <1>1, <1>4, TagReads
  <1>8. QED
    BY <1>1, <1>2, <1>3, <1>5, <1>6, <1>7, TagAfter

\* A request comes in: whoever works for the same owner is no longer alone.
LEMMA TagSync ==
    ASSUME TagConstants, TagInv, NEW h \in Handlers, NEW o \in Owners,
           NEW names \in SUBSET Names, Tag!Sync(h, o, names)
    PROVE  TagInv'
  <1>1. /\ tagTxn \in [Handlers -> Tag!Transaction] /\ asked \in [Owners -> Tag!Asked]
        /\ UNCHANGED <<tags, links>> /\ tagTxn[h].stage = "idle"
        /\ asked' = [asked EXCEPT ![o] = [names |-> @.names \union names, all |-> FALSE]]
    BY DEF TagInv, Tag!TypeOK, Tag!Sync
  <1>2. PICK others \in SUBSET Handlers : others = {g \in Handlers : tagTxn[g].owner = o}
    OBVIOUS
  <1> DEFINE next == [Tag!Idle EXCEPT !.stage = IF names = {} THEN "clearing" ELSE "finding",
                                      !.owner = o, !.names = names, !.alone = others = {},
                                      !.others = UNION {tagTxn[f].names : f \in others}]
             Met(g) == IF g \in others
                       THEN [tagTxn[g] EXCEPT !.alone = FALSE, !.others = @ \union names]
                       ELSE tagTxn[g]
  <1>3. /\ next \in Tag!Transaction
        /\ next.owner = o /\ next.names = names /\ next.alone = (others = {})
        /\ next.tags = {} /\ next.links = {} /\ next.inactive = {}
        /\ next.others = UNION {tagTxn[f].names : f \in others}
        /\ next.stage \in {"clearing", "finding"}
        /\ next.stage = "clearing" => names = {}
    <2>1. \A f \in others : tagTxn[f].names \subseteq Names
      BY <1>1, <1>2 DEF Tag!Transaction
    <2>2. PICK U \in SUBSET Names : U = UNION {tagTxn[f].names : f \in others}
      BY <2>1
    <2>3. next = [Tag!Idle EXCEPT !.stage = IF names = {} THEN "clearing" ELSE "finding",
                                  !.owner = o, !.names = names, !.alone = others = {},
                                  !.others = U]
      BY <2>2
    <2>4. QED
      BY <2>2, <2>3 DEF Tag!Transaction, Tag!Idle
  <1>4. tagTxn' = [g \in Handlers |-> IF g = h THEN next ELSE Met(g)]
    BY <1>2 DEF Tag!Sync
  <1>5. ASSUME NEW g \in Handlers
        PROVE  /\ Met(g) \in Tag!Transaction
               /\ Met(g).stage = tagTxn[g].stage /\ Met(g).owner = tagTxn[g].owner
               /\ Met(g).names = tagTxn[g].names /\ Met(g).tags = tagTxn[g].tags
               /\ Met(g).links = tagTxn[g].links /\ Met(g).inactive = tagTxn[g].inactive
               /\ Met(g).alone = (tagTxn[g].alone /\ g \notin others)
               /\ g \notin others => Met(g) = tagTxn[g]
               /\ g \in others => Met(g).others = tagTxn[g].others \union names
    <2>1. PICK t \in Tag!Transaction : t = tagTxn[g]
      BY <1>1
    <2>2. t.alone \in BOOLEAN /\ t.others \in SUBSET Names
      BY DEF Tag!Transaction
    <2>3. PICK U \in SUBSET Names : U = t.others \union names
      BY <2>2
    <2>4. /\ [t EXCEPT !.alone = FALSE, !.others = U] \in Tag!Transaction
          /\ [t EXCEPT !.alone = FALSE, !.others = U].stage = t.stage
          /\ [t EXCEPT !.alone = FALSE, !.others = U].owner = t.owner
          /\ [t EXCEPT !.alone = FALSE, !.others = U].names = t.names
          /\ [t EXCEPT !.alone = FALSE, !.others = U].tags = t.tags
          /\ [t EXCEPT !.alone = FALSE, !.others = U].links = t.links
          /\ [t EXCEPT !.alone = FALSE, !.others = U].inactive = t.inactive
          /\ [t EXCEPT !.alone = FALSE, !.others = U].alone = FALSE
          /\ [t EXCEPT !.alone = FALSE, !.others = U].others = U
      BY DEF Tag!Transaction
    <2>5. CASE g \in others
      <3>1. Met(g) = [t EXCEPT !.alone = FALSE, !.others = U]
        BY <2>1, <2>3, <2>5
      <3>2. PICK m \in Tag!Transaction : m = Met(g) /\ m = [t EXCEPT !.alone = FALSE, !.others = U]
        BY <2>4, <3>1
      <3> HIDE DEF Met
      <3>3. QED
        BY <2>1, <2>3, <2>4, <2>5, <3>2
    <2>6. CASE g \notin others
      BY <2>1, <2>2, <2>6
    <2>7. QED
      BY <2>5, <2>6
  <1> HIDE DEF next, Met
  <1>6. /\ tagTxn' \in [Handlers -> Tag!Transaction] /\ tagTxn'[h] = next
        /\ \A g \in Handlers \ {h} : tagTxn'[g] = Met(g)
    BY <1>3, <1>4, <1>5
  <1>7. asked' \in [Owners -> Tag!Asked] /\ ~asked'[o].all
        /\ \A q \in Owners \ {o} : asked'[q] = asked[q]
    <2>1. PICK v \in Tag!Asked : v = [names |-> asked[o].names \union names, all |-> FALSE]
      BY <1>1 DEF Tag!Asked
    <2>2. asked' = [asked EXCEPT ![o] = v]
      BY <1>1, <2>1
    <2>3. QED
      BY <1>1, <2>1, <2>2
  <1>8. Tag!TypeOK'
    <2>1. Tag!TypeOK
      BY DEF TagInv
    <2>2. QED
      BY <1>1, <1>6, <1>7, <2>1 DEF Tag!TypeOK
  <1>9. ASSUME NEW g \in Handlers \ {h}
        PROVE  TagRecord(Met(g)) /\ (Met(g).alone => Synced(Met(g)) /\ Met(g).others = {})
    <2>1. PICK t \in Tag!Transaction : t = tagTxn[g]
      BY <1>1
    <2>2. TagRecord(t) /\ (t.alone => Synced(t) /\ t.others = {})
      BY <2>1 DEF TagInv
    <2>3. /\ Met(g).stage = t.stage /\ Met(g).owner = t.owner
          /\ Met(g).names = t.names /\ Met(g).tags = t.tags /\ Met(g).links = t.links
          /\ Met(g).inactive = t.inactive
          /\ Met(g).alone => t.alone /\ Met(g) = t
          /\ t.owner # o => Met(g) = t
      BY <1>2, <1>5, <2>1
    <2>4. t.stage = "idle" => Met(g) = Tag!Idle
      <3>1. t.stage = "idle" => t = Tag!Idle /\ t.owner = None
        BY <2>2 DEF TagRecord, Tag!Idle
      <3>2. QED
        BY <2>3, <3>1 DEF TagConstants
    <2>5. TagRecord(Met(g))
      BY <2>2, <2>3, <2>4 DEF TagRecord
    <2>6. Met(g).alone => Synced(Met(g)) /\ Met(g).others = {}
      BY <2>2, <2>3
    <2>7. QED
      BY <2>3, <2>5, <2>6
  <1>10. TagRecord(next) /\ Synced(next)
    BY <1>3 DEF TagRecord, Synced
  <1>11. ASSUME NEW g \in Handlers \ {h}, Met(g).alone
         PROVE  \A f \in Handlers \ {g} : tagTxn'[f].owner # Met(g).owner
    <2>1. /\ tagTxn[g].alone /\ g \notin others
          /\ Met(g).owner = tagTxn[g].owner
          /\ \A f \in Handlers \ {g} : tagTxn[f].owner # tagTxn[g].owner
      BY <1>5, <1>11 DEF TagInv
    <2>2. tagTxn[g].owner # o
      BY <1>2, <2>1
    <2>3. \A f \in Handlers \ {g} : f # h => tagTxn'[f].owner = tagTxn[f].owner
      BY <1>5, <1>6
    <2>4. QED
      BY <1>3, <1>6, <2>1, <2>2, <2>3
  <1>12. next.alone => \A f \in Handlers \ {h} : tagTxn'[f].owner # next.owner
    <2>1. \A f \in Handlers \ {h} : tagTxn'[f].owner = tagTxn[f].owner
      BY <1>5, <1>6
    <2>2. QED
      BY <1>2, <1>3, <2>1
  <1>13. ASSUME NEW g \in Handlers
         PROVE  /\ TagRecord(tagTxn[g])'
                /\ tagTxn'[g].alone =>
                      /\ Synced(tagTxn[g])' /\ tagTxn'[g].others = {}
                      /\ \A f \in Handlers \ {g} : tagTxn'[f].owner # tagTxn'[g].owner
    <2>1. PICK t : t = tagTxn'[g]
      OBVIOUS
    <2>2. TagRecord(t) /\ (t.alone => Synced(t) /\ t.others = {})
      <3>1. next.alone => next.others = {}
        BY <1>3
      <3>2. QED
        BY <1>6, <1>9, <1>10, <2>1, <3>1
    <2>3. TagRecord(t)' /\ (t.alone => Synced(t)')
      BY <1>1, <2>2 DEF TagRecord, Synced, Tag!LinksOf, Tag!ActiveOf
    <2>4. TagRecord(tagTxn[g])' /\ (tagTxn'[g].alone => Synced(tagTxn[g])')
      BY <2>1, <2>3 DEF TagRecord, Synced
    <2>5. tagTxn'[g].alone => \A f \in Handlers \ {g} : tagTxn'[f].owner # tagTxn'[g].owner
      BY <1>6, <1>11, <1>12
    <2>6. QED
      BY <2>1, <2>2, <2>4, <2>5
  <1>14. ASSUME NEW q \in Owners, asked'[q].all
         PROVE  /\ asked'[q].names \subseteq Tag!ShownNames(q)'
                /\ \A g \in Handlers : tagTxn'[g].owner # q
    <2>1. q # o /\ asked'[q] = asked[q]
      BY <1>7, <1>14
    <2>2. /\ asked[q].names \subseteq Tag!ShownNames(q)
          /\ \A g \in Handlers : tagTxn[g].owner # q
      BY <1>14, <2>1 DEF TagInv
    <2>3. Tag!ShownNames(q)' = Tag!ShownNames(q)
      BY <1>1 DEF Tag!ShownNames, Tag!TagsOf, Tag!ActiveOf, Tag!LinksOf
    <2>4. \A g \in Handlers : tagTxn'[g].owner # q
      <3>1. ASSUME NEW g \in Handlers
            PROVE  tagTxn'[g].owner # q
        <4>1. CASE g = h
          BY <1>3, <1>6, <2>1, <4>1
        <4>2. CASE g # h
          BY <1>5, <1>6, <2>2, <4>2
        <4>3. QED
          BY <4>1, <4>2
      <3>2. QED
        BY <3>1
    <2>5. QED
      BY <2>1, <2>2, <2>3, <2>4
  <1>15. QED
    BY <1>8, <1>13, <1>14 DEF TagInv

\* Nothing is shown at first.
LEMMA TagInit ==
    ASSUME TagConstants, Tag!Init
    PROVE  TagInv
  <1>1. /\ tags = <<>> /\ links = <<>> /\ tagTxn = [h \in Handlers |-> Tag!Idle]
        /\ asked = [o \in Owners |-> [names |-> {}, all |-> TRUE]]
    BY DEF Tag!Init
  <1>2. Tag!Idle \in Tag!Transaction
    BY DEF Tag!Idle, Tag!Transaction
  <1>3. /\ <<>> \in Seq(Names) /\ <<>> \in Seq(Tag!Link) /\ DOMAIN <<>> = {} /\ Len(<<>>) = 0
    BY EmptySeq
  <1>4. [names |-> {}, all |-> TRUE] \in Tag!Asked
    BY DEF Tag!Asked
  <1>5. Tag!TypeOK
    <2>1. Len(tags) <= MaxTags /\ Len(links) <= MaxLinks
      BY <1>1, <1>3 DEF TagConstants
    <2>2. asked \in [Owners -> Tag!Asked]
      BY <1>1, <1>4
    <2>3. QED
      BY <1>1, <1>2, <1>3, <2>1, <2>2 DEF Tag!TypeOK
  <1>6. ASSUME NEW h \in Handlers
        PROVE  TagRecord(tagTxn[h]) /\ ~tagTxn[h].alone /\ tagTxn[h].owner = None
    <2>1. PICK t \in Tag!Transaction : t = Tag!Idle
      BY <1>2
    <2>2. /\ t.stage = "idle" /\ t.tags = {} /\ t.links = {} /\ t.inactive = {}
          /\ ~t.alone /\ t.owner = None
      BY <2>1 DEF Tag!Idle
    <2>3. TagRecord(t)
      BY <2>1, <2>2 DEF TagRecord, Tag!Idle
    <2>4. QED
      BY <1>1, <2>1, <2>2, <2>3
  <1>7. \A o \in Owners : Tag!ShownNames(o) = {}
    <2>1. \A o \in Owners : Tag!ActiveOf(o) = {}
      BY <1>1, <1>3 DEF Tag!ActiveOf, Tag!LinksOf
    <2>2. QED
      BY <2>1 DEF Tag!ShownNames, Tag!TagsOf
  <1>8. \A o \in Owners : asked[o].names = {} /\ \A h \in Handlers : tagTxn[h].owner # o
    BY <1>1, <1>6 DEF TagConstants
  <1>9. QED
    BY <1>5, <1>6, <1>7, <1>8 DEF TagInv

\* Every step keeps the invariant.
LEMMA TagInductive ==
    ASSUME TagConstants, TagInv, [Tag!Next]_(Tag!vars)
    PROVE  TagInv'
  <1>1. CASE UNCHANGED Tag!vars
    <2>1. UNCHANGED <<tags, links, tagTxn, asked>>
      BY <1>1 DEF Tag!vars
    <2>2. Tag!TypeOK'
      BY <2>1 DEF TagInv, Tag!TypeOK
    <2>3. ASSUME NEW h \in Handlers
          PROVE  TagRecord(tagTxn[h])' /\ (tagTxn'[h].alone => Synced(tagTxn[h])')
      <3>1. TagRecord(tagTxn[h]) /\ (tagTxn[h].alone => Synced(tagTxn[h]))
        BY DEF TagInv
      <3>2. QED
        BY <2>1, <3>1 DEF TagRecord, Synced, Tag!LinksOf, Tag!ActiveOf
    <2>4. \A q \in Owners : Tag!ShownNames(q)' = Tag!ShownNames(q)
      BY <2>1 DEF Tag!ShownNames, Tag!TagsOf, Tag!ActiveOf, Tag!LinksOf
    <2>5. QED
      BY <2>1, <2>2, <2>3, <2>4 DEF TagInv
  <1>2. CASE Tag!Next
    BY <1>2, TagSync, TagClear, TagFindTags, TagCreateTags, TagFindLinks, TagInsertLinks,
       TagActivate, TagFindActive, TagDeactivate, TagInterrupt DEF Tag!Next
  <1>3. QED
    BY <1>1, <1>2


-----------------------------------------------------------------------------
\* Tags, and which names may be shown.

\* What a handler will leave active has a name of its request, or of one that
\* overlapped it.
Bounded(t) ==
    t.stage = "deactivating" =>
        \A l \in Tag!ActiveOf(t.owner) :
            l \in t.links \/ Tag!Like(tags[links[l].tag], t.names \union t.others)

TagBound ==
    /\ \A o \in Owners : \A l \in Tag!ActiveOf(o) :
          Tag!Like(tags[links[l].tag], asked[o].names)
    /\ \A h \in Handlers : tagTxn[h].stage # "idle" =>
          /\ Bounded(tagTxn[h])
          /\ tagTxn[h].names \subseteq asked[tagTxn[h].owner].names
          /\ \A g \in Handlers \ {h} :
                tagTxn[g].stage # "idle" /\ tagTxn[g].owner = tagTxn[h].owner =>
                    tagTxn[g].names \subseteq tagTxn[h].others

\* A name that is like one of some names is like one of more names.
LEMMA LikeMore ==
    ASSUME NEW n, NEW S, NEW T, S \subseteq T, Tag!Like(n, S)
    PROVE  Tag!Like(n, T)
  BY DEF Tag!Like

\* The links that were active keep their names; other owners' stay as they are.
LEMMA TagKeeps ==
    ASSUME TagConstants, TagInv, NEW o \in Owners, TagWrites(o)
    PROVE  /\ \A l \in DOMAIN links : tags'[links'[l].tag] = tags[links[l].tag]
           /\ \A q \in Owners \ {o} : Tag!ActiveOf(q)' = Tag!ActiveOf(q)
  <1>1. \A l \in DOMAIN links : links[l].tag \in DOMAIN tags
    BY DEF TagInv, Tag!TypeOK
  <1>2. \A l \in DOMAIN links : tags'[links'[l].tag] = tags[links[l].tag]
    BY <1>1 DEF TagWrites
  <1>3. QED
    BY <1>2, TagRows

\* A step within a request that makes no more active than links to its tags.
LEMMA TagBoundOn ==
    ASSUME TagConstants, TagInv, TagBound, NEW h \in Handlers, tagTxn[h].stage # "idle",
           NEW o \in Owners, o = tagTxn[h].owner,
           NEW next \in Tag!Transaction, tagTxn' = [tagTxn EXCEPT ![h] = next],
           UNCHANGED asked, TagWrites(o),
           next.owner = o, next.names = tagTxn[h].names, next.others = tagTxn[h].others,
           \A l \in Tag!ActiveOf(o)' :
               l \in Tag!ActiveOf(o) \/ Tag!Like(tags'[links'[l].tag], tagTxn[h].names),
           Bounded(next)'
    PROVE  TagBound'
  <1>1. /\ tagTxn \in [Handlers -> Tag!Transaction] /\ tagTxn'[h] = next
        /\ \A g \in Handlers \ {h} : tagTxn'[g] = tagTxn[g]
    BY DEF TagInv, Tag!TypeOK
  <1>2. /\ \A l \in DOMAIN links : tags'[links'[l].tag] = tags[links[l].tag]
        /\ \A q \in Owners \ {o} : Tag!ActiveOf(q)' = Tag!ActiveOf(q)
        /\ \A q \in Owners : Tag!ActiveOf(q) \subseteq DOMAIN links
    BY TagKeeps DEF Tag!ActiveOf, Tag!LinksOf
  <1>3. tagTxn[h].names \subseteq asked[o].names
    BY DEF TagBound
  <1>4. ASSUME NEW q \in Owners, NEW l \in Tag!ActiveOf(q)'
        PROVE  Tag!Like(tags'[links'[l].tag], asked[q].names)
    <2>1. CASE l \in Tag!ActiveOf(q)
      BY <1>2, <2>1 DEF TagBound
    <2>2. CASE l \notin Tag!ActiveOf(q)
      <3>1. q = o
        BY <1>2, <1>4, <2>2
      <3>2. Tag!Like(tags'[links'[l].tag], tagTxn[h].names)
        BY <1>4, <2>2, <3>1
      <3>3. QED
        BY <1>3, <3>1, <3>2, LikeMore
    <2>3. QED
      BY <2>1, <2>2
  <1>5. ASSUME NEW g \in Handlers \ {h}, tagTxn[g].stage # "idle"
        PROVE  Bounded(tagTxn[g])'
    <2>1. PICK t \in Tag!Transaction : t = tagTxn[g]
      BY <1>1
    <2>2. t.owner \in Owners /\ Bounded(t)
      BY <1>5, <2>1, TagHandler DEF TagBound
    <2>3. ASSUME t.stage = "deactivating", NEW l \in Tag!ActiveOf(t.owner)'
          PROVE  l \in t.links \/ Tag!Like(tags'[links'[l].tag], t.names \union t.others)
      <3>1. CASE l \in Tag!ActiveOf(t.owner)
        BY <1>2, <2>2, <2>3, <3>1 DEF Bounded
      <3>2. CASE l \notin Tag!ActiveOf(t.owner)
        <4>1. t.owner = o
          BY <1>2, <2>2, <2>3, <3>2
        <4>2. tagTxn[h].names \subseteq t.others
          BY <1>5, <2>1, <4>1 DEF TagBound
        <4>3. Tag!Like(tags'[links'[l].tag], tagTxn[h].names)
          BY <2>3, <3>2, <4>1
        <4>4. QED
          BY <4>2, <4>3, LikeMore
      <3>3. QED
        BY <3>1, <3>2
    <2>4. Bounded(t)'
      BY <2>3 DEF Bounded, Tag!Like
    <2>5. QED
      BY <1>1, <2>1, <2>4 DEF Bounded
  <1>6. Bounded(tagTxn[h])'
    BY <1>1 DEF Bounded
  <1>7. ASSUME NEW f \in Handlers, tagTxn'[f].stage # "idle"
        PROVE  /\ tagTxn[f].stage # "idle" /\ tagTxn'[f].owner = tagTxn[f].owner
               /\ tagTxn'[f].names = tagTxn[f].names /\ tagTxn'[f].others = tagTxn[f].others
    BY <1>1, <1>7
  <1>8. ASSUME NEW f \in Handlers, tagTxn'[f].stage # "idle"
        PROVE  /\ tagTxn'[f].names \subseteq asked[tagTxn'[f].owner].names
               /\ \A g \in Handlers \ {f} :
                     tagTxn'[g].stage # "idle" /\ tagTxn'[g].owner = tagTxn'[f].owner =>
                         tagTxn'[g].names \subseteq tagTxn'[f].others
    BY <1>7, <1>8 DEF TagBound
  <1>9. ASSUME NEW f \in Handlers, tagTxn'[f].stage # "idle"
        PROVE  Bounded(tagTxn[f])'
    BY <1>5, <1>6, <1>7, <1>9
  <1>10. \A q \in Owners : \A l \in Tag!ActiveOf(q)' : Tag!Like(tags[links[l].tag], asked[q].names)'
    BY <1>4 DEF Tag!Like
  <1>11. QED
    BY <1>8, <1>9, <1>10 DEF TagBound

\* The end of a request that leaves active what it may leave.
LEMMA TagBoundEnd ==
    ASSUME TagConstants, TagInv, TagBound, NEW h \in Handlers, tagTxn[h].stage # "idle",
           NEW o \in Owners, o = tagTxn[h].owner, TagWrites(o),
           tagTxn' = [tagTxn EXCEPT ![h] = Tag!Idle],
           asked' \in [Owners -> Tag!Asked], \A q \in Owners \ {o} : asked'[q] = asked[q],
           asked'[o].names \in {asked[o].names, tagTxn[h].names \union tagTxn[h].others},
           Tag!ActiveOf(o)' \subseteq Tag!ActiveOf(o),
           \A l \in Tag!ActiveOf(o)' : Tag!Like(tags[links[l].tag], asked'[o].names)
    PROVE  TagBound'
  <1>1. /\ tagTxn \in [Handlers -> Tag!Transaction] /\ tagTxn'[h] = Tag!Idle
        /\ \A g \in Handlers \ {h} : tagTxn'[g] = tagTxn[g]
    BY DEF TagInv, Tag!TypeOK
  <1>2. /\ \A l \in DOMAIN links : tags'[links'[l].tag] = tags[links[l].tag]
        /\ \A q \in Owners \ {o} : Tag!ActiveOf(q)' = Tag!ActiveOf(q)
        /\ \A q \in Owners : Tag!ActiveOf(q) \subseteq DOMAIN links
    BY TagKeeps DEF Tag!ActiveOf, Tag!LinksOf
  <1>3. ASSUME NEW q \in Owners, NEW l \in Tag!ActiveOf(q)'
        PROVE  Tag!Like(tags'[links'[l].tag], asked'[q].names)
    <2>1. CASE q = o
      BY <1>2, <1>3, <2>1
    <2>2. CASE q # o
      BY <1>2, <1>3, <2>2 DEF TagBound
    <2>3. QED
      BY <2>1, <2>2
  <1>4. ASSUME NEW g \in Handlers, tagTxn'[g].stage # "idle"
        PROVE  g # h /\ tagTxn'[g] = tagTxn[g] /\ tagTxn[g].stage # "idle"
    BY <1>1, <1>4 DEF Tag!Idle
  <1>5. ASSUME NEW g \in Handlers, tagTxn'[g].stage # "idle"
        PROVE  Bounded(tagTxn[g])'
    <2>1. PICK t \in Tag!Transaction : t = tagTxn[g]
      BY <1>1
    <2>2. t.owner \in Owners /\ Bounded(t)
      BY <1>4, <1>5, <2>1, TagHandler DEF TagBound
    <2>3. Tag!ActiveOf(t.owner)' \subseteq Tag!ActiveOf(t.owner)
      BY <1>2, <2>2
    <2>4. Bounded(t)'
      BY <1>2, <2>2, <2>3 DEF Bounded, Tag!Like
    <2>5. QED
      BY <1>4, <1>5, <2>1, <2>4 DEF Bounded
  <1>6. ASSUME NEW g \in Handlers, tagTxn'[g].stage # "idle"
        PROVE  tagTxn'[g].names \subseteq asked'[tagTxn'[g].owner].names
    <2>1. /\ g # h /\ tagTxn'[g] = tagTxn[g] /\ tagTxn[g].stage # "idle"
          /\ tagTxn[g].owner \in Owners
          /\ tagTxn[g].names \subseteq asked[tagTxn[g].owner].names
      BY <1>4, <1>6, TagHandler DEF TagBound
    <2>2. CASE tagTxn[g].owner # o
      BY <2>1, <2>2
    <2>3. CASE tagTxn[g].owner = o
      <3>1. tagTxn[g].names \subseteq tagTxn[h].others
        BY <2>1, <2>3 DEF TagBound
      <3>2. QED
        BY <2>1, <2>3, <3>1
    <2>4. QED
      BY <2>2, <2>3
  <1>7. ASSUME NEW f \in Handlers, tagTxn'[f].stage # "idle",
               NEW g \in Handlers \ {f}, tagTxn'[g].stage # "idle",
               tagTxn'[g].owner = tagTxn'[f].owner
        PROVE  tagTxn'[g].names \subseteq tagTxn'[f].others
    BY <1>4, <1>7 DEF TagBound
  <1>8. \A q \in Owners : \A l \in Tag!ActiveOf(q)' : Tag!Like(tags[links[l].tag], asked[q].names)'
    BY <1>3 DEF Tag!Like
  <1>9. QED
    BY <1>5, <1>6, <1>7, <1>8 DEF TagBound

\* What the answer to a request settles.
TagFinished(h, o) ==
    /\ tagTxn' = [tagTxn EXCEPT ![h] = Tag!Idle]
    /\ asked' \in [Owners -> Tag!Asked]
    /\ \A q \in Owners \ {o} : asked'[q] = asked[q]
    /\ asked'[o].names = tagTxn[h].names \union tagTxn[h].others

LEMMA TagFinishes ==
    ASSUME TagConstants, TagInv, NEW h \in Handlers, tagTxn[h].stage # "idle",
           NEW from, Tag!Finish(h, from), NEW o \in Owners, o = tagTxn[h].owner
    PROVE  TagFinished(h, o)
  <1>1. PICK t \in Tag!Transaction : t = tagTxn[h]
    BY TagHandler
  <1>2. PICK v \in Tag!Asked : v = [names |-> t.names \union t.others, all |-> t.alone]
    BY DEF Tag!Transaction, Tag!Asked
  <1>3. asked' = [asked EXCEPT ![o] = v] /\ asked \in [Owners -> Tag!Asked]
    BY <1>1, <1>2, TagHandler DEF Tag!Finish
  <1>4. v.names = t.names \union t.others
    BY <1>2
  <1>5. QED
    BY <1>1, <1>3, <1>4 DEF TagFinished, Tag!Finish, Tag!Step

\* A read: nothing but the record of the handler changes.
LEMMA TagBoundReads ==
    ASSUME TagConstants, TagInv, TagBound, NEW h \in Handlers, tagTxn[h].stage # "idle",
           UNCHANGED <<tags, links, asked>>, NEW next \in Tag!Transaction,
           tagTxn' = [tagTxn EXCEPT ![h] = next], next.owner = tagTxn[h].owner,
           next.names = tagTxn[h].names, next.others = tagTxn[h].others, Bounded(next)
    PROVE  TagBound'
  <1>1. PICK o \in Owners : o = tagTxn[h].owner
    BY TagHandler
  <1>2. TagWrites(o) /\ Tag!ActiveOf(o)' = Tag!ActiveOf(o)
    BY TagReads DEF Tag!ActiveOf, Tag!LinksOf
  <1>3. Bounded(next)'
    BY DEF Bounded, Tag!Like, Tag!ActiveOf, Tag!LinksOf
  <1>4. QED
    BY <1>1, <1>2, <1>3, TagBoundOn

\* Every step keeps what may be shown.
LEMMA TagBoundInductive ==
    ASSUME TagConstants, TagInv, TagBound, [Tag!Next]_(Tag!vars)
    PROVE  TagBound'
  <1>1. CASE UNCHANGED Tag!vars
    <2>1. UNCHANGED <<tags, links, tagTxn, asked>>
      BY <1>1 DEF Tag!vars
    <2>2. QED
      BY <2>1 DEF TagBound, Bounded, Tag!Like, Tag!ActiveOf, Tag!LinksOf
  <1>2. ASSUME NEW h \in Handlers, NEW o \in Owners, NEW names \in SUBSET Names,
               Tag!Sync(h, o, names)
        PROVE  TagBound'
    <2>1. /\ tagTxn \in [Handlers -> Tag!Transaction] /\ asked \in [Owners -> Tag!Asked]
          /\ UNCHANGED <<tags, links>> /\ tagTxn[h].stage = "idle"
          /\ asked' = [asked EXCEPT ![o] = [names |-> @.names \union names, all |-> FALSE]]
      BY <1>2 DEF TagInv, Tag!TypeOK, Tag!Sync
    <2>2. /\ asked'[o].names = asked[o].names \union names
          /\ \A q \in Owners : asked[q].names \subseteq asked'[q].names
      BY <2>1
    <2>3. /\ tagTxn'[h].owner = o /\ tagTxn'[h].names = names
          /\ tagTxn'[h].stage \in {"clearing", "finding"}
          /\ \A f \in Handlers : tagTxn[f].owner = o =>
                tagTxn[f].names \subseteq tagTxn'[h].others
      BY <1>2 DEF Tag!Sync, Tag!Idle
    <2>4. ASSUME NEW g \in Handlers \ {h}
          PROVE  /\ tagTxn'[g].stage = tagTxn[g].stage /\ tagTxn'[g].owner = tagTxn[g].owner
                 /\ tagTxn'[g].names = tagTxn[g].names /\ tagTxn'[g].links = tagTxn[g].links
                 /\ tagTxn[g].others \subseteq tagTxn'[g].others
                 /\ tagTxn[g].owner = o => names \subseteq tagTxn'[g].others
      <3>1. PICK t \in Tag!Transaction : t = tagTxn[g]
        BY <2>1
      <3>2. tagTxn'[g] = IF t.owner = o
                         THEN [t EXCEPT !.alone = FALSE, !.others = t.others \union names]
                         ELSE t
        BY <1>2, <3>1 DEF Tag!Sync
      <3>3. PICK u : u = [t EXCEPT !.alone = FALSE, !.others = t.others \union names]
        OBVIOUS
      <3>4. /\ u.stage = t.stage /\ u.owner = t.owner /\ u.names = t.names
            /\ u.links = t.links /\ u.others = t.others \union names
        BY <3>3 DEF Tag!Transaction
      <3>5. QED
        BY <3>1, <3>2, <3>3, <3>4
    <2>5. \A q \in Owners : Tag!ActiveOf(q)' = Tag!ActiveOf(q)
      BY <2>1 DEF Tag!ActiveOf, Tag!LinksOf
    <2>6. ASSUME NEW q \in Owners, NEW l \in Tag!ActiveOf(q)'
          PROVE  Tag!Like(tags[links[l].tag], asked'[q].names)
      <3>1. Tag!Like(tags[links[l].tag], asked[q].names)
        BY <2>5, <2>6 DEF TagBound
      <3>2. QED
        BY <2>2, <3>1, LikeMore
    <2>7. ASSUME NEW g \in Handlers, tagTxn'[g].stage # "idle"
          PROVE  Bounded(tagTxn[g])'
      <3>1. CASE g = h
        BY <2>3, <3>1 DEF Bounded
      <3>2. CASE g # h
        <4>1. tagTxn[g].owner \in Owners /\ Bounded(tagTxn[g])
          BY <2>4, <2>7, <3>2, TagHandler DEF TagBound
        <4>2. tagTxn[g].names \union tagTxn[g].others
                  \subseteq tagTxn'[g].names \union tagTxn'[g].others
          BY <2>4, <3>2
        <4>3. ASSUME tagTxn'[g].stage = "deactivating", NEW l \in Tag!ActiveOf(tagTxn[g].owner)
              PROVE  \/ l \in tagTxn'[g].links
                     \/ Tag!Like(tags[links[l].tag], tagTxn'[g].names \union tagTxn'[g].others)
          <5>1. \/ l \in tagTxn[g].links
                \/ Tag!Like(tags[links[l].tag], tagTxn[g].names \union tagTxn[g].others)
            BY <2>4, <3>2, <4>1, <4>3 DEF Bounded
          <5>2. QED
            BY <2>4, <3>2, <4>2, <5>1, LikeMore
        <4>4. QED
          BY <2>1, <2>4, <2>5, <3>2, <4>1, <4>3 DEF Bounded, Tag!Like
      <3>3. QED
        BY <3>1, <3>2
    <2>8. ASSUME NEW g \in Handlers, tagTxn'[g].stage # "idle"
          PROVE  tagTxn'[g].names \subseteq asked'[tagTxn'[g].owner].names
      <3>1. CASE g = h
        BY <2>2, <2>3, <3>1
      <3>2. CASE g # h
        <4>1. /\ tagTxn[g].owner \in Owners
              /\ tagTxn[g].names \subseteq asked[tagTxn[g].owner].names
          BY <2>4, <2>8, <3>2, TagHandler DEF TagBound
        <4>2. QED
          BY <2>2, <2>4, <3>2, <4>1
      <3>3. QED
        BY <3>1, <3>2
    <2>9. ASSUME NEW f \in Handlers, tagTxn'[f].stage # "idle",
                 NEW g \in Handlers \ {f}, tagTxn'[g].stage # "idle",
                 tagTxn'[g].owner = tagTxn'[f].owner
          PROVE  tagTxn'[g].names \subseteq tagTxn'[f].others
      <3>1. CASE f = h
        BY <2>3, <2>4, <2>9, <3>1
      <3>2. CASE g = h
        BY <2>3, <2>4, <2>9, <3>2
      <3>3. CASE f # h /\ g # h
        <4>1. tagTxn[g].names \subseteq tagTxn[f].others
          BY <2>4, <2>9, <3>3 DEF TagBound
        <4>2. QED
          BY <2>4, <3>3, <4>1
      <3>4. QED
        BY <3>1, <3>2, <3>3
    <2>10. \A q \in Owners : \A l \in Tag!ActiveOf(q)' :
               Tag!Like(tags[links[l].tag], asked[q].names)'
      BY <2>1, <2>6 DEF Tag!Like
    <2>11. QED
      BY <2>7, <2>8, <2>9, <2>10 DEF TagBound
  <1>3. ASSUME NEW h \in Handlers, Tag!Clear(h)
        PROVE  TagBound'
    <2>1. tagTxn[h].stage # "idle" /\ UNCHANGED tags
      BY <1>3 DEF Tag!Clear, Tag!Finish, Tag!Step
    <2>2. PICK o \in Owners : o = tagTxn[h].owner
      BY <2>1, TagHandler
    <2>3. PICK S \in SUBSET Tag!LinksOf(o) : S = Tag!ActiveOf(o)
      BY DEF Tag!ActiveOf
    <2>4. Tag!SetActive(S, FALSE)
      BY <1>3, <2>2, <2>3 DEF Tag!Clear
    <2>5. TagWrites(o) /\ Switched(S, FALSE)
      BY <2>1, <2>2, <2>4, TagSwitches, Zenon
    <2>6. Tag!ActiveOf(o)' = {}
      BY <2>3, <2>5 DEF Switched, Tag!ActiveOf, Tag!LinksOf
    <2>7. TagFinished(h, o)
      BY <1>3, <2>1, <2>2, TagFinishes DEF Tag!Clear
    <2>8. QED
      BY <2>1, <2>2, <2>5, <2>6, <2>7, TagBoundEnd DEF TagFinished
  <1>4. ASSUME NEW h \in Handlers, Tag!FindTags(h)
        PROVE  TagBound'
    <2>1. tagTxn[h].stage # "idle" /\ UNCHANGED <<tags, links, asked>>
      BY <1>4 DEF Tag!FindTags, Tag!Step
    <2>2. PICK t \in Tag!Transaction : t = tagTxn[h]
      BY <2>1, TagHandler
    <2>3. PICK found \in SUBSET (1..MaxTags) : found = Tag!Named(t.names)
      <3>1. DOMAIN tags \subseteq 1..MaxTags
        BY <2>1, <2>2, TagHandler, TagRows, TagReads
      <3>2. QED
        BY <3>1 DEF Tag!Named
    <2>4. PICK to \in {"linking", "creating"} :
             tagTxn' = [tagTxn EXCEPT ![h] = [t EXCEPT !.stage = to, !.tags = found]]
      BY <1>4, <2>2, <2>3 DEF Tag!FindTags, Tag!Step
    <2>5. PICK next \in Tag!Transaction : next = [t EXCEPT !.stage = to, !.tags = found]
      BY DEF Tag!Transaction
    <2>6. /\ next.owner = t.owner /\ next.names = t.names /\ next.others = t.others
          /\ next.stage = to
      BY <2>5 DEF Tag!Transaction
    <2>7. QED
      BY <2>1, <2>2, <2>4, <2>5, <2>6, TagBoundReads DEF Bounded
  <1>5. ASSUME NEW h \in Handlers, Tag!CreateTags(h)
        PROVE  TagBound'
    <2>1. tagTxn[h].stage # "idle" /\ UNCHANGED <<links, asked>>
      BY <1>5 DEF Tag!CreateTags, Tag!Step
    <2>2. PICK t \in Tag!Transaction : t = tagTxn[h]
      BY <2>1, TagHandler
    <2>3. PICK o \in Owners : o = t.owner
      BY <2>1, <2>2, TagHandler
    <2>4. PICK new \in SUBSET (1..MaxTags) : TagsMade(h, new)
      BY <1>5, TagMakesTags
    <2>5. PICK all \in SUBSET (1..MaxTags) : all = t.tags \union new
      BY DEF Tag!Transaction
    <2>6. PICK next \in Tag!Transaction : next = [t EXCEPT !.stage = "linking", !.tags = all]
      BY DEF Tag!Transaction
    <2>7. /\ next.owner = t.owner /\ next.names = t.names /\ next.others = t.others
          /\ next.stage = "linking"
      BY <2>6 DEF Tag!Transaction
    <2>8. tagTxn' = [tagTxn EXCEPT ![h] = next] /\ TagWrites(o)
      BY <2>2, <2>3, <2>4, <2>5, <2>6 DEF TagsMade
    <2>9. Tag!ActiveOf(o)' = Tag!ActiveOf(o) /\ Bounded(next)'
      BY <2>1, <2>7 DEF Tag!ActiveOf, Tag!LinksOf, Bounded
    <2>10. QED
      BY <2>1, <2>2, <2>3, <2>7, <2>8, <2>9, TagBoundOn
  <1>6. ASSUME NEW h \in Handlers, Tag!FindLinks(h)
        PROVE  TagBound'
    <2>1. tagTxn[h].stage # "idle" /\ UNCHANGED <<tags, links, asked>>
      BY <1>6 DEF Tag!FindLinks, Tag!Step
    <2>2. PICK t \in Tag!Transaction : t = tagTxn[h]
      BY <2>1, TagHandler
    <2>3. DOMAIN links \subseteq 1..MaxLinks
      BY <2>1, <2>2, TagHandler, TagRows, TagReads
    <2>4. PICK S \in SUBSET (1..MaxLinks) :
             S = {l \in Tag!LinksOf(t.owner) : links[l].tag \in t.tags}
      BY <2>3 DEF Tag!LinksOf
    <2>5. PICK I \in SUBSET (1..MaxLinks) : I = S \ Tag!ActiveOf(t.owner)
      OBVIOUS
    <2>6. PICK next \in Tag!Transaction :
             next = [t EXCEPT !.stage = "inserting", !.links = S, !.inactive = I]
      BY DEF Tag!Transaction
    <2>7. /\ next.owner = t.owner /\ next.names = t.names /\ next.others = t.others
          /\ next.stage = "inserting"
      BY <2>6 DEF Tag!Transaction
    <2>8. tagTxn' = [tagTxn EXCEPT ![h] = next]
      BY <1>6, <2>2, <2>4, <2>5, <2>6 DEF Tag!FindLinks, Tag!Step
    <2>9. QED
      BY <2>1, <2>2, <2>7, <2>8, TagBoundReads DEF Bounded
  <1>7. ASSUME NEW h \in Handlers, Tag!InsertLinks(h)
        PROVE  TagBound'
    <2>1. tagTxn[h].stage # "idle" /\ UNCHANGED <<tags, asked>>
      BY <1>7 DEF Tag!InsertLinks, Tag!Step
    <2>2. PICK t \in Tag!Transaction : t = tagTxn[h]
      BY <2>1, TagHandler
    <2>3. PICK o \in Owners : o = t.owner
      BY <2>1, <2>2, TagHandler
    <2>4. PICK new \in SUBSET (1..MaxLinks) : LinksMade(h, new)
      BY <1>7, TagMakesLinks
    <2>5. PICK next \in Tag!Transaction : next = [t EXCEPT !.stage = "activating"]
      BY DEF Tag!Transaction
    <2>6. /\ next.owner = t.owner /\ next.names = t.names /\ next.others = t.others
          /\ next.stage = "activating"
      BY <2>5 DEF Tag!Transaction
    <2>7. /\ tagTxn' = [tagTxn EXCEPT ![h] = next] /\ TagWrites(o)
          /\ DOMAIN links' = DOMAIN links \union new
          /\ \A l \in DOMAIN links : links'[l] = links[l]
          /\ \A l \in new : links'[l].tag \in t.tags
      BY <2>2, <2>3, <2>4, <2>5 DEF LinksMade
    <2>8. \A i \in t.tags : Tag!Like(tags[i], t.names)
      BY <2>1, <2>2, TagHandler DEF TagRecord
    <2>9. ASSUME NEW l \in Tag!ActiveOf(o)'
          PROVE  l \in Tag!ActiveOf(o) \/ Tag!Like(tags'[links'[l].tag], t.names)
      <3>1. CASE l \in DOMAIN links
        BY <2>7, <2>9, <3>1 DEF Tag!ActiveOf, Tag!LinksOf
      <3>2. CASE l \in new
        BY <2>1, <2>7, <2>8, <3>2
      <3>3. QED
        BY <2>7, <2>9, <3>1, <3>2 DEF Tag!ActiveOf, Tag!LinksOf
    <2>10. Bounded(next)'
      BY <2>6 DEF Bounded
    <2>11. QED
      BY <2>1, <2>2, <2>3, <2>6, <2>7, <2>9, <2>10, TagBoundOn
  <1>8. ASSUME NEW h \in Handlers, Tag!Activate(h)
        PROVE  TagBound'
    <2>1. tagTxn[h].stage # "idle" /\ UNCHANGED <<tags, asked>>
      BY <1>8 DEF Tag!Activate, Tag!Step
    <2>2. PICK t \in Tag!Transaction : t = tagTxn[h]
      BY <2>1, TagHandler
    <2>3. PICK o \in Owners : o = t.owner
      BY <2>1, <2>2, TagHandler
    <2>4. TagRecord(t)
      BY <2>1, <2>2, TagHandler
    <2>5. PICK S \in SUBSET Tag!LinksOf(o) : S = t.inactive
      BY <2>3, <2>4 DEF TagRecord
    <2>6. Tag!SetActive(S, TRUE)
      BY <1>8, <2>2, <2>5 DEF Tag!Activate
    <2>7. TagWrites(o) /\ Switched(S, TRUE)
      BY <2>1, <2>2, <2>3, <2>6, TagSwitches, Zenon
    <2>8. PICK next \in Tag!Transaction : next = [t EXCEPT !.stage = "listing"]
      BY DEF Tag!Transaction
    <2>9. /\ next.owner = t.owner /\ next.names = t.names /\ next.others = t.others
          /\ next.stage = "listing"
      BY <2>8 DEF Tag!Transaction
    <2>10. tagTxn' = [tagTxn EXCEPT ![h] = next]
      BY <1>8, <2>2, <2>8 DEF Tag!Activate, Tag!Step
    <2>11. ASSUME NEW l \in Tag!ActiveOf(o)'
           PROVE  l \in Tag!ActiveOf(o) \/ Tag!Like(tags'[links'[l].tag], t.names)
      <3>1. /\ l \in DOMAIN links /\ links'[l].tag = links[l].tag
            /\ l \in Tag!ActiveOf(o) \/ l \in S
        BY <2>7, <2>11 DEF Switched, Tag!ActiveOf, Tag!LinksOf
      <3>2. CASE l \in S
        BY <2>1, <2>4, <2>5, <3>1, <3>2 DEF TagRecord
      <3>3. QED
        BY <3>1, <3>2
    <2>12. Bounded(next)'
      BY <2>9 DEF Bounded
    <2>13. QED
      BY <2>1, <2>2, <2>3, <2>7, <2>9, <2>10, <2>11, <2>12, TagBoundOn
  <1>9. ASSUME NEW h \in Handlers, Tag!FindActive(h)
        PROVE  TagBound'
    <2>1. tagTxn[h].stage # "idle" /\ UNCHANGED <<tags, links, asked>>
      BY <1>9 DEF Tag!FindActive, Tag!Step
    <2>2. PICK t \in Tag!Transaction : t = tagTxn[h]
      BY <2>1, TagHandler
    <2>3. DOMAIN links \subseteq 1..MaxLinks /\ TagRecord(t)
      BY <2>1, <2>2, TagHandler, TagRows, TagReads
    <2>4. PICK S \in SUBSET (1..MaxLinks) :
             S = {l \in Tag!ActiveOf(t.owner) : links[l].tag \notin t.tags}
      BY <2>3 DEF Tag!ActiveOf, Tag!LinksOf
    <2>5. PICK next \in Tag!Transaction :
             next = [t EXCEPT !.stage = "deactivating", !.links = S]
      BY DEF Tag!Transaction
    <2>6. /\ next.owner = t.owner /\ next.names = t.names /\ next.others = t.others
          /\ next.stage = "deactivating" /\ next.links = S
      BY <2>5 DEF Tag!Transaction
    <2>7. tagTxn' = [tagTxn EXCEPT ![h] = next]
      BY <1>9, <2>2, <2>4, <2>5 DEF Tag!FindActive, Tag!Step
    <2>8. ASSUME NEW l \in Tag!ActiveOf(t.owner), l \notin S
          PROVE  Tag!Like(tags[links[l].tag], t.names \union t.others)
      BY <2>3, <2>4, <2>8, LikeMore DEF TagRecord
    <2>9. Bounded(next)
      BY <2>6, <2>8 DEF Bounded
    <2>10. QED
      BY <2>1, <2>2, <2>6, <2>7, <2>9, TagBoundReads
  <1>10. ASSUME NEW h \in Handlers, Tag!Deactivate(h)
         PROVE  TagBound'
    <2>1. tagTxn[h].stage = "deactivating" /\ tagTxn[h].stage # "idle" /\ UNCHANGED tags
      BY <1>10 DEF Tag!Deactivate, Tag!Finish, Tag!Step
    <2>2. PICK t \in Tag!Transaction : t = tagTxn[h]
      BY <2>1, TagHandler
    <2>3. PICK o \in Owners : o = t.owner
      BY <2>1, <2>2, TagHandler
    <2>4. PICK S \in SUBSET Tag!LinksOf(o) : S = t.links
      BY <2>1, <2>2, <2>3, TagHandler DEF TagRecord
    <2>5. Tag!SetActive(S, FALSE)
      BY <1>10, <2>2, <2>4 DEF Tag!Deactivate
    <2>6. TagWrites(o) /\ Switched(S, FALSE)
      BY <2>1, <2>2, <2>3, <2>5, TagSwitches, Zenon
    <2>7. Tag!ActiveOf(o)' \subseteq Tag!ActiveOf(o) \ S
      BY <2>6 DEF Switched, Tag!ActiveOf, Tag!LinksOf
    <2>8. TagFinished(h, o)
      BY <1>10, <2>1, <2>2, <2>3, TagFinishes DEF Tag!Deactivate
    <2>9. \A l \in Tag!ActiveOf(o) \ S : Tag!Like(tags[links[l].tag], t.names \union t.others)
      BY <2>1, <2>2, <2>3, <2>4 DEF TagBound, Bounded
    <2>10. QED
      BY <2>1, <2>2, <2>3, <2>6, <2>7, <2>8, <2>9, TagBoundEnd DEF TagFinished
  <1>11. ASSUME NEW h \in Handlers, Tag!Interrupt(h)
         PROVE  TagBound'
    <2>1. /\ tagTxn[h].stage # "idle" /\ UNCHANGED <<tags, links, asked>>
          /\ tagTxn' = [tagTxn EXCEPT ![h] = Tag!Idle]
      BY <1>11 DEF Tag!Interrupt
    <2>2. PICK o \in Owners : o = tagTxn[h].owner
      BY <2>1, TagHandler
    <2>3. /\ asked' \in [Owners -> Tag!Asked] /\ asked' = asked
          /\ Tag!ActiveOf(o)' = Tag!ActiveOf(o) /\ TagWrites(o)
      BY <2>1, TagHandler, TagReads DEF Tag!ActiveOf, Tag!LinksOf
    <2>4. \A l \in Tag!ActiveOf(o) : Tag!Like(tags[links[l].tag], asked[o].names)
      BY DEF TagBound
    <2>5. QED
      BY <2>1, <2>2, <2>3, <2>4, TagBoundEnd
  <1>12. CASE Tag!Next
    BY <1>2, <1>3, <1>4, <1>5, <1>6, <1>7, <1>8, <1>9, <1>10, <1>11, <1>12 DEF Tag!Next
  <1>13. QED
    BY <1>1, <1>12

-----------------------------------------------------------------------------
\* Tags, one request at a time.

\* A name has one tag, and an owner one link to a tag; the handler has found all
\* the tags of its names and all the links of its owner to its tags.
TagSerial ==
    /\ \A i, j \in DOMAIN tags : tags[i] = tags[j] => i = j
    /\ \A k, l \in DOMAIN links :
          links[k].owner = links[l].owner /\ links[k].tag = links[l].tag => k = l
    /\ \A h \in Handlers :
          /\ tagTxn[h].stage = "creating" => Tag!Named(tagTxn[h].names) \subseteq tagTxn[h].tags
          /\ tagTxn[h].stage = "inserting" =>
                {l \in Tag!LinksOf(tagTxn[h].owner) : links[l].tag \in tagTxn[h].tags}
                    \subseteq tagTxn[h].links

\* A statement that changes no more than which links are active.
LEMMA TagSerialQuiet ==
    ASSUME TagConstants, TagInv, TagSerial, NEW h \in Handlers,
           \A g \in Handlers \ {h} : tagTxn'[g].stage = "idle",
           UNCHANGED tags, DOMAIN links' = DOMAIN links,
           \A l \in DOMAIN links : links'[l].owner = links[l].owner /\ links'[l].tag = links[l].tag,
           tagTxn'[h].stage = "creating" => Tag!Named(tagTxn'[h].names) \subseteq tagTxn'[h].tags,
           tagTxn'[h].stage = "inserting" =>
               {l \in Tag!LinksOf(tagTxn'[h].owner) : links[l].tag \in tagTxn'[h].tags}
                   \subseteq tagTxn'[h].links
    PROVE  TagSerial'
  <1>1. \A i, j \in DOMAIN tags' : tags'[i] = tags'[j] => i = j
    BY DEF TagSerial
  <1>2. \A k, l \in DOMAIN links' :
          links'[k].owner = links'[l].owner /\ links'[k].tag = links'[l].tag => k = l
    BY DEF TagSerial
  <1>3. Tag!Named(tagTxn[h].names)' = Tag!Named(tagTxn'[h].names)
    BY DEF Tag!Named
  <1>4. {l \in Tag!LinksOf(tagTxn[h].owner) : links[l].tag \in tagTxn[h].tags}'
            = {l \in Tag!LinksOf(tagTxn'[h].owner) : links[l].tag \in tagTxn'[h].tags}
    BY DEF Tag!LinksOf
  <1>5. QED
    BY <1>1, <1>2, <1>3, <1>4 DEF TagSerial

\* Before and after a step of a handler, the others are idle.
LEMMA TagOthersRest ==
    ASSUME TagInv, OneUnderWay(tagTxn), OneUnderWay(tagTxn'), NEW h \in Handlers,
           \/ \E o \in Owners, names \in SUBSET Names : Tag!Sync(h, o, names)
           \/ Tag!Clear(h) \/ Tag!FindTags(h) \/ Tag!CreateTags(h)
           \/ Tag!FindLinks(h) \/ Tag!InsertLinks(h) \/ Tag!Activate(h)
           \/ Tag!FindActive(h) \/ Tag!Deactivate(h) \/ Tag!Interrupt(h)
    PROVE  \A g \in Handlers \ {h} : tagTxn'[g].stage = "idle"
  <1>1. ASSUME NEW o \in Owners, NEW names \in SUBSET Names, Tag!Sync(h, o, names)
        PROVE  \A g \in Handlers \ {h} : tagTxn'[g].stage = "idle"
    <2>1. tagTxn'[h].stage # "idle"
      BY <1>1 DEF Tag!Sync, Tag!Idle
    <2>2. QED
      BY <2>1 DEF OneUnderWay
  <1>2. ASSUME tagTxn[h].stage # "idle", NEW next, tagTxn' = [tagTxn EXCEPT ![h] = next]
        PROVE  \A g \in Handlers \ {h} : tagTxn'[g].stage = "idle"
    <2>1. \A g \in Handlers \ {h} : tagTxn'[g] = tagTxn[g]
      BY <1>2 DEF TagInv, Tag!TypeOK
    <2>2. QED
      BY <1>2, <2>1 DEF OneUnderWay
  <1>3. ASSUME NEW from, NEW next, Tag!Step(h, from, next), from # "idle"
        PROVE  \A g \in Handlers \ {h} : tagTxn'[g].stage = "idle"
    BY <1>2, <1>3 DEF Tag!Step
  <1>4. CASE Tag!Clear(h) \/ Tag!Deactivate(h)
    BY <1>3, <1>4 DEF Tag!Clear, Tag!Deactivate, Tag!Finish
  <1>5. CASE Tag!FindTags(h) \/ Tag!CreateTags(h) \/ Tag!FindLinks(h) \/ Tag!InsertLinks(h)
    BY <1>3, <1>5 DEF Tag!FindTags, Tag!CreateTags, Tag!FindLinks, Tag!InsertLinks
  <1>6. CASE Tag!Activate(h) \/ Tag!FindActive(h)
    BY <1>3, <1>6 DEF Tag!Activate, Tag!FindActive
  <1>7. CASE Tag!Interrupt(h)
    BY <1>2, <1>7 DEF Tag!Interrupt
  <1>8. QED
    BY <1>1, <1>4, <1>5, <1>6, <1>7

\* Every step of the handler under way.
LEMMA TagSerialInductive ==
    ASSUME TagConstants, TagInv, TagSerial, OneUnderWay(tagTxn), OneUnderWay(tagTxn'),
           [Tag!Next]_(Tag!vars)
    PROVE  TagSerial'
  <1>1. CASE UNCHANGED Tag!vars
    <2>1. UNCHANGED <<tags, links, tagTxn>>
      BY <1>1 DEF Tag!vars
    <2>2. QED
      BY <2>1 DEF TagSerial, Tag!Named, Tag!LinksOf
  <1>2. CASE Tag!Next
    <2> SUFFICES ASSUME NEW h \in Handlers,
                        \/ \E o \in Owners, names \in SUBSET Names : Tag!Sync(h, o, names)
                        \/ Tag!Clear(h) \/ Tag!FindTags(h) \/ Tag!CreateTags(h)
                        \/ Tag!FindLinks(h) \/ Tag!InsertLinks(h) \/ Tag!Activate(h)
                        \/ Tag!FindActive(h) \/ Tag!Deactivate(h) \/ Tag!Interrupt(h)
                 PROVE  TagSerial'
      BY <1>2 DEF Tag!Next
    <2>1. /\ tagTxn \in [Handlers -> Tag!Transaction]
          /\ \A g \in Handlers \ {h} : tagTxn'[g].stage = "idle"
      BY TagOthersRest DEF TagInv, Tag!TypeOK
    <2>2. tagTxn[h] \in Tag!Transaction
      BY <2>1
    <2>3. ASSUME NEW o \in Owners, NEW names \in SUBSET Names, Tag!Sync(h, o, names)
          PROVE  TagSerial'
      <3>1. UNCHANGED <<tags, links>> /\ tagTxn'[h].stage \in {"clearing", "finding"}
        BY <2>3 DEF Tag!Sync, Tag!Idle
      <3>2. QED
        BY <2>1, <3>1, TagSerialQuiet
    <2>4. ASSUME NEW from, Tag!Finish(h, from), UNCHANGED tags, NEW S, NEW a,
                 Tag!SetActive(S, a)
          PROVE  TagSerial'
      <3>1. tagTxn'[h].stage = "idle"
        BY <2>1, <2>4 DEF Tag!Finish, Tag!Step, Tag!Idle
      <3>2. /\ DOMAIN links' = DOMAIN links
            /\ \A l \in DOMAIN links :
                  links'[l].owner = links[l].owner /\ links'[l].tag = links[l].tag
        BY <2>4 DEF Tag!SetActive
      <3>3. QED
        BY <2>1, <2>4, <3>1, <3>2, TagSerialQuiet
    <2>5. CASE Tag!FindTags(h)
      <3>1. UNCHANGED <<tags, links>> /\ tagTxn[h].stage = "finding"
        BY <2>5 DEF Tag!FindTags, Tag!Step
      <3>2. /\ tagTxn'[h].stage # "inserting" /\ tagTxn'[h].names = tagTxn[h].names
            /\ tagTxn'[h].tags = Tag!Named(tagTxn[h].names)
        <4>1. PICK t \in Tag!Transaction : t = tagTxn[h]
          BY <2>2
        <4>2. PICK found : found = Tag!Named(t.names)
          OBVIOUS
        <4>3. PICK to \in {"linking", "creating"} :
                 tagTxn' = [tagTxn EXCEPT ![h] = [t EXCEPT !.stage = to, !.tags = found]]
          BY <2>5, <4>1, <4>2 DEF Tag!FindTags, Tag!Step
        <4>4. tagTxn'[h] = [t EXCEPT !.stage = to, !.tags = found]
          BY <2>1, <4>3
        <4>5. QED
          BY <4>1, <4>2, <4>4 DEF Tag!Transaction
      <3>3. QED
        BY <2>1, <3>1, <3>2, TagSerialQuiet
    <2>6. CASE Tag!CreateTags(h)
      <3>1. PICK new \in SUBSET (1..MaxTags) : TagsMade(h, new)
        BY <2>6, TagMakesTags
      <3>2. tagTxn[h].stage = "creating" /\ UNCHANGED links
        BY <2>6 DEF Tag!CreateTags, Tag!Step
      <3>3. /\ DOMAIN tags' = DOMAIN tags \union new
            /\ \A i \in DOMAIN tags : tags'[i] = tags[i]
            /\ \A i, j \in new : tags'[i] = tags'[j] => i = j
        BY <3>1 DEF TagsMade
      <3>4. \A i \in new : tags'[i] \in tagTxn[h].names \ {tags[j] : j \in tagTxn[h].tags}
        BY <3>1 DEF TagsMade
      <3>5. \A i \in new, j \in DOMAIN tags : tags'[i] # tags'[j]
        <4>1. SUFFICES ASSUME NEW i \in new, NEW j \in DOMAIN tags, tags'[i] = tags'[j]
                       PROVE  FALSE
          OBVIOUS
        <4>2. tags[j] \in tagTxn[h].names \ {tags[k] : k \in tagTxn[h].tags}
          BY <3>3, <3>4, <4>1
        <4>3. j \in Tag!Named(tagTxn[h].names)
          BY <4>2 DEF Tag!Named, Tag!Like
        <4>4. j \in tagTxn[h].tags
          BY <3>2, <4>3 DEF TagSerial
        <4>5. QED
          BY <4>2, <4>4
      <3>6. \A i, j \in DOMAIN tags' : tags'[i] = tags'[j] => i = j
        BY <3>3, <3>5 DEF TagSerial
      <3>7. tagTxn'[h].stage = "linking"
        <4>1. PICK t \in Tag!Transaction : t = tagTxn[h]
          BY <2>2
        <4>2. tagTxn'[h] = [t EXCEPT !.stage = "linking", !.tags = t.tags \union new]
          BY <2>1, <3>1, <4>1 DEF TagsMade
        <4>3. QED
          BY <4>2 DEF Tag!Transaction
      <3>8. QED
        BY <2>1, <3>2, <3>6, <3>7 DEF TagSerial
    <2>7. CASE Tag!FindLinks(h)
      <3>1. UNCHANGED <<tags, links>>
        BY <2>7 DEF Tag!FindLinks, Tag!Step
      <3>2. PICK t \in Tag!Transaction : t = tagTxn[h]
        BY <2>2
      <3>3. PICK S : S = {l \in Tag!LinksOf(t.owner) : links[l].tag \in t.tags}
        OBVIOUS
      <3>4. tagTxn' = [tagTxn EXCEPT ![h] =
                [t EXCEPT !.stage = "inserting", !.links = S,
                          !.inactive = S \ Tag!ActiveOf(t.owner)]]
        BY <2>7, <3>2, <3>3 DEF Tag!FindLinks, Tag!Step
      <3>5. tagTxn'[h] = [t EXCEPT !.stage = "inserting", !.links = S,
                                   !.inactive = S \ Tag!ActiveOf(t.owner)]
        BY <2>1, <3>4
      <3>6. /\ tagTxn'[h].stage = "inserting" /\ tagTxn'[h].links = S
            /\ tagTxn'[h].owner = t.owner /\ tagTxn'[h].tags = t.tags
        BY <3>5 DEF Tag!Transaction
      <3>7. QED
        BY <2>1, <3>1, <3>3, <3>6, TagSerialQuiet
    <2>8. CASE Tag!InsertLinks(h)
      <3>1. PICK new \in SUBSET (1..MaxLinks) : LinksMade(h, new)
        BY <2>8, TagMakesLinks
      <3>2. tagTxn[h].stage = "inserting" /\ UNCHANGED tags
        BY <2>8 DEF Tag!InsertLinks, Tag!Step
      <3>3. /\ DOMAIN links' = DOMAIN links \union new
            /\ \A l \in DOMAIN links : links'[l] = links[l]
            /\ \A k, l \in new : links'[k].tag = links'[l].tag => k = l
        BY <3>1 DEF LinksMade
      <3>4. \A l \in new : /\ links'[l].owner = tagTxn[h].owner
                           /\ links'[l].tag \in tagTxn[h].tags \ Tag!TagsOf(tagTxn[h].links)
        BY <3>1 DEF LinksMade
      <3>5. \A k \in new, l \in DOMAIN links :
               ~(links'[k].owner = links'[l].owner /\ links'[k].tag = links'[l].tag)
        <4>1. SUFFICES ASSUME NEW k \in new, NEW l \in DOMAIN links,
                              links'[k].owner = links'[l].owner, links'[k].tag = links'[l].tag
                       PROVE  FALSE
          OBVIOUS
        <4>2. /\ links[l].owner = tagTxn[h].owner
              /\ links[l].tag \in tagTxn[h].tags \ Tag!TagsOf(tagTxn[h].links)
          BY <3>3, <3>4, <4>1
        <4>3. l \in Tag!LinksOf(tagTxn[h].owner)
          BY <4>2 DEF Tag!LinksOf
        <4>4. l \in tagTxn[h].links
          BY <3>2, <4>2, <4>3 DEF TagSerial
        <4>5. QED
          BY <4>2, <4>4 DEF Tag!TagsOf
      <3>6. \A k, l \in DOMAIN links' :
               links'[k].owner = links'[l].owner /\ links'[k].tag = links'[l].tag => k = l
        BY <3>3, <3>5 DEF TagSerial
      <3>7. tagTxn'[h].stage = "activating"
        <4>1. PICK t \in Tag!Transaction : t = tagTxn[h]
          BY <2>2
        <4>2. tagTxn'[h] = [t EXCEPT !.stage = "activating"]
          BY <2>1, <3>1, <4>1 DEF LinksMade
        <4>3. QED
          BY <4>2 DEF Tag!Transaction
      <3>8. QED
        BY <2>1, <3>2, <3>6, <3>7 DEF TagSerial
    <2>9. CASE Tag!Activate(h)
      <3>1. UNCHANGED tags
        BY <2>9 DEF Tag!Activate
      <3>2. /\ DOMAIN links' = DOMAIN links
            /\ \A l \in DOMAIN links :
                  links'[l].owner = links[l].owner /\ links'[l].tag = links[l].tag
        BY <2>9 DEF Tag!Activate, Tag!SetActive
      <3>3. tagTxn'[h].stage = "listing"
        BY <2>1, <2>2, <2>9 DEF Tag!Activate, Tag!Step, Tag!Transaction
      <3>4. QED
        BY <2>1, <3>1, <3>2, <3>3, TagSerialQuiet
    <2>10. CASE Tag!FindActive(h)
      <3>1. UNCHANGED <<tags, links>>
        BY <2>10 DEF Tag!FindActive, Tag!Step
      <3>2. tagTxn'[h].stage = "deactivating"
        BY <2>1, <2>2, <2>10 DEF Tag!FindActive, Tag!Step, Tag!Transaction
      <3>3. QED
        BY <2>1, <3>1, <3>2, TagSerialQuiet
    <2>11. CASE Tag!Interrupt(h)
      <3>1. UNCHANGED <<tags, links>> /\ tagTxn'[h].stage = "idle"
        BY <2>1, <2>11 DEF Tag!Interrupt, Tag!Idle
      <3>2. QED
        BY <2>1, <3>1, TagSerialQuiet
    <2>12. Tag!Clear(h) \/ Tag!Deactivate(h) => TagSerial'
      BY <2>4 DEF Tag!Clear, Tag!Deactivate
    <2>13. QED
      BY <2>3, <2>5, <2>6, <2>7, <2>8, <2>9, <2>10, <2>11, <2>12
  <1>3. QED
    BY <1>1, <1>2

\* Whatever overlaps and is cut short between two of the seven statements, an
\* owner shows no tags but those of the last request that was answered, of
\* requests under way with it, and of later ones, and tags the database takes
\* for one of these; and once a request is answered that no other of its owner
\* overlapped, the tags of all its names.  One request at a time, an owner has
\* one link to a tag of a name and so shows it once (syncTags, syncMemberTags,
\* getOrCreateTags).
THEOREM TagsStayAsRequested ==
    ASSUME TagConstants
    PROVE  TagSpec => []TagsAsRequested
  <1> DEFINE Inv == TagInv /\ TagBound /\ (inTurn => OneUnderWay(tagTxn) /\ TagSerial)
             Step == Tag!Next /\ UNCHANGED inTurn /\ (inTurn => OneUnderWay(tagTxn'))
  <1>1. Tag!Init => Inv
    <2>1. SUFFICES ASSUME Tag!Init
                   PROVE  OneUnderWay(tagTxn) /\ TagSerial /\ TagBound
      BY TagInit
    <2>2. /\ DOMAIN tags = {} /\ DOMAIN links = {}
          /\ \A h \in Handlers : tagTxn[h].stage = "idle"
      BY <2>1, EmptySeq DEF Tag!Init, Tag!Idle
    <2>3. QED
      BY <2>2 DEF TagSerial, TagBound, OneUnderWay, Tag!ActiveOf, Tag!LinksOf
  <1>2. Inv /\ [Step]_<<tagVars, inTurn>> => Inv'
    <2> SUFFICES ASSUME Inv, [Step]_<<tagVars, inTurn>>
                 PROVE  Inv'
      OBVIOUS
    <2>1. [Tag!Next]_(Tag!vars) /\ inTurn' = inTurn
      BY DEF tagVars, Tag!vars
    <2>2. inTurn /\ OneUnderWay(tagTxn) => OneUnderWay(tagTxn')
      BY DEF tagVars
    <2>3. TagInv' /\ TagBound'
      BY <2>1, TagInductive, TagBoundInductive
    <2>4. inTurn => OneUnderWay(tagTxn)' /\ TagSerial'
      <3>1. SUFFICES ASSUME inTurn
                     PROVE  OneUnderWay(tagTxn') /\ TagSerial'
        BY DEF OneUnderWay
      <3>2. OneUnderWay(tagTxn) /\ OneUnderWay(tagTxn')
        BY <2>2, <3>1
      <3>3. QED
        BY <2>1, <3>1, <3>2, TagSerialInductive
    <2>5. QED
      BY <2>1, <2>3, <2>4
  <1>3. Inv => TagsAsRequested
    <2>1. TagInv /\ TagBound => Tag!TypeOK /\ Tag!TagsAsRequested
      BY DEF TagInv, TagBound, Tag!TagsAsRequested, Tag!ShownNames, Tag!TagsOf
    <2>2. ASSUME TagInv, TagSerial
          PROVE  Tag!NoTagTwice
      <3>1. \A l \in DOMAIN links : links[l].tag \in DOMAIN tags
        BY <2>2 DEF TagInv, Tag!TypeOK
      <3>2. QED
        BY <2>2, <3>1 DEF TagSerial, Tag!NoTagTwice, Tag!LinksOf
    <2>3. QED
      BY <2>1, <2>2 DEF TagsAsRequested
  <1>4. QED
    BY <1>1, <1>2, <1>3, PTL DEF TagSpec

-----------------------------------------------------------------------------
\* Inquiries.

\* A request is a member's or an administrator's; null is no id and no text,
\* and a text that is blank is no answer.
QuestionConstants ==
    /\ MaxInquiries \in Nat /\ MaxUpdates \in Nat
    /\ Asking \intersect Admins = {}
    /\ None \notin Nat /\ None \notin Answers /\ Question!Blank \notin Answers

\* Where requests of members and of administrators may be; what an
\* administrator is about to save has an answer if it is answered.
QuestionRecord(t) ==
    /\ t.stage = "idle" => t = Question!Idle
    /\ t.stage # "idle" => t.id \in DOMAIN inquiries
    /\ t.stage = "answering" => {t.id} \X t.images \subseteq inquiryImages
    /\ t.stage \in {"saving", "updating"} =>
          /\ t.entity \in Question!Inquiry
          /\ t.entity.status = "ANSWERED" => t.entity.answer \in Answers /\ t.entity.answeredAt
    /\ OneAdmin /\ t.stage = "updating" =>
          t.columns = Question!Changed(t.entity, inquiries[t.id])

QuestionInv ==
    /\ Question!TypeOK
    /\ \A h \in Question!Callers : QuestionRecord(inquiryTxn[h])
    /\ \A m \in Asking : inquiryTxn[m].stage \notin {"saving", "updating"}
    /\ \A a \in Admins : inquiryTxn[a].stage \in {"idle", "saving", "updating"}
    /\ OneAdmin => \A a, b \in Admins :
          a = b \/ inquiryTxn[a].stage = "idle" \/ inquiryTxn[b].stage = "idle"
    /\ \A id \in DOMAIN inquiries : {id} \X sentImages[id] \subseteq inquiryImages
    /\ OneAdmin => \A id \in DOMAIN inquiries :
          inquiries[id].status = "ANSWERED" =>
              inquiries[id].answer \in Answers /\ inquiries[id].answeredAt

\* The row after an UPDATE of the columns that differ is the entity.
LEMMA QuestionWritten ==
    ASSUME NEW entity \in Question!Inquiry, NEW row \in Question!Inquiry,
           NEW columns
    PROVE  /\ Question!Written(entity, row, columns) \in Question!Inquiry
           /\ columns = Question!Changed(entity, row) =>
                 Question!Written(entity, row, columns) = entity
  <1> DEFINE w == Question!Written(entity, row, columns)
  <1>1. DOMAIN row = {"status", "answer", "answeredAt", "closedAt", "adminId"}
    BY DEF Question!Inquiry
  <1>2. /\ w.status = IF "status" \in columns THEN entity.status ELSE row.status
        /\ w.answer = IF "answer" \in columns THEN entity.answer ELSE row.answer
        /\ w.answeredAt = IF "answeredAt" \in columns THEN entity.answeredAt ELSE row.answeredAt
        /\ w.closedAt = IF "closedAt" \in columns THEN entity.closedAt ELSE row.closedAt
        /\ w.adminId = IF "adminId" \in columns THEN entity.adminId ELSE row.adminId
    BY <1>1 DEF Question!Written
  <1>3. w = [status |-> w.status, answer |-> w.answer, answeredAt |-> w.answeredAt,
             closedAt |-> w.closedAt, adminId |-> w.adminId]
    BY <1>1 DEF Question!Written
  <1>4. w \in Question!Inquiry
    BY <1>2, <1>3 DEF Question!Inquiry
  <1>5. ASSUME columns = Question!Changed(entity, row)
        PROVE  w = entity
    <2>1. \A c \in DOMAIN row : w[c] = entity[c]
      BY <1>5 DEF Question!Written, Question!Changed
    <2>2. DOMAIN entity = DOMAIN row
      BY DEF Question!Inquiry
    <2>3. entity = [c \in DOMAIN row |-> entity[c]]
      BY <2>2 DEF Question!Inquiry
    <2>4. w = [c \in DOMAIN row |-> w[c]]
      BY DEF Question!Written
    <2>5. QED
      BY <2>1, <2>3, <2>4
  <1>6. QED
    BY <1>4, <1>5

\* The tables, their ids and what members were told.
QuestionTables ==
    /\ \E n \in 0..MaxInquiries : inquiries \in [1..n -> Question!Inquiry]
    /\ inquiryImages \subseteq (DOMAIN inquiries) \X Question!Files(Question!MaxFiles)
    /\ sentImages \in [DOMAIN inquiries -> SUBSET Question!Files(Question!MaxFiles)]
    /\ updates \in 0..MaxUpdates

ImagesKept == \A id \in DOMAIN inquiries : {id} \X sentImages[id] \subseteq inquiryImages

AnswersKept ==
    OneAdmin => \A id \in DOMAIN inquiries :
        inquiries[id].status = "ANSWERED" =>
            inquiries[id].answer \in Answers /\ inquiries[id].answeredAt

\* A step of one handler.
LEMMA QuestionAfter ==
    ASSUME QuestionConstants, QuestionInv, NEW h \in Question!Callers,
           NEW next \in Question!Transaction, inquiryTxn' = [inquiryTxn EXCEPT ![h] = next],
           QuestionTables', ImagesKept', AnswersKept',
           DOMAIN inquiries \subseteq DOMAIN inquiries', inquiryImages \subseteq inquiryImages',
           OneAdmin => \A g \in Question!Callers \ {h} : inquiryTxn[g].stage = "updating" =>
               inquiries'[inquiryTxn[g].id] = inquiries[inquiryTxn[g].id],
           QuestionRecord(next)',
           h \in Asking => next.stage \notin {"saving", "updating"},
           h \in Admins => next.stage \in {"idle", "saving", "updating"},
           OneAdmin /\ h \in Admins /\ next.stage # "idle" =>
               \A a \in Admins \ {h} : inquiryTxn[a].stage = "idle"
    PROVE  QuestionInv'
  <1>1. /\ inquiryTxn \in [Question!Callers -> Question!Transaction]
        /\ inquiryTxn'[h] = next
        /\ \A g \in Question!Callers \ {h} : inquiryTxn'[g] = inquiryTxn[g]
        /\ Asking \subseteq Question!Callers /\ Admins \subseteq Question!Callers
    BY DEF QuestionInv, Question!TypeOK, Question!Callers
  <1>2. ASSUME NEW g \in Question!Callers
        PROVE  QuestionRecord(inquiryTxn[g])'
    <2>1. CASE g = h
      BY <1>1, <2>1 DEF QuestionRecord
    <2>2. CASE g # h
      <3>1. PICK t \in Question!Transaction : t = inquiryTxn[g]
        BY <1>1
      <3>2. QuestionRecord(t) /\ t = inquiryTxn'[g]
        BY <1>1, <2>2, <3>1 DEF QuestionInv
      <3>3. OneAdmin /\ t.stage = "updating" => inquiries'[t.id] = inquiries[t.id]
        BY <2>2, <3>1
      <3>4. QuestionRecord(t)'
        BY <3>2, <3>3 DEF QuestionRecord, Question!Changed
      <3>5. QED
        BY <3>2, <3>4 DEF QuestionRecord
    <2>3. QED
      BY <2>1, <2>2
  <1>3. \A g \in Question!Callers :
            inquiryTxn'[g] # Question!Idle => inquiryTxn'[g].id \in DOMAIN inquiries'
    BY <1>2 DEF QuestionRecord
  <1>4. Question!TypeOK'
    <2>1. inquiryTxn' \in [Question!Callers -> Question!Transaction]
      BY <1>1
    <2>2. Question!Idle' = Question!Idle
      BY DEF Question!Idle
    <2>3. QED
      BY <1>3, <2>1, <2>2 DEF Question!TypeOK, QuestionTables
  <1>5. \A m \in Asking : inquiryTxn'[m].stage \notin {"saving", "updating"}
    BY <1>1 DEF QuestionInv
  <1>6. \A a \in Admins : inquiryTxn'[a].stage \in {"idle", "saving", "updating"}
    BY <1>1 DEF QuestionInv
  <1>7. ASSUME OneAdmin, NEW a \in Admins, NEW b \in Admins, a # b
        PROVE  inquiryTxn'[a].stage = "idle" \/ inquiryTxn'[b].stage = "idle"
    <2>1. inquiryTxn[a].stage = "idle" \/ inquiryTxn[b].stage = "idle"
      BY <1>7 DEF QuestionInv
    <2>2. CASE a # h /\ b # h
      BY <1>1, <2>1, <2>2
    <2>3. CASE a = h
      BY <1>1, <1>7, <2>3
    <2>4. CASE b = h
      BY <1>1, <1>7, <2>4
    <2>5. QED
      BY <2>2, <2>3, <2>4
  <1>8. QED
    BY <1>2, <1>4, <1>5, <1>6, <1>7 DEF QuestionInv, ImagesKept, AnswersKept

\* A step that leaves the tables alone.
LEMMA QuestionQuiet ==
    ASSUME QuestionConstants, QuestionInv, NEW h \in Question!Callers,
           NEW next \in Question!Transaction, inquiryTxn' = [inquiryTxn EXCEPT ![h] = next],
           UNCHANGED <<inquiries, inquiryImages, sentImages>>, updates' \in 0..MaxUpdates,
           QuestionRecord(next),
           h \in Asking => next.stage \notin {"saving", "updating"},
           h \in Admins => next.stage \in {"idle", "saving", "updating"},
           OneAdmin /\ h \in Admins /\ next.stage # "idle" =>
               \A a \in Admins \ {h} : inquiryTxn[a].stage = "idle"
    PROVE  QuestionInv'
  <1>1. QuestionTables'
    BY DEF QuestionInv, Question!TypeOK, QuestionTables
  <1>2. ImagesKept' /\ AnswersKept'
    BY DEF QuestionInv, ImagesKept, AnswersKept
  <1>3. QuestionRecord(next)'
    BY DEF QuestionRecord, Question!Changed
  <1>4. QED
    BY <1>1, <1>2, <1>3, QuestionAfter

\* A handler at rest.
LEMMA QuestionIdle ==
    ASSUME QuestionConstants
    PROVE  Question!Idle \in Question!Transaction /\ QuestionRecord(Question!Idle)
  <1>1. PICK t : t = Question!Idle
    OBVIOUS
  <1>2. t \in Question!Transaction /\ t.stage = "idle"
    BY <1>1 DEF Question!Idle, Question!Transaction
  <1>3. QuestionRecord(t)
    BY <1>1, <1>2 DEF QuestionRecord
  <1>4. QED
    BY <1>1, <1>2, <1>3

\* The handler ends.
LEMMA QuestionEnds ==
    ASSUME QuestionConstants, QuestionInv, NEW h \in Question!Callers, Question!Done(h),
           UNCHANGED <<inquiries, inquiryImages, sentImages, updates>>
    PROVE  QuestionInv'
  <1>1. PICK next \in Question!Transaction : next = Question!Idle
    BY QuestionIdle
  <1>2. /\ inquiryTxn' = [inquiryTxn EXCEPT ![h] = next] /\ QuestionRecord(next)
        /\ next.stage = "idle"
    BY <1>1, QuestionIdle DEF Question!Done, Question!Goto, Question!Idle
  <1>3. updates' \in 0..MaxUpdates
    BY DEF QuestionInv, Question!TypeOK
  <1>4. QED
    BY <1>2, <1>3, QuestionQuiet

\* A handler within its request.
LEMMA QuestionHandler ==
    ASSUME QuestionConstants, QuestionInv, NEW h \in Question!Callers
    PROVE  /\ inquiryTxn[h] \in Question!Transaction /\ QuestionRecord(inquiryTxn[h])
           /\ h \in Asking => h \notin Admins /\ inquiryTxn[h].stage \notin {"saving", "updating"}
           /\ h \in Admins => h \notin Asking /\ inquiryTxn[h].stage \in {"idle", "saving", "updating"}
           /\ OneAdmin /\ h \in Admins /\ inquiryTxn[h].stage # "idle" =>
                 \A a \in Admins \ {h} : inquiryTxn[a].stage = "idle"
           /\ QuestionTables
           /\ \A id \in DOMAIN inquiries : inquiries[id] \in Question!Inquiry /\ id \in 1..MaxInquiries
  <1>1. inquiryTxn[h] \in Question!Transaction /\ QuestionRecord(inquiryTxn[h]) /\ QuestionTables
    BY DEF QuestionInv, Question!TypeOK, QuestionTables
  <1>2. h \in Asking => h \notin Admins /\ inquiryTxn[h].stage \notin {"saving", "updating"}
    BY DEF QuestionInv, QuestionConstants
  <1>3. h \in Admins => h \notin Asking /\ inquiryTxn[h].stage \in {"idle", "saving", "updating"}
    BY DEF QuestionInv, QuestionConstants
  <1>4. OneAdmin /\ h \in Admins /\ inquiryTxn[h].stage # "idle" =>
            \A a \in Admins \ {h} : inquiryTxn[a].stage = "idle"
    BY DEF QuestionInv
  <1>5. \A id \in DOMAIN inquiries : inquiries[id] \in Question!Inquiry /\ id \in 1..MaxInquiries
    <2>1. PICK n \in 0..MaxInquiries : inquiries \in [1..n -> Question!Inquiry]
      BY <1>1 DEF QuestionTables
    <2>2. 1..n \subseteq 1..MaxInquiries
      BY DEF QuestionConstants
    <2>3. QED
      BY <2>1, <2>2
  <1>6. QED
    BY <1>1, <1>2, <1>3, <1>4, <1>5

\* create: the new inquiry has no answer and no pictures.
LEMMA QuestionCreate ==
    ASSUME QuestionConstants, QuestionInv, NEW m \in Asking,
           NEW k \in 0..(Question!MaxFiles + 1), Question!Create(m, k)
    PROVE  QuestionInv'
  <1>1. m \in Question!Callers
    BY DEF Question!Callers
  <1>2. QuestionTables /\ m \notin Admins
    BY <1>1, QuestionHandler
  <1>3. PICK n \in 0..MaxInquiries : inquiries \in [1..n -> Question!Inquiry]
    BY <1>2 DEF QuestionTables
  <1>4. PICK id : id = Question!Cardinality(DOMAIN inquiries) + 1
    OBVIOUS
  <1>5. id = n + 1 /\ n \in Nat
    <2>1. Cardinality(1..n) = n /\ n \in Nat
      BY FS_Interval DEF QuestionConstants
    <2>2. Question!Cardinality(1..n) = Cardinality(1..n)
      BY DEF Question!Cardinality, Cardinality
    <2>3. QED
      BY <1>3, <1>4, <2>1, <2>2
  <1>6. /\ id \in 1..MaxInquiries
        /\ inquiries' = [i \in 1..id |-> IF i = id THEN Question!Asked ELSE inquiries[i]]
        /\ sentImages' = [i \in 1..id |-> IF i = id THEN {} ELSE sentImages[i]]
        /\ Question!Goto(m, [Question!Idle EXCEPT !.stage = IF k > 0 THEN "uploading" ELSE "answering",
                                                  !.id = id, !.images = Question!Files(k)])
        /\ UNCHANGED <<inquiryImages, updates>> /\ k <= Question!MaxFiles
    BY <1>4 DEF Question!Create, Question!Ids, Question!Valid
  <1>7. \A i \in 1..id : i = id \/ i \in 1..n
    BY <1>5
  <1>8. DOMAIN inquiries = 1..n /\ DOMAIN inquiries' = 1..id /\ 1..n \subseteq 1..id
    BY <1>3, <1>5, <1>6
  <1>9. id \notin 1..n
    BY <1>5
  <1>10. Question!Asked \in Question!Inquiry /\ Question!Asked.status = "PENDING"
    BY DEF Question!Asked, Question!Inquiry, Question!Statuses
  <1>11. \A i \in 1..n : inquiries'[i] = inquiries[i] /\ sentImages'[i] = sentImages[i]
    BY <1>6, <1>8, <1>9
  <1>12. QuestionTables'
    <2>1. inquiries' \in [1..id -> Question!Inquiry]
      BY <1>3, <1>6, <1>7, <1>10
    <2>2. sentImages' \in [1..id -> SUBSET Question!Files(Question!MaxFiles)]
      BY <1>2, <1>6, <1>7, <1>8 DEF QuestionTables
    <2>3. id \in 0..MaxInquiries
      BY <1>5, <1>6
    <2>4. Question!Files(Question!MaxFiles)' = Question!Files(Question!MaxFiles)
      BY DEF Question!Files, Question!MaxFiles
    <2>5. QED
      BY <1>2, <1>6, <1>8, <2>1, <2>2, <2>3, <2>4 DEF QuestionTables
  <1>13. ImagesKept'
    <2>1. sentImages'[id] = {}
      BY <1>5, <1>6
    <2>2. ImagesKept
      BY DEF QuestionInv, ImagesKept
    <2>3. ASSUME NEW i \in DOMAIN inquiries'
          PROVE  {i} \X sentImages'[i] \subseteq inquiryImages'
      <3>1. CASE i = id
        BY <2>1, <3>1
      <3>2. CASE i # id
        BY <1>6, <1>7, <1>8, <1>11, <2>2, <3>2 DEF ImagesKept
      <3>3. QED
        BY <3>1, <3>2
    <2>4. QED
      BY <2>3 DEF ImagesKept
  <1>14. AnswersKept'
    <2>1. inquiries'[id].status = "PENDING"
      BY <1>5, <1>6, <1>10
    <2>2. QED
      BY <1>7, <1>8, <1>11, <2>1 DEF QuestionInv, AnswersKept
  <1>15. PICK to \in {"uploading", "answering"} :
            to = (IF k > 0 THEN "uploading" ELSE "answering") /\ (to = "answering" => k = 0)
    OBVIOUS
  <1>16. PICK S \in SUBSET Question!Files(Question!MaxFiles) :
            S = Question!Files(k) /\ (k = 0 => S = {})
    BY <1>6 DEF Question!Files, Question!MaxFiles
  <1>17. PICK next \in Question!Transaction :
            /\ inquiryTxn' = [inquiryTxn EXCEPT ![m] = next]
            /\ next.stage = to /\ next.id = id /\ next.images = S
    <2> DEFINE next == [Question!Idle EXCEPT !.stage = to, !.id = id, !.images = S]
    <2>1. /\ next \in Question!Transaction
          /\ next.stage = to /\ next.id = id /\ next.images = S
      BY <1>6 DEF Question!Transaction, Question!Idle, Question!Ids
    <2>2. inquiryTxn' = [inquiryTxn EXCEPT ![m] = next]
      BY <1>6, <1>15, <1>16 DEF Question!Goto
    <2> HIDE DEF next
    <2>3. QED
      BY <2>1, <2>2
  <1>18. QuestionRecord(next)'
    <2>1. next.stage = "answering" => next.images = {}
      BY <1>15, <1>16, <1>17
    <2>2. id \in DOMAIN inquiries'
      BY <1>5, <1>8
    <2>3. QED
      BY <1>17, <2>1, <2>2 DEF QuestionRecord
  <1>19. ASSUME NEW g \in Question!Callers \ {m}, inquiryTxn[g].stage = "updating"
         PROVE  inquiries'[inquiryTxn[g].id] = inquiries[inquiryTxn[g].id]
    <2>1. inquiryTxn[g].id \in 1..n
      BY <1>8, <1>19, QuestionHandler DEF QuestionRecord
    <2>2. QED
      BY <1>11, <2>1
  <1>20. next.stage \notin {"saving", "updating"} /\ m \notin Admins
    BY <1>2, <1>17
  <1>21. DOMAIN inquiries \subseteq DOMAIN inquiries' /\ inquiryImages \subseteq inquiryImages'
    BY <1>6, <1>8
  <1>22. QED
    BY <1>1, <1>12, <1>13, <1>14, <1>17, <1>18, <1>19, <1>20, <1>21, QuestionAfter

\* The pictures are uploaded.
LEMMA QuestionUpload ==
    ASSUME QuestionConstants, QuestionInv, NEW m \in Asking, Question!Upload(m)
    PROVE  QuestionInv'
  <1>1. m \in Question!Callers
    BY DEF Question!Callers
  <1>2. PICK t \in Question!Transaction : t = inquiryTxn[m]
    BY <1>1, QuestionHandler
  <1>3. QuestionRecord(t) /\ t.stage = "uploading" /\ m \notin Admins
    BY <1>1, <1>2, QuestionHandler DEF Question!Upload
  <1>4. PICK next \in Question!Transaction :
            /\ inquiryTxn' = [inquiryTxn EXCEPT ![m] = next]
            /\ next.stage = "saving images" /\ next.id = t.id /\ next.images = t.images
    <2> DEFINE next == [t EXCEPT !.stage = "saving images"]
    <2>1. /\ next \in Question!Transaction
          /\ next.stage = "saving images" /\ next.id = t.id /\ next.images = t.images
      BY DEF Question!Transaction
    <2>2. inquiryTxn' = [inquiryTxn EXCEPT ![m] = next]
      BY <1>2 DEF Question!Upload, Question!Goto
    <2> HIDE DEF next
    <2>3. QED
      BY <2>1, <2>2
  <1>5. QuestionRecord(next)
    BY <1>3, <1>4 DEF QuestionRecord
  <1>6. UNCHANGED <<inquiries, inquiryImages, sentImages>> /\ updates' \in 0..MaxUpdates
    BY DEF Question!Upload, QuestionInv, Question!TypeOK
  <1>7. QED
    BY <1>1, <1>3, <1>4, <1>5, <1>6, QuestionQuiet

\* Their rows are saved: from now on nobody takes them away.
LEMMA QuestionSaveImages ==
    ASSUME QuestionConstants, QuestionInv, NEW m \in Asking, Question!SaveImages(m)
    PROVE  QuestionInv'
  <1>1. m \in Question!Callers
    BY DEF Question!Callers
  <1>2. PICK t \in Question!Transaction : t = inquiryTxn[m]
    BY <1>1, QuestionHandler
  <1>3. /\ QuestionRecord(t) /\ t.stage = "saving images" /\ m \notin Admins /\ QuestionTables
        /\ inquiryImages' = inquiryImages \union ({t.id} \X t.images)
        /\ UNCHANGED <<inquiries, sentImages, updates>>
    BY <1>1, <1>2, QuestionHandler DEF Question!SaveImages
  <1>4. PICK next \in Question!Transaction :
            /\ inquiryTxn' = [inquiryTxn EXCEPT ![m] = next]
            /\ next.stage = "answering" /\ next.id = t.id /\ next.images = t.images
    <2> DEFINE next == [t EXCEPT !.stage = "answering"]
    <2>1. /\ next \in Question!Transaction
          /\ next.stage = "answering" /\ next.id = t.id /\ next.images = t.images
      BY DEF Question!Transaction
    <2>2. inquiryTxn' = [inquiryTxn EXCEPT ![m] = next]
      BY <1>2 DEF Question!SaveImages, Question!Goto
    <2> HIDE DEF next
    <2>3. QED
      BY <2>1, <2>2
  <1>5. t.id \in DOMAIN inquiries /\ t.images \in SUBSET Question!Files(Question!MaxFiles)
    BY <1>3 DEF QuestionRecord, Question!Transaction
  <1>6. QuestionTables'
    BY <1>3, <1>5 DEF QuestionTables
  <1>7. ImagesKept'
    BY <1>3 DEF ImagesKept, QuestionInv
  <1>8. AnswersKept'
    BY <1>3 DEF AnswersKept, QuestionInv
  <1>9. QuestionRecord(next)'
    BY <1>3, <1>4, <1>5 DEF QuestionRecord
  <1>10. next.stage \notin {"saving", "updating"}
    BY <1>4
  <1>11. QED
    BY <1>1, <1>3, <1>4, <1>6, <1>7, <1>8, <1>9, <1>10, QuestionAfter

\* The member is told which pictures are saved.
LEMMA QuestionAnswer ==
    ASSUME QuestionConstants, QuestionInv, NEW m \in Asking, Question!Answer(m)
    PROVE  QuestionInv'
  <1>1. m \in Question!Callers
    BY DEF Question!Callers
  <1>2. PICK t \in Question!Transaction : t = inquiryTxn[m]
    BY <1>1, QuestionHandler
  <1>3. /\ QuestionRecord(t) /\ t.stage = "answering" /\ m \notin Admins /\ QuestionTables
        /\ sentImages' = [sentImages EXCEPT ![t.id] = t.images]
        /\ UNCHANGED <<inquiries, inquiryImages, updates>>
    BY <1>1, <1>2, QuestionHandler DEF Question!Answer
  <1>4. PICK next \in Question!Transaction : next = Question!Idle
    BY QuestionIdle
  <1>5. /\ inquiryTxn' = [inquiryTxn EXCEPT ![m] = next] /\ next.stage = "idle"
    BY <1>4 DEF Question!Answer, Question!Done, Question!Goto, Question!Idle
  <1>6. QuestionRecord(next)'
    BY <1>4, <1>5 DEF QuestionRecord, Question!Idle
  <1>7. /\ t.id \in DOMAIN inquiries /\ t.images \in SUBSET Question!Files(Question!MaxFiles)
        /\ {t.id} \X t.images \subseteq inquiryImages
    BY <1>3 DEF QuestionRecord, Question!Transaction
  <1>8. QuestionTables'
    BY <1>3, <1>7 DEF QuestionTables
  <1>9. ImagesKept'
    <2>1. \A id \in DOMAIN inquiries : sentImages'[id] = IF id = t.id THEN t.images ELSE sentImages[id]
      BY <1>3 DEF QuestionTables
    <2>2. QED
      BY <1>3, <1>7, <2>1 DEF ImagesKept, QuestionInv
  <1>10. AnswersKept'
    BY <1>3 DEF AnswersKept, QuestionInv
  <1>11. QED
    BY <1>1, <1>3, <1>5, <1>6, <1>8, <1>9, <1>10, QuestionAfter

\* The entity an administrator is about to save.
LEMMA QuestionUpdated ==
    ASSUME QuestionConstants, NEW row \in Question!Inquiry, NEW a \in Admins,
           NEW chosen \in Question!Statuses,
           NEW answer \in Answers \union {Question!Blank, None},
           Question!Required(chosen, answer)
    PROVE  /\ Question!Updated(row, a, chosen, answer) \in Question!Inquiry
           /\ Question!Updated(row, a, chosen, answer).status = "ANSWERED" =>
                 /\ Question!Updated(row, a, chosen, answer).answer \in Answers
                 /\ Question!Updated(row, a, chosen, answer).answeredAt
  <1>1. PICK text : text = IF answer = None THEN row.answer ELSE answer
    OBVIOUS
  <1>2. text \in Answers \union {Question!Blank, None}
    BY <1>1 DEF Question!Inquiry
  <1>3. PICK at \in BOOLEAN : at = (row.answeredAt \/ chosen = "ANSWERED")
    BY DEF Question!Inquiry
  <1>4. PICK closed \in BOOLEAN : closed = (row.closedAt \/ chosen = "CLOSED")
    BY DEF Question!Inquiry
  <1>5. PICK e : e = [row EXCEPT !.status = chosen, !.adminId = a, !.answer = text,
                                 !.answeredAt = at, !.closedAt = closed]
    OBVIOUS
  <1>6. Question!Updated(row, a, chosen, answer) = e
    BY <1>1, <1>3, <1>4, <1>5 DEF Question!Updated
  <1>7. /\ e.status = chosen /\ e.answer = text /\ e.answeredAt = at
        /\ e \in Question!Inquiry
    BY <1>2, <1>5 DEF Question!Inquiry
  <1>8. chosen = "ANSWERED" => text \in Answers /\ at
    BY <1>1, <1>3 DEF Question!Required, QuestionConstants
  <1>9. QED
    BY <1>6, <1>7, <1>8

\* updateByAdmin finds the inquiry.
LEMMA QuestionUpdateFind ==
    ASSUME QuestionConstants, QuestionInv, NEW a \in Admins, NEW id \in 1..MaxInquiries,
           NEW chosen \in Question!Statuses,
           NEW answer \in Answers \union {Question!Blank, None},
           Question!UpdateFind(a, id, chosen, answer)
    PROVE  QuestionInv'
  <1>1. a \in Question!Callers /\ a \notin Asking
    BY DEF Question!Callers, QuestionConstants
  <1>2. /\ id \in DOMAIN inquiries /\ Question!Required(chosen, answer)
        /\ inquiryTxn[a] = Question!Idle
        /\ OneAdmin => \A b \in Admins : inquiryTxn[b] = Question!Idle
        /\ updates' = updates + 1 /\ updates < MaxUpdates
        /\ UNCHANGED <<inquiries, inquiryImages, sentImages>>
    BY DEF Question!UpdateFind
  <1>3. PICK row \in Question!Inquiry : row = inquiries[id]
    BY <1>1, <1>2, QuestionHandler
  <1>4. PICK e \in Question!Inquiry :
            /\ e = Question!Updated(row, a, chosen, answer)
            /\ e.status = "ANSWERED" => e.answer \in Answers /\ e.answeredAt
    BY <1>2, QuestionUpdated
  <1>5. PICK S \in SUBSET Question!Files(Question!MaxFiles) : S = Question!ImagesOf(id)
    BY DEF Question!ImagesOf
  <1>6. PICK next \in Question!Transaction :
            /\ inquiryTxn' = [inquiryTxn EXCEPT ![a] = next]
            /\ next.stage = "saving" /\ next.id = id /\ next.entity = e
    <2> DEFINE next == [Question!Idle EXCEPT !.stage = "saving", !.id = id, !.images = S,
                                             !.entity = e]
    <2>1. /\ next \in Question!Transaction
          /\ next.stage = "saving" /\ next.id = id /\ next.entity = e
      BY DEF Question!Transaction, Question!Idle, Question!Ids
    <2>2. inquiryTxn' = [inquiryTxn EXCEPT ![a] = next]
      BY <1>3, <1>4, <1>5 DEF Question!UpdateFind, Question!Goto
    <2> HIDE DEF next
    <2>3. QED
      BY <2>1, <2>2
  <1>7. QuestionRecord(next)
    BY <1>2, <1>4, <1>6 DEF QuestionRecord
  <1>8. updates' \in 0..MaxUpdates
    BY <1>2 DEF QuestionConstants, QuestionInv, Question!TypeOK
  <1>9. OneAdmin => \A b \in Admins \ {a} : inquiryTxn[b].stage = "idle"
    BY <1>2 DEF Question!Idle
  <1>10. next.stage \in {"idle", "saving", "updating"}
    BY <1>6
  <1>11. QED
    BY <1>1, <1>2, <1>6, <1>7, <1>8, <1>9, <1>10, QuestionQuiet

\* save reads the row again.
LEMMA QuestionSaveSelect ==
    ASSUME QuestionConstants, QuestionInv, NEW a \in Admins, Question!SaveSelect(a)
    PROVE  QuestionInv'
  <1>1. a \in Question!Callers /\ a \notin Asking
    BY DEF Question!Callers, QuestionConstants
  <1>2. PICK t \in Question!Transaction : t = inquiryTxn[a]
    BY <1>1, QuestionHandler
  <1>3. /\ QuestionRecord(t) /\ t.stage = "saving"
        /\ OneAdmin => \A b \in Admins \ {a} : inquiryTxn[b].stage = "idle"
        /\ UNCHANGED <<inquiries, inquiryImages, sentImages, updates>>
    BY <1>1, <1>2, QuestionHandler DEF Question!SaveSelect
  <1>4. CASE Question!Done(a)
    BY <1>1, <1>3, <1>4, QuestionEnds
  <1>5. CASE ~Question!Done(a)
    <2>1. PICK columns \in SUBSET {"status", "answer", "answeredAt", "closedAt", "adminId"} :
             columns = Question!Changed(t.entity, inquiries[t.id])
      <3>1. inquiries[t.id] \in Question!Inquiry
        BY <1>1, <1>3, QuestionHandler DEF QuestionRecord
      <3>2. DOMAIN inquiries[t.id] = {"status", "answer", "answeredAt", "closedAt", "adminId"}
        BY <3>1 DEF Question!Inquiry
      <3>3. QED
        BY <3>2 DEF Question!Changed
    <2>2. PICK next \in Question!Transaction :
             /\ inquiryTxn' = [inquiryTxn EXCEPT ![a] = next]
             /\ next.stage = "updating" /\ next.id = t.id /\ next.entity = t.entity
             /\ next.columns = columns
      <3> DEFINE next == [t EXCEPT !.stage = "updating", !.columns = columns]
      <3>1. /\ next \in Question!Transaction
            /\ next.stage = "updating" /\ next.id = t.id /\ next.entity = t.entity
            /\ next.columns = columns
        BY DEF Question!Transaction
      <3>2. inquiryTxn' = [inquiryTxn EXCEPT ![a] = next]
        BY <1>2, <1>5, <2>1 DEF Question!SaveSelect, Question!Goto
      <3> HIDE DEF next
      <3>3. QED
        BY <3>1, <3>2
    <2>3. QuestionRecord(next)
      BY <1>3, <2>1, <2>2 DEF QuestionRecord
    <2>4. updates' \in 0..MaxUpdates
      BY <1>3 DEF QuestionInv, Question!TypeOK
    <2>5. next.stage \in {"idle", "saving", "updating"}
      BY <2>2
    <2>6. QED
      BY <1>1, <1>3, <2>2, <2>3, <2>4, <2>5, QuestionQuiet
  <1>6. QED
    BY <1>4, <1>5

\* The UPDATE: with one administrator at a time the row becomes the entity.
LEMMA QuestionSaveUpdate ==
    ASSUME QuestionConstants, QuestionInv, NEW a \in Admins, Question!SaveUpdate(a)
    PROVE  QuestionInv'
  <1>1. a \in Question!Callers /\ a \notin Asking
    BY DEF Question!Callers, QuestionConstants
  <1>2. PICK t \in Question!Transaction : t = inquiryTxn[a]
    BY <1>1, QuestionHandler
  <1>3. /\ QuestionRecord(t) /\ t.stage = "updating" /\ QuestionTables
        /\ OneAdmin => \A b \in Admins \ {a} : inquiryTxn[b].stage = "idle"
        /\ UNCHANGED <<inquiryImages, sentImages, updates>>
    BY <1>1, <1>2, QuestionHandler DEF Question!SaveUpdate
  <1>4. t.id \in DOMAIN inquiries /\ t.entity \in Question!Inquiry
    BY <1>3 DEF QuestionRecord
  <1>5. PICK row \in Question!Inquiry : row = inquiries[t.id]
    BY <1>1, <1>4, QuestionHandler
  <1>6. PICK w \in Question!Inquiry :
            /\ w = Question!Written(t.entity, row, t.columns)
            /\ OneAdmin => w = t.entity
    <2>1. OneAdmin => t.columns = Question!Changed(t.entity, row)
      BY <1>3, <1>5 DEF QuestionRecord
    <2>2. QED
      BY <1>4, <2>1, QuestionWritten
  <1>7. inquiries' = [inquiries EXCEPT ![t.id] = w]
    BY <1>2, <1>5, <1>6 DEF Question!SaveUpdate
  <1>8. PICK next \in Question!Transaction : next = Question!Idle
    BY QuestionIdle
  <1>9. inquiryTxn' = [inquiryTxn EXCEPT ![a] = next] /\ next.stage = "idle"
    BY <1>8 DEF Question!SaveUpdate, Question!Done, Question!Goto, Question!Idle
  <1>10. QuestionRecord(next)'
    BY <1>8, <1>9 DEF QuestionRecord, Question!Idle
  <1>11. /\ DOMAIN inquiries' = DOMAIN inquiries
         /\ \A id \in DOMAIN inquiries : inquiries'[id] = IF id = t.id THEN w ELSE inquiries[id]
    BY <1>3, <1>7 DEF QuestionTables
  <1>12. QuestionTables'
    <2>1. PICK n \in 0..MaxInquiries : inquiries \in [1..n -> Question!Inquiry]
      BY <1>3 DEF QuestionTables
    <2>2. inquiries' \in [1..n -> Question!Inquiry]
      BY <1>7, <2>1
    <2>3. QED
      BY <1>3, <1>11, <2>2 DEF QuestionTables
  <1>13. ImagesKept'
    BY <1>3, <1>11 DEF QuestionInv, ImagesKept
  <1>14. AnswersKept'
    <2>1. OneAdmin /\ w.status = "ANSWERED" => w.answer \in Answers /\ w.answeredAt
      BY <1>3, <1>6 DEF QuestionRecord
    <2>2. QED
      BY <1>11, <2>1 DEF QuestionInv, AnswersKept
  <1>15. ASSUME OneAdmin, NEW g \in Question!Callers \ {a}, inquiryTxn[g].stage = "updating"
         PROVE  FALSE
    <2>1. g \in Admins
      BY <1>15 DEF Question!Callers, QuestionInv
    <2>2. QED
      BY <1>3, <1>15, <2>1
  <1>16. QED
    BY <1>1, <1>3, <1>9, <1>10, <1>11, <1>12, <1>13, <1>14, <1>15, QuestionAfter

\* Nothing is asked at first.
LEMMA QuestionInit ==
    ASSUME QuestionConstants, Question!Init
    PROVE  QuestionInv
  <1>1. /\ inquiries = <<>> /\ inquiryImages = {} /\ sentImages = <<>> /\ updates = 0
        /\ inquiryTxn = [h \in Question!Callers |-> Question!Idle]
    BY DEF Question!Init
  <1>2. \A h \in Question!Callers : inquiryTxn[h] = Question!Idle
    BY <1>1
  <1>3. Question!Idle.stage = "idle"
    BY DEF Question!Idle
  <1>4. /\ \E n \in 0..MaxInquiries : inquiries \in [1..n -> Question!Inquiry]
        /\ DOMAIN inquiries = {} /\ DOMAIN sentImages = {}
    <2>1. 0 \in 0..MaxInquiries /\ 1..0 = {}
      BY DEF QuestionConstants
    <2>2. inquiries \in [1..0 -> Question!Inquiry]
      BY <1>1, <2>1
    <2>3. DOMAIN inquiries = {} /\ DOMAIN sentImages = {}
      BY <1>1
    <2>4. QED
      BY <2>1, <2>2, <2>3
  <1>5. Question!TypeOK
    <2>1. inquiryTxn \in [Question!Callers -> Question!Transaction]
      BY <1>1, QuestionIdle
    <2>2. sentImages \in [DOMAIN inquiries -> SUBSET Question!Files(Question!MaxFiles)]
      BY <1>1, <1>4
    <2>3. updates \in 0..MaxUpdates
      BY <1>1 DEF QuestionConstants
    <2>4. QED
      BY <1>1, <1>2, <1>4, <2>1, <2>2, <2>3 DEF Question!TypeOK
  <1>6. Asking \subseteq Question!Callers /\ Admins \subseteq Question!Callers
    BY DEF Question!Callers
  <1>7. \A h \in Question!Callers : QuestionRecord(inquiryTxn[h]) /\ inquiryTxn[h].stage = "idle"
    BY <1>2, <1>3, QuestionIdle
  <1>8. QED
    BY <1>4, <1>5, <1>6, <1>7 DEF QuestionInv

\* An inquiry keeps the pictures its member was told are saved, whatever
\* administrators save meanwhile.  When they wait for each other, an answered
\* inquiry has an answer that is not blank, and its date, however often the two
\* are changed and wherever a handler ends (create and updateByAdmin).
THEOREM InquiriesKeepTheirAnswers ==
    ASSUME QuestionConstants
    PROVE  Question!Spec => []InquiriesHold
  <1>1. Question!Init => QuestionInv
    BY QuestionInit
  <1>2. QuestionInv /\ [Question!Next]_(Question!vars) => QuestionInv'
    <2>1. SUFFICES ASSUME QuestionInv, [Question!Next]_(Question!vars)
                   PROVE  QuestionInv'
      OBVIOUS
    <2>2. CASE UNCHANGED Question!vars
      <3>1. UNCHANGED <<inquiries, inquiryImages, inquiryTxn, sentImages, updates>>
        BY <2>2 DEF Question!vars
      <3>2. Question!TypeOK'
        BY <2>1, <3>1 DEF QuestionInv, Question!TypeOK
      <3>3. ASSUME NEW h \in Question!Callers
            PROVE  QuestionRecord(inquiryTxn[h])'
        <4>1. QuestionRecord(inquiryTxn[h])
          BY <2>1 DEF QuestionInv
        <4>2. QED
          BY <3>1, <4>1 DEF QuestionRecord, Question!Changed
      <3>4. QED
        BY <2>1, <3>1, <3>2, <3>3 DEF QuestionInv
    <2>3. ASSUME NEW h \in Question!Callers, Question!Interrupt(h)
          PROVE  QuestionInv'
      BY <2>1, <2>3, QuestionEnds DEF Question!Interrupt
    <2>4. CASE Question!Next
      BY <2>1, <2>3, <2>4, QuestionCreate, QuestionUpload, QuestionSaveImages, QuestionAnswer,
         QuestionUpdateFind, QuestionSaveSelect, QuestionSaveUpdate
         DEF Question!Next, Question!Ids
    <2>5. QED
      BY <2>1, <2>2, <2>4
  <1>3. QuestionInv => InquiriesHold
    <2>1. SUFFICES ASSUME QuestionInv
                   PROVE  InquiriesHold
      OBVIOUS
    <2>2. Question!ImagesStay
      <3>1. ASSUME NEW id \in DOMAIN inquiries
            PROVE  sentImages[id] \subseteq Question!ImagesOf(id)
        <4>1. {id} \X sentImages[id] \subseteq inquiryImages
              /\ sentImages[id] \subseteq Question!Files(Question!MaxFiles)
          BY <2>1 DEF QuestionInv, Question!TypeOK
        <4>2. QED
          BY <4>1 DEF Question!ImagesOf
      <3>2. QED
        BY <3>1 DEF Question!ImagesStay, Question!Shown
    <2>3. OneAdmin => Question!AnsweredHasAnswer
      BY <2>1 DEF QuestionInv, Question!AnsweredHasAnswer, Question!Listed, Question!Shown
    <2>4. QED
      BY <2>1, <2>2, <2>3 DEF InquiriesHold, QuestionInv, Question!InquiriesHold
  <1>4. QED
    BY <1>1, <1>2, <1>3, PTL DEF Question!Spec

-----------------------------------------------------------------------------
\* Lists read page by page, and scraps.

\* What stands for a free id is no row.
FeedConstants ==
    /\ PageSize \in Nat /\ MaxEntries \in Nat /\ MaxScraps \in Nat /\ MaxRequests \in Nat
    /\ NoRow \notin Feeds!Entry /\ \A m, p : NoRow # [member |-> m, post |-> p]

FeedTransaction ==
    [stage: {"idle", "finding", "inserting", "deleting"}, member: Readers \union {None},
     post: Feeds!Ids \union {None}, request: 0..MaxRequests, before: SUBSET Feeds!Outcome]

Scan ==
    [stage: {"idle", "paging", "counting", "done"}, list: Lists \union {None},
     member: Readers \union {None}, page: Nat, due: SUBSET Feeds!Ids, given: SUBSET Feeds!Ids,
     disturbed: BOOLEAN]

\* The rows: what is inserted has an entry, reviews and scraps have their post.
FeedRows ==
    /\ entry \in [Feeds!Ids -> Feeds!Entry \union {NoRow}]
    /\ status \in [Feeds!Ids -> {"free", "open", "there", "gone"}]
    /\ scraps \in [Feeds!ScrapIds -> Feeds!Scrap \union {NoRow}]
    /\ \A i \in Feeds!Ids : status[i] # "free" => entry[i] \in Feeds!Entry
    /\ \A i \in Feeds!Ids : status[i] = "open" => entry[i].post = i
    /\ \A i \in Feeds!Ids : status[i] = "there" => status[entry[i].post] = "there"
    /\ \A s \in Feeds!ScrapIds : scraps[s] # NoRow => status[scraps[s].post] = "there"

\* Requests and their answers are about posts that have been visible.
FeedRequests ==
    /\ requests \in 0..MaxRequests
    /\ scrapTxn \in [Handlers -> FeedTransaction]
    /\ latest \subseteq Feeds!Outcome
    /\ \A h \in Handlers : scrapTxn[h].stage # "idle" =>
          /\ scrapTxn[h].member \in Readers /\ scrapTxn[h].post \in Feeds!Ids
          /\ status[scrapTxn[h].post] \in {"there", "gone"}
    /\ \A o \in latest : status[o.post] \in {"there", "gone"}

\* Of the answers about a member and a post one is true.
ScrapAnswers ==
    \A m \in Readers, p \in Feeds!Visible :
        \/ Feeds!Asked(m, p) = {} /\ Feeds!ScrapsOf(m, p) = {}
        \/ \E o \in Feeds!Asked(m, p) : o.scrapped <=> Feeds!ScrapsOf(m, p) # {}

\* How many entries of the list that is read are newer.
Listing == Feeds!Matching(scan.list, scan.member)
Newer(i) == {j \in Listing : j > i}

\* What is due and was not given is still in the list, below the pages read.
ScanKept ==
    /\ scan \in Scan
    /\ scan.stage \in {"paging", "counting"} /\ ~scan.disturbed =>
          /\ scan.due \subseteq Listing
          /\ \A i \in scan.due \ scan.given :
                /\ scan.stage = "paging" => Cardinality(Newer(i)) >= (scan.page - 1) * PageSize
                /\ scan.stage = "counting" => Cardinality(Newer(i)) >= scan.page * PageSize
    /\ scan.stage = "done" /\ ~scan.disturbed => scan.due \subseteq scan.given

FeedInv == FeedRows /\ FeedRequests /\ ScrapAnswers /\ ScanKept

\* The ids are finite, and so is what is listed.
LEMMA FeedIds ==
    ASSUME FeedConstants
    PROVE  /\ IsFiniteSet(Feeds!Ids) /\ Feeds!Ids \subseteq Nat
           /\ IsFiniteSet(Feeds!ScrapIds) /\ Feeds!ScrapIds \subseteq Nat
           /\ IsFiniteSet(Listing) /\ Listing \subseteq Feeds!Ids
           /\ \A S \in SUBSET Listing : IsFiniteSet(S) /\ Cardinality(S) \in Nat
                                         /\ Cardinality(S) <= Cardinality(Listing)
  <1>1. IsFiniteSet(1..MaxEntries) /\ IsFiniteSet(1..MaxScraps)
    BY FS_Interval DEF FeedConstants
  <1>2. Listing \subseteq Feeds!Ids
    BY DEF Listing, Feeds!Matching, Feeds!Visible
  <1>3. IsFiniteSet(Listing)
    BY <1>1, <1>2, FS_Subset DEF Feeds!Ids
  <1>4. \A S \in SUBSET Listing : IsFiniteSet(S) /\ Cardinality(S) <= Cardinality(Listing)
    BY <1>3, FS_Subset
  <1>5. \A S \in SUBSET Listing : Cardinality(S) \in Nat
    BY <1>4, FS_CardinalityType
  <1>6. QED
    BY <1>1, <1>2, <1>3, <1>4, <1>5 DEF Feeds!Ids, Feeds!ScrapIds

\* A list that only grows: nothing due moves up, and the scan goes on as it was.
LEMMA ScanUndisturbed ==
    ASSUME FeedConstants, ScanKept, UNCHANGED scan, Listing \subseteq Listing'
    PROVE  ScanKept'
  <1>1. CASE scan.stage \in {"paging", "counting"} /\ ~scan.disturbed
    <2>1. ASSUME NEW i \in scan.due \ scan.given
          PROVE  Cardinality(Newer(i))' >= Cardinality(Newer(i))
      <3>1. IsFiniteSet(Listing')
        <4>1. Listing' \subseteq 1..MaxEntries
          BY DEF Listing, Feeds!Matching, Feeds!Visible, Feeds!Ids
        <4>2. IsFiniteSet(1..MaxEntries)
          BY FS_Interval DEF FeedConstants
        <4>3. QED
          BY <4>1, <4>2, FS_Subset
      <3>2. Newer(i)' = {j \in Listing' : j > i}
        BY DEF Newer
      <3>3. PICK T : T = {j \in Listing' : j > i}
        OBVIOUS
      <3>4. IsFiniteSet(T) /\ Newer(i) \subseteq T
        BY <3>1, <3>3, FS_Subset DEF Newer
      <3>5. Cardinality(Newer(i)) <= Cardinality(T)
        BY <3>4, FS_Subset
      <3>6. Cardinality(Newer(i)) \in Nat /\ Cardinality(T) \in Nat
        BY <3>4, FS_Subset, FS_CardinalityType
      <3>7. QED
        BY <3>2, <3>3, <3>5, <3>6
    <2>2. /\ scan \in Scan /\ scan.due \subseteq Listing
      BY <1>1 DEF ScanKept
    <2>3. \A i \in scan.due \ scan.given :
             /\ scan.stage = "paging" => Cardinality(Newer(i))' >= (scan.page - 1) * PageSize
             /\ scan.stage = "counting" => Cardinality(Newer(i))' >= scan.page * PageSize
      <3>1. SUFFICES ASSUME NEW i \in scan.due \ scan.given
                     PROVE  /\ scan.stage = "paging" => Cardinality(Newer(i))' >= (scan.page - 1) * PageSize
                            /\ scan.stage = "counting" => Cardinality(Newer(i))' >= scan.page * PageSize
        OBVIOUS
      <3>2. PICK c : c = Cardinality(Newer(i))'
        OBVIOUS
      <3>3. PICK a : a = (scan.page - 1) * PageSize
        OBVIOUS
      <3>4. PICK b : b = scan.page * PageSize
        OBVIOUS
      <3>5. a \in Int /\ b \in Int
        BY <2>2, <3>3, <3>4 DEF Scan, FeedConstants
      <3>6. Cardinality(Newer(i)) \in Nat /\ c \in Nat
        <4>1. Newer(i) \in SUBSET Listing
          BY DEF Newer
        <4>2. IsFiniteSet(Newer(i)')
          <5>1. Newer(i)' \subseteq 1..MaxEntries
            BY DEF Newer, Listing, Feeds!Matching, Feeds!Visible, Feeds!Ids
          <5>2. IsFiniteSet(1..MaxEntries)
            BY FS_Interval DEF FeedConstants
          <5>3. QED
            BY <5>1, <5>2, FS_Subset
        <4>3. QED
          BY <3>2, <4>1, <4>2, FeedIds, FS_CardinalityType
      <3>7. c >= Cardinality(Newer(i))
        BY <2>1, <3>2
      <3>8. /\ scan.stage = "paging" => Cardinality(Newer(i)) >= a
            /\ scan.stage = "counting" => Cardinality(Newer(i)) >= b
        BY <1>1, <3>3, <3>4 DEF ScanKept
      <3>9. QED
        BY <3>2, <3>3, <3>4, <3>5, <3>6, <3>7, <3>8
    <2>4. QED
      BY <1>1, <2>2, <2>3 DEF ScanKept
  <1>2. CASE ~(scan.stage \in {"paging", "counting"} /\ ~scan.disturbed)
    BY <1>2 DEF ScanKept
  <1>3. QED
    BY <1>1, <1>2

\* Entries that come, and rows that stay, keep everything in the list.
LEMMA ListGrows ==
    ASSUME FeedConstants, UNCHANGED scan,
           \A i \in Listing : i \in Feeds!Visible' /\ entry'[i] = entry[i],
           \A s \in Feeds!ScrapIds : scraps[s] # NoRow => scraps'[s] = scraps[s]
    PROVE  Listing \subseteq Listing'
  <1>1. \A m, p : Feeds!ScrapsOf(m, p) \subseteq Feeds!ScrapsOf(m, p)'
    BY DEF Feeds!ScrapsOf, FeedConstants
  <1>2. PICK list : list = scan.list
    OBVIOUS
  <1>3. PICK m : m = scan.member
    OBVIOUS
  <1>4. ASSUME NEW i \in Feeds!Visible, Feeds!InList(list, m, i)
        PROVE  i \in Feeds!Visible' /\ Feeds!InList(list, m, i)'
    <2>1. i \in Feeds!Visible' /\ entry'[i] = entry[i]
      BY <1>2, <1>3, <1>4 DEF Listing, Feeds!Matching
    <2>2. Feeds!ScrapsOf(m, i) # {} => Feeds!ScrapsOf(m, i)' # {}
      BY <1>1
    <2>3. Feeds!ScrapsOf(m, entry[i].post) # {} => Feeds!ScrapsOf(m, entry[i].post)' # {}
      <3>1. PICK p : p = entry[i].post
        OBVIOUS
      <3>2. Feeds!ScrapsOf(m, p) # {} => Feeds!ScrapsOf(m, p)' # {}
        BY <1>1
      <3>3. QED
        BY <2>1, <3>1, <3>2
    <2>4. QED
      BY <1>4, <2>1, <2>2, <2>3 DEF Feeds!InList, Feeds!IsPost
  <1>5. QED
    BY <1>2, <1>3, <1>4 DEF Listing, Feeds!Matching

\* The answers stay true of rows nobody touches; nothing is known of new ones.
LEMMA AnswersStay ==
    ASSUME FeedConstants, FeedRows, FeedRequests, ScrapAnswers,
           UNCHANGED <<scraps, latest>>,
           \A i \in Feeds!Ids : status[i] = "gone" => status'[i] = "gone"
    PROVE  ScrapAnswers'
  <1>1. \A m, p : Feeds!Asked(m, p)' = Feeds!Asked(m, p) /\ Feeds!ScrapsOf(m, p)' = Feeds!ScrapsOf(m, p)
    BY DEF Feeds!Asked, Feeds!ScrapsOf
  <1>2. ASSUME NEW m \in Readers, NEW p \in Feeds!Visible', p \notin Feeds!Visible
        PROVE  Feeds!Asked(m, p) = {} /\ Feeds!ScrapsOf(m, p) = {}
    <2>1. p \in Feeds!Ids /\ status[p] \notin {"there", "gone"}
      BY <1>2 DEF Feeds!Visible, FeedRows
    <2>2. \A o \in latest : o.post # p
      BY <2>1 DEF FeedRequests
    <2>3. ASSUME NEW s \in Feeds!ScrapIds, scraps[s] = [member |-> m, post |-> p]
          PROVE  FALSE
      <3>1. scraps[s] # NoRow /\ scraps[s].post = p
        BY <2>3 DEF FeedConstants
      <3>2. QED
        BY <2>1, <3>1 DEF FeedRows
    <2>4. QED
      BY <2>2, <2>3 DEF Feeds!Asked, Feeds!ScrapsOf
  <1>3. SUFFICES ASSUME NEW m \in Readers, NEW p \in Feeds!Visible'
                 PROVE  \/ Feeds!Asked(m, p) = {} /\ Feeds!ScrapsOf(m, p) = {}
                        \/ \E o \in Feeds!Asked(m, p) : o.scrapped <=> Feeds!ScrapsOf(m, p) # {}
    BY <1>1 DEF ScrapAnswers
  <1>4. CASE p \in Feeds!Visible
    BY <1>4 DEF ScrapAnswers
  <1>5. CASE p \notin Feeds!Visible
    BY <1>2, <1>5
  <1>6. QED
    BY <1>4, <1>5

\* The requests under way, and their answers, when posts are only removed.
LEMMA RequestsStay ==
    ASSUME FeedConstants, FeedRequests, UNCHANGED <<scrapTxn, requests, latest>>,
           \A i \in Feeds!Ids : status[i] \in {"there", "gone"} => status'[i] \in {"there", "gone"}
    PROVE  FeedRequests'
  <1>1. \A o \in latest : o.post \in Feeds!Ids
    BY DEF FeedRequests, Feeds!Outcome
  <1>2. \A h \in Handlers : scrapTxn[h].stage # "idle" =>
            /\ scrapTxn[h].member \in Readers /\ scrapTxn[h].post \in Feeds!Ids
            /\ status'[scrapTxn[h].post] \in {"there", "gone"}
    BY DEF FeedRequests
  <1>3. \A o \in latest : status'[o.post] \in {"there", "gone"}
    BY <1>1 DEF FeedRequests
  <1>4. QED
    BY <1>2, <1>3 DEF FeedRequests

\* Entries come.
LEMMA EntriesCome ==
    ASSUME FeedConstants, FeedInv, FeedRows',
           UNCHANGED <<scraps, scrapTxn, requests, latest, scan>>,
           \A i \in Feeds!Ids : status[i] \in {"there", "gone"} =>
               status'[i] = status[i] /\ entry'[i] = entry[i]
    PROVE  FeedInv'
  <1>1. \A i \in Feeds!Visible : i \in Feeds!Visible' /\ entry'[i] = entry[i]
    BY DEF Feeds!Visible
  <1>2. Listing \subseteq Listing'
    BY <1>1, ListGrows DEF Listing, Feeds!Matching
  <1>3. ScanKept'
    BY <1>2, ScanUndisturbed DEF FeedInv
  <1>4. ScrapAnswers'
    BY AnswersStay DEF FeedInv
  <1>5. FeedRequests'
    BY RequestsStay DEF FeedInv
  <1>6. QED
    BY <1>3, <1>4, <1>5 DEF FeedInv

\* A new entry is put on a free id.
LEMMA EntryComes ==
    ASSUME FeedConstants, FeedInv, Feeds!FreeIds # {}, NEW e \in Feeds!Entry,
           NEW s \in {"open", "there"}, s = "there" => status[e.post] = "there",
           NEW i, i = Feeds!First(Feeds!FreeIds), s = "open" => e.post = i,
           entry' = [entry EXCEPT ![i] = e], status' = [status EXCEPT ![i] = s],
           UNCHANGED <<scraps, scrapTxn, requests, latest, scan>>
    PROVE  FeedInv'
  <1>1. i \in Feeds!Ids /\ status[i] = "free"
    <2>1. Feeds!FreeIds \in SUBSET (1..MaxEntries)
      BY DEF Feeds!FreeIds, Feeds!Ids
    <2>2. First(Feeds!FreeIds) \in Feeds!FreeIds
      BY <2>1, LeastOf DEF FeedConstants
    <2>3. i \in Feeds!FreeIds
      BY <2>2 DEF Feeds!First, First
    <2>4. QED
      BY <2>3 DEF Feeds!FreeIds
  <1>2. /\ entry \in [Feeds!Ids -> Feeds!Entry \union {NoRow}]
        /\ status \in [Feeds!Ids -> {"free", "open", "there", "gone"}]
        /\ \A j \in Feeds!Ids : entry'[j] = IF j = i THEN e ELSE entry[j]
        /\ \A j \in Feeds!Ids : status'[j] = IF j = i THEN s ELSE status[j]
    BY DEF FeedInv, FeedRows
  <1>3. /\ entry' \in [Feeds!Ids -> Feeds!Entry \union {NoRow}]
        /\ status' \in [Feeds!Ids -> {"free", "open", "there", "gone"}]
    BY <1>1, <1>2
  <1>4. \A q \in Feeds!Ids : status[q] = "there" => status'[q] = "there"
    BY <1>1, <1>2
  <1>5. \A j \in Feeds!Ids : status'[j] # "free" => entry'[j] \in Feeds!Entry
    BY <1>2 DEF FeedInv, FeedRows
  <1>6. \A j \in Feeds!Ids : status'[j] = "there" => status'[entry'[j].post] = "there"
    <2>1. SUFFICES ASSUME NEW j \in Feeds!Ids, status'[j] = "there"
                   PROVE  status'[entry'[j].post] = "there"
      OBVIOUS
    <2>2. entry'[j].post \in Feeds!Ids
      BY <1>2, <1>5, <2>1 DEF Feeds!Entry
    <2>3. status[entry'[j].post] = "there"
      BY <1>2, <2>1 DEF FeedInv, FeedRows
    <2>4. QED
      BY <1>4, <2>2, <2>3
  <1>7. \A t \in Feeds!ScrapIds : scraps[t] # NoRow => status'[scraps[t].post] = "there"
    <2>1. \A t \in Feeds!ScrapIds : scraps[t] # NoRow => scraps[t].post \in Feeds!Ids
      BY DEF FeedInv, FeedRows, Feeds!Scrap
    <2>2. QED
      BY <1>4, <2>1 DEF FeedInv, FeedRows
  <1>8. FeedRows'
    <2>1. \A j \in Feeds!Ids : status'[j] = "open" => entry'[j].post = j
      BY <1>2 DEF FeedInv, FeedRows
    <2>2. QED
      BY <1>3, <1>5, <1>6, <1>7, <2>1 DEF FeedInv, FeedRows
  <1>9. \A j \in Feeds!Ids : status[j] \in {"there", "gone"} =>
            status'[j] = status[j] /\ entry'[j] = entry[j]
    BY <1>1, <1>2
  <1>10. QED
    BY <1>8, <1>9, EntriesCome

\* A post is inserted, and not seen before its transaction commits.
LEMMA FeedCreatePost ==
    ASSUME FeedConstants, FeedInv, NEW m \in Readers, Feeds!CreatePost(m)
    PROVE  FeedInv'
  <1>1. PICK i : i = Feeds!First(Feeds!FreeIds)
    OBVIOUS
  <1>2. i \in Feeds!Ids
    <2>1. Feeds!FreeIds \in SUBSET (1..MaxEntries) /\ Feeds!FreeIds # {}
      BY DEF Feeds!FreeIds, Feeds!Ids, Feeds!CreatePost
    <2>2. First(Feeds!FreeIds) \in Feeds!FreeIds
      BY <2>1, LeastOf DEF FeedConstants
    <2>3. QED
      BY <1>1, <2>2 DEF Feeds!First, First, Feeds!FreeIds
  <1>3. PICK e \in Feeds!Entry : e = [kind |-> "post", member |-> m, post |-> i]
    BY <1>2 DEF Feeds!Entry
  <1>4. /\ Feeds!FreeIds # {}
        /\ entry' = [entry EXCEPT ![i] = e] /\ status' = [status EXCEPT ![i] = "open"]
        /\ e.post = i
        /\ UNCHANGED <<scraps, scrapTxn, requests, latest, scan>>
    BY <1>1, <1>3 DEF Feeds!CreatePost
  <1>5. QED
    BY <1>1, <1>4, EntryComes

\* A review is inserted on a post that is there.
LEMMA FeedCreateReview ==
    ASSUME FeedConstants, FeedInv, NEW p \in Feeds!Ids, Feeds!CreateReview(p)
    PROVE  FeedInv'
  <1>1. PICK i : i = Feeds!First(Feeds!FreeIds)
    OBVIOUS
  <1>2. status[p] = "there" /\ entry[p] \in Feeds!Entry
    BY DEF Feeds!CreateReview, Feeds!Visible, FeedInv, FeedRows
  <1>3. PICK e \in Feeds!Entry : e = [kind |-> "review", member |-> entry[p].member, post |-> p]
    BY <1>2 DEF Feeds!Entry
  <1>4. /\ Feeds!FreeIds # {} /\ status[e.post] = "there"
        /\ entry' = [entry EXCEPT ![i] = e] /\ status' = [status EXCEPT ![i] = "there"]
        /\ UNCHANGED <<scraps, scrapTxn, requests, latest, scan>>
    BY <1>1, <1>2, <1>3 DEF Feeds!CreateReview
  <1>5. QED
    BY <1>1, <1>4, EntryComes

\* A post comes into the lists, with an id below those of newer ones.
LEMMA FeedCommit ==
    ASSUME FeedConstants, FeedInv, NEW i \in Feeds!Ids, Feeds!Commit(i)
    PROVE  FeedInv'
  <1>1. /\ status[i] = "open" /\ status' = [status EXCEPT ![i] = "there"]
        /\ UNCHANGED <<entry, scraps, scrapTxn, requests, latest, scan>>
    BY DEF Feeds!Commit
  <1>2. \A j \in Feeds!Ids : status'[j] = IF j = i THEN "there" ELSE status[j]
    BY <1>1 DEF FeedInv, FeedRows
  <1>3. FeedRows'
    <2>1. \A j \in Feeds!Ids : status'[j] = "there" => status'[entry[j].post] = "there"
      BY <1>1, <1>2 DEF FeedInv, FeedRows, Feeds!Entry
    <2>2. \A s \in Feeds!ScrapIds : scraps[s] # NoRow => status'[scraps[s].post] = "there"
      BY <1>1, <1>2 DEF FeedInv, FeedRows, Feeds!Scrap
    <2>3. status' \in [Feeds!Ids -> {"free", "open", "there", "gone"}]
      BY <1>1 DEF FeedInv, FeedRows
    <2>4. QED
      BY <1>1, <1>2, <2>1, <2>2, <2>3 DEF FeedInv, FeedRows
  <1>4. \A j \in Feeds!Ids : status[j] \in {"there", "gone"} =>
            status'[j] = status[j] /\ entry'[j] = entry[j]
    BY <1>1, <1>2
  <1>5. QED
    BY <1>1, <1>3, <1>4, EntriesCome

\* A step that may take an entry out of the list tells the scan.
LEMMA ScanWatches ==
    ASSUME FeedConstants, ScanKept, NEW x \in BOOLEAN,
           scan' = [scan EXCEPT !.disturbed = @ \/ x],
           ~x /\ UNCHANGED scan => Listing \subseteq Listing'
    PROVE  ScanKept'
  <1>1. PICK s \in Scan : s = scan
    BY DEF ScanKept
  <1>2. CASE x
    <2>1. scan' = [s EXCEPT !.disturbed = TRUE]
      BY <1>1, <1>2
    <2>2. scan' \in Scan /\ scan'.disturbed
      BY <2>1 DEF Scan
    <2>3. QED
      BY <2>2 DEF ScanKept
  <1>3. CASE ~x
    <2>1. PICK d \in BOOLEAN : d = s.disturbed
      BY DEF Scan
    <2>2. scan' = [s EXCEPT !.disturbed = d]
      <3>1. (s.disturbed \/ x) = d
        BY <1>3, <2>1
      <3>2. QED
        BY <1>1, <3>1
    <2>3. [s EXCEPT !.disturbed = d] = s
      BY <2>1 DEF Scan
    <2>4. UNCHANGED scan
      BY <1>1, <2>2, <2>3
    <2>5. QED
      BY <1>3, <2>4, ScanUndisturbed
  <1>4. QED
    BY <1>2, <1>3

\* A post that nothing refers to is removed.
LEMMA FeedRemove ==
    ASSUME FeedConstants, FeedInv, NEW i \in Feeds!Ids, Feeds!Remove(i)
    PROVE  FeedInv'
  <1>1. /\ status[i] = "there" /\ status' = [status EXCEPT ![i] = "gone"]
        /\ \A s \in Feeds!ScrapIds : scraps[s] # NoRow => scraps[s].post # i
        /\ \A j \in Feeds!Visible \ {i} : entry[j].post # i
        /\ UNCHANGED <<entry, scraps, scrapTxn, requests, latest>>
    BY DEF Feeds!Remove, Feeds!Visible
  <1>2. \A j \in Feeds!Ids : status'[j] = IF j = i THEN "gone" ELSE status[j]
    BY <1>1 DEF FeedInv, FeedRows
  <1>3. FeedRows'
    <2>1. \A j \in Feeds!Ids : status'[j] = "there" => status'[entry[j].post] = "there"
      <3>1. SUFFICES ASSUME NEW j \in Feeds!Ids, status'[j] = "there"
                     PROVE  status'[entry[j].post] = "there"
        OBVIOUS
      <3>2. j # i /\ j \in Feeds!Visible /\ status[j] = "there"
        BY <1>2, <3>1 DEF Feeds!Visible
      <3>3. entry[j].post \in Feeds!Ids /\ entry[j].post # i /\ status[entry[j].post] = "there"
        BY <1>1, <3>2 DEF FeedInv, FeedRows, Feeds!Entry
      <3>4. QED
        BY <1>2, <3>3
    <2>2. \A s \in Feeds!ScrapIds : scraps[s] # NoRow => status'[scraps[s].post] = "there"
      <3>1. \A s \in Feeds!ScrapIds : scraps[s] # NoRow =>
                scraps[s].post \in Feeds!Ids /\ status[scraps[s].post] = "there"
        BY DEF FeedInv, FeedRows, Feeds!Scrap
      <3>2. QED
        BY <1>1, <1>2, <3>1
    <2>3. status' \in [Feeds!Ids -> {"free", "open", "there", "gone"}]
      BY <1>1 DEF FeedInv, FeedRows
    <2>4. QED
      BY <1>1, <1>2, <2>1, <2>2, <2>3 DEF FeedInv, FeedRows
  <1>4. FeedRequests'
    BY <1>1, <1>2, RequestsStay DEF FeedInv
  <1>5. ScrapAnswers'
    BY <1>1, <1>2, AnswersStay DEF FeedInv
  <1>6. PICK x \in BOOLEAN : x <=> Feeds!InList(scan.list, scan.member, i)
    <2>1. CASE Feeds!InList(scan.list, scan.member, i)
      BY <2>1
    <2>2. CASE ~Feeds!InList(scan.list, scan.member, i)
      BY <2>2
    <2>3. QED
      BY <2>1, <2>2
  <1>7. scan' = [scan EXCEPT !.disturbed = @ \/ x]
    BY <1>6 DEF Feeds!Remove
  <1>8. x \in BOOLEAN
    OBVIOUS
  <1>9. ASSUME ~x, UNCHANGED scan
        PROVE  Listing \subseteq Listing'
    <2>1. \A j \in Listing : j # i /\ j \in Feeds!Visible
      BY <1>6, <1>9 DEF Listing, Feeds!Matching
    <2>2. \A j \in Listing : j \in Feeds!Visible' /\ entry'[j] = entry[j]
      BY <1>1, <1>2, <2>1 DEF Feeds!Visible
    <2>3. QED
      BY <1>1, <1>9, <2>2, ListGrows
  <1>10. ScanKept'
    BY <1>7, <1>8, <1>9, ScanWatches DEF FeedInv
  <1>11. QED
    BY <1>3, <1>4, <1>5, <1>10 DEF FeedInv

\* scrapPost and unscrapPost find the post.
LEMMA FeedBegin ==
    ASSUME FeedConstants, FeedInv, NEW h \in Handlers, NEW m \in Readers,
           NEW p \in Feeds!Ids, NEW stage \in {"finding", "deleting"},
           Feeds!Begin(h, m, p, stage)
    PROVE  FeedInv'
  <1>1. /\ requests < MaxRequests /\ p \in Feeds!Visible /\ requests' = requests + 1
        /\ UNCHANGED <<entry, status, scraps, latest, scan>>
    BY DEF Feeds!Begin
  <1>2. requests' \in 0..MaxRequests
    BY <1>1 DEF FeedInv, FeedRequests, FeedConstants
  <1>3. PICK next : next = [stage |-> stage, member |-> m, post |-> p,
                            request |-> requests', before |-> latest]
    OBVIOUS
  <1>4. scrapTxn' = [scrapTxn EXCEPT ![h] = next]
    BY <1>3 DEF Feeds!Begin
  <1>5. /\ next \in FeedTransaction /\ next.member \in Readers /\ next.post = p
    BY <1>2, <1>3 DEF FeedTransaction, FeedInv, FeedRequests
  <1>6. /\ scrapTxn' \in [Handlers -> FeedTransaction] /\ scrapTxn'[h] = next
        /\ \A g \in Handlers \ {h} : scrapTxn'[g] = scrapTxn[g]
    BY <1>4, <1>5 DEF FeedInv, FeedRequests
  <1>7. FeedRequests'
    <2>1. status[p] = "there"
      BY <1>1 DEF Feeds!Visible
    <2>2. \A g \in Handlers : scrapTxn'[g].stage # "idle" =>
              /\ scrapTxn'[g].member \in Readers /\ scrapTxn'[g].post \in Feeds!Ids
              /\ status[scrapTxn'[g].post] \in {"there", "gone"}
      BY <1>5, <1>6, <2>1 DEF FeedInv, FeedRequests
    <2>3. QED
      BY <1>1, <1>2, <1>6, <2>2 DEF FeedInv, FeedRequests
  <1>8. FeedRows'
    BY <1>1 DEF FeedInv, FeedRows
  <1>9. ScrapAnswers'
    BY <1>1, AnswersStay DEF FeedInv
  <1>10. Listing \subseteq Listing'
    BY <1>1, ListGrows DEF Listing, Feeds!Matching, Feeds!Visible
  <1>11. ScanKept'
    BY <1>1, <1>10, ScanUndisturbed DEF FeedInv
  <1>12. QED
    BY <1>7, <1>8, <1>9, <1>11 DEF FeedInv

\* A request is answered with what has become of the scraps it is about.
LEMMA FeedAnswer ==
    ASSUME FeedConstants, FeedInv, NEW h \in Handlers, scrapTxn[h].stage # "idle",
           NEW v \in BOOLEAN, Feeds!Answer(h, v), UNCHANGED <<status, requests>>,
           NEW who, NEW what, who = scrapTxn[h].member, what = scrapTxn[h].post,
           v <=> Feeds!ScrapsOf(who, what)' # {},
           \A m \in Readers, p \in Feeds!Ids :
               (m = who /\ p = what) \/ Feeds!ScrapsOf(m, p)' = Feeds!ScrapsOf(m, p)
    PROVE  FeedRequests' /\ ScrapAnswers'
  <1>1. PICK t \in FeedTransaction : t = scrapTxn[h]
    BY DEF FeedInv, FeedRequests
  <1>2. /\ t.member \in Readers /\ t.post \in Feeds!Ids
        /\ status[t.post] \in {"there", "gone"}
    BY <1>1 DEF FeedInv, FeedRequests
  <1>3. PICK new : new = [request |-> t.request, member |-> t.member, post |-> t.post,
                          scrapped |-> v]
    OBVIOUS
  <1>4. /\ new \in Feeds!Outcome /\ new.member = t.member /\ new.post = t.post
        /\ new.scrapped = v
    BY <1>2, <1>3 DEF Feeds!Outcome, FeedTransaction
  <1>5. latest' = {o \in latest : ~(o \in t.before /\ o.member = t.member /\ o.post = t.post)}
                      \union {new}
    BY <1>1, <1>3 DEF Feeds!Answer
  <1>6. scrapTxn' = [scrapTxn EXCEPT ![h] = Feeds!Idle]
    BY DEF Feeds!Answer
  <1>7. Feeds!Idle \in FeedTransaction /\ Feeds!Idle.stage = "idle"
    BY DEF FeedTransaction, Feeds!Idle, FeedConstants
  <1>8. /\ scrapTxn' \in [Handlers -> FeedTransaction] /\ scrapTxn'[h].stage = "idle"
        /\ \A g \in Handlers \ {h} : scrapTxn'[g] = scrapTxn[g]
    BY <1>6, <1>7 DEF FeedInv, FeedRequests
  <1>9. FeedRequests'
    <2>1. latest' \subseteq Feeds!Outcome /\ \A o \in latest' : status[o.post] \in {"there", "gone"}
      BY <1>2, <1>4, <1>5 DEF FeedInv, FeedRequests
    <2>2. QED
      BY <1>8, <2>1 DEF FeedInv, FeedRequests
  <1>10. ASSUME NEW m \in Readers, NEW p \in Feeds!Visible
         PROVE  \/ Feeds!Asked(m, p)' = {} /\ Feeds!ScrapsOf(m, p)' = {}
                \/ \E o \in Feeds!Asked(m, p)' : o.scrapped <=> Feeds!ScrapsOf(m, p)' # {}
    <2>1. CASE m = t.member /\ p = t.post
      <3>1. new \in Feeds!Asked(m, p)'
        BY <1>4, <1>5, <2>1 DEF Feeds!Asked
      <3>2. v <=> Feeds!ScrapsOf(m, p)' # {}
        BY <1>1, <2>1
      <3>3. QED
        BY <1>4, <3>1, <3>2
    <2>2. CASE ~(m = t.member /\ p = t.post)
      <3>1. Feeds!Asked(m, p)' = Feeds!Asked(m, p)
        BY <1>4, <1>5, <2>2 DEF Feeds!Asked
      <3>2. Feeds!ScrapsOf(m, p)' = Feeds!ScrapsOf(m, p)
        BY <1>1, <2>2 DEF Feeds!Visible
      <3>3. QED
        BY <3>1, <3>2 DEF FeedInv, ScrapAnswers
    <2>3. QED
      BY <2>1, <2>2
  <1>11. Feeds!Visible' = Feeds!Visible
    BY DEF Feeds!Visible
  <1>12. QED
    BY <1>9, <1>10, <1>11 DEF ScrapAnswers

\* The rows and the scan, when neither is touched.
LEMMA FeedRest ==
    ASSUME FeedConstants, FeedInv, UNCHANGED <<entry, status, scraps, scan>>
    PROVE  FeedRows' /\ ScanKept'
  <1>1. FeedRows'
    BY DEF FeedInv, FeedRows
  <1>2. Listing \subseteq Listing'
    BY ListGrows DEF Listing, Feeds!Matching, Feeds!Visible
  <1>3. QED
    BY <1>1, <1>2, ScanUndisturbed DEF FeedInv

\* A scrap is looked for: when there is one the post is scrapped already.
LEMMA FeedScrapFind ==
    ASSUME FeedConstants, FeedInv, NEW h \in Handlers, Feeds!ScrapFind(h)
    PROVE  FeedInv'
  <1>1. /\ scrapTxn[h].stage = "finding"
        /\ UNCHANGED <<entry, status, scraps, requests, scan>>
    BY DEF Feeds!ScrapFind
  <1>2. PICK t \in FeedTransaction : t = scrapTxn[h]
    BY DEF FeedInv, FeedRequests
  <1>3. FeedRows' /\ ScanKept'
    BY <1>1, FeedRest
  <1>4. \A m, p : Feeds!ScrapsOf(m, p)' = Feeds!ScrapsOf(m, p)
    BY <1>1 DEF Feeds!ScrapsOf
  <1>5. CASE Feeds!ScrapsOf(t.member, t.post) = {}
    <2>1. scrapTxn' = [scrapTxn EXCEPT ![h].stage = "inserting"] /\ UNCHANGED latest
      BY <1>2, <1>5 DEF Feeds!ScrapFind, Feeds!Goto
    <2>2. PICK next \in FeedTransaction :
             /\ scrapTxn' = [scrapTxn EXCEPT ![h] = next]
             /\ next.member = t.member /\ next.post = t.post /\ next.stage = "inserting"
      <3> DEFINE next == [t EXCEPT !.stage = "inserting"]
      <3>1. /\ next \in FeedTransaction
            /\ next.member = t.member /\ next.post = t.post /\ next.stage = "inserting"
        BY DEF FeedTransaction
      <3>2. scrapTxn' = [scrapTxn EXCEPT ![h] = next]
        BY <1>2, <2>1
      <3> HIDE DEF next
      <3>3. QED
        BY <3>1, <3>2
    <2>3. /\ scrapTxn' \in [Handlers -> FeedTransaction] /\ scrapTxn'[h] = next
          /\ \A g \in Handlers \ {h} : scrapTxn'[g] = scrapTxn[g]
      BY <2>2 DEF FeedInv, FeedRequests
    <2>4. /\ t.member \in Readers /\ t.post \in Feeds!Ids /\ status[t.post] \in {"there", "gone"}
      BY <1>1, <1>2 DEF FeedInv, FeedRequests
    <2>5. FeedRequests'
      BY <1>1, <2>1, <2>2, <2>3, <2>4 DEF FeedInv, FeedRequests
    <2>6. ScrapAnswers'
      BY <1>1, <2>1, AnswersStay DEF FeedInv
    <2>7. QED
      BY <1>3, <2>5, <2>6 DEF FeedInv
  <1>6. CASE Feeds!ScrapsOf(t.member, t.post) # {}
    <2>1. Feeds!Answer(h, TRUE)
      BY <1>2, <1>6 DEF Feeds!ScrapFind
    <2>2. PICK v \in BOOLEAN : v
      OBVIOUS
    <2>3. Feeds!Answer(h, v) /\ (v <=> Feeds!ScrapsOf(t.member, t.post)' # {})
      BY <1>4, <1>6, <2>1, <2>2
    <2>4. PICK who, what : who = t.member /\ what = t.post
      OBVIOUS
    <2>5. FeedRequests' /\ ScrapAnswers'
      <3>1. v <=> Feeds!ScrapsOf(who, what)' # {}
        BY <1>4, <1>6, <2>2, <2>4
      <3>2. who = scrapTxn[h].member /\ what = scrapTxn[h].post /\ scrapTxn[h].stage # "idle"
        BY <1>1, <1>2, <2>4
      <3>3. \A m \in Readers, p \in Feeds!Ids :
               (m = who /\ p = what) \/ Feeds!ScrapsOf(m, p)' = Feeds!ScrapsOf(m, p)
        BY <1>4
      <3>4. QED
        BY <1>1, <2>3, <3>1, <3>2, <3>3, FeedAnswer
    <2>6. QED
      BY <1>3, <2>5 DEF FeedInv
  <1>7. QED
    BY <1>5, <1>6

\* A scrap is inserted on a free id, unless the post is gone.
LEMMA FeedScrapInsert ==
    ASSUME FeedConstants, FeedInv, NEW h \in Handlers, Feeds!ScrapInsert(h)
    PROVE  FeedInv'
  <1>1. /\ scrapTxn[h].stage = "inserting" /\ Feeds!FreeScraps # {}
        /\ UNCHANGED <<entry, status, requests, scan>>
    BY DEF Feeds!ScrapInsert
  <1>2. PICK t \in FeedTransaction : t = scrapTxn[h]
    BY DEF FeedInv, FeedRequests
  <1>3. CASE t.post \in Feeds!Visible
    <2>1. PICK f : f = Feeds!First(Feeds!FreeScraps)
      OBVIOUS
    <2>2. f \in Feeds!ScrapIds /\ scraps[f] = NoRow
      <3>1. Feeds!FreeScraps \in SUBSET (1..MaxScraps)
        BY DEF Feeds!FreeScraps, Feeds!ScrapIds
      <3>2. First(Feeds!FreeScraps) \in Feeds!FreeScraps
        BY <1>1, <3>1, LeastOf DEF FeedConstants
      <3>3. QED
        BY <2>1, <3>2 DEF Feeds!First, First, Feeds!FreeScraps
    <2>3. /\ scraps' = [scraps EXCEPT ![f] = [member |-> t.member, post |-> t.post]]
          /\ Feeds!Answer(h, TRUE)
      BY <1>2, <1>3, <2>1 DEF Feeds!ScrapInsert
    <2>4. t.member \in Readers /\ t.post \in Feeds!Ids /\ status[t.post] = "there"
      BY <1>1, <1>2, <1>3 DEF FeedInv, FeedRequests, Feeds!Visible
    <2>5. PICK row \in Feeds!Scrap :
             /\ row = [member |-> t.member, post |-> t.post]
             /\ row.post = t.post
      <3>1. PICK row : row = [member |-> t.member, post |-> t.post]
        OBVIOUS
      <3>2. row \in Feeds!Scrap /\ row.post = t.post
        BY <2>4, <3>1 DEF Feeds!Scrap
      <3>3. QED
        BY <3>1, <3>2
    <2>6. \A s \in Feeds!ScrapIds : scraps'[s] = IF s = f THEN row ELSE scraps[s]
      BY <2>3, <2>5 DEF FeedInv, FeedRows
    <2>7. FeedRows'
      <3>1. scraps' \in [Feeds!ScrapIds -> Feeds!Scrap \union {NoRow}]
        BY <2>3, <2>5 DEF FeedInv, FeedRows
      <3>2. \A s \in Feeds!ScrapIds : scraps'[s] # NoRow => status[scraps'[s].post] = "there"
        BY <2>4, <2>5, <2>6 DEF FeedInv, FeedRows
      <3>3. QED
        BY <1>1, <3>1, <3>2 DEF FeedInv, FeedRows
    <2>8. Listing \subseteq Listing'
      <3>1. \A s \in Feeds!ScrapIds : scraps[s] # NoRow => scraps'[s] = scraps[s]
        BY <2>2, <2>6
      <3>2. \A j \in Listing : j \in Feeds!Visible' /\ entry'[j] = entry[j]
        BY <1>1 DEF Listing, Feeds!Matching, Feeds!Visible
      <3>3. QED
        BY <1>1, <3>1, <3>2, ListGrows
    <2>9. ScanKept'
      BY <1>1, <2>8, ScanUndisturbed DEF FeedInv
    <2>10. PICK v \in BOOLEAN : v
      OBVIOUS
    <2>11. PICK who, what : who = t.member /\ what = t.post
      OBVIOUS
    <2>12. v <=> Feeds!ScrapsOf(who, what)' # {}
      BY <2>2, <2>5, <2>6, <2>10, <2>11 DEF Feeds!ScrapsOf
    <2>13. \A m \in Readers, p \in Feeds!Ids :
              (m = who /\ p = what) \/ Feeds!ScrapsOf(m, p)' = Feeds!ScrapsOf(m, p)
      <3>1. SUFFICES ASSUME NEW m \in Readers, NEW p \in Feeds!Ids, ~(m = who /\ p = what)
                     PROVE  Feeds!ScrapsOf(m, p)' = Feeds!ScrapsOf(m, p)
        OBVIOUS
      <3>2. row # [member |-> m, post |-> p] /\ NoRow # [member |-> m, post |-> p]
        BY <2>5, <2>11, <3>1 DEF FeedConstants
      <3>3. \A s \in Feeds!ScrapIds : scraps'[s] = [member |-> m, post |-> p]
                                         <=> scraps[s] = [member |-> m, post |-> p]
        BY <2>2, <2>6, <3>2
      <3>4. QED
        BY <3>3 DEF Feeds!ScrapsOf
    <2>14. /\ who = scrapTxn[h].member /\ what = scrapTxn[h].post /\ scrapTxn[h].stage # "idle"
           /\ Feeds!Answer(h, v)
      BY <1>1, <1>2, <2>3, <2>10, <2>11
    <2>15. FeedRequests' /\ ScrapAnswers'
      BY <1>1, <2>12, <2>13, <2>14, FeedAnswer
    <2>16. QED
      BY <2>7, <2>9, <2>15 DEF FeedInv
  <1>4. CASE t.post \notin Feeds!Visible
    <2>1. /\ scrapTxn' = [scrapTxn EXCEPT ![h] = Feeds!Idle] /\ UNCHANGED <<latest, scraps>>
      BY <1>2, <1>4 DEF Feeds!ScrapInsert, Feeds!Fail
    <2>2. Feeds!Idle \in FeedTransaction /\ Feeds!Idle.stage = "idle"
      BY DEF FeedTransaction, Feeds!Idle, FeedConstants
    <2>3. /\ scrapTxn' \in [Handlers -> FeedTransaction] /\ scrapTxn'[h].stage = "idle"
          /\ \A g \in Handlers \ {h} : scrapTxn'[g] = scrapTxn[g]
      BY <2>1, <2>2 DEF FeedInv, FeedRequests
    <2>4. FeedRequests'
      BY <1>1, <2>1, <2>3 DEF FeedInv, FeedRequests
    <2>5. ScrapAnswers'
      BY <1>1, <2>1, AnswersStay DEF FeedInv
    <2>6. QED
      BY <1>1, <2>1, <2>4, <2>5, FeedRest DEF FeedInv
  <1>5. QED
    BY <1>3, <1>4

\* Every scrap of the member and the post is deleted.
LEMMA FeedUnscrap ==
    ASSUME FeedConstants, FeedInv, NEW h \in Handlers, Feeds!UnscrapDelete(h)
    PROVE  FeedInv'
  <1>1. /\ scrapTxn[h].stage = "deleting" /\ UNCHANGED <<entry, status, requests>>
        /\ Feeds!Answer(h, FALSE)
    BY DEF Feeds!UnscrapDelete
  <1>2. PICK t \in FeedTransaction : t = scrapTxn[h]
    BY DEF FeedInv, FeedRequests
  <1>3. PICK D \in SUBSET Feeds!ScrapIds : D = Feeds!ScrapsOf(t.member, t.post)
    BY DEF Feeds!ScrapsOf
  <1>4. scraps' = [s \in Feeds!ScrapIds |-> IF s \in D THEN NoRow ELSE scraps[s]]
    BY <1>2, <1>3 DEF Feeds!UnscrapDelete, Feeds!Deleted
  <1>5. FeedRows'
    <2>1. scraps' \in [Feeds!ScrapIds -> Feeds!Scrap \union {NoRow}]
      BY <1>4 DEF FeedInv, FeedRows
    <2>2. QED
      BY <1>1, <1>4, <2>1 DEF FeedInv, FeedRows
  <1>6. Feeds!ScrapsOf(t.member, t.post)' = {}
    BY <1>3, <1>4 DEF Feeds!ScrapsOf, FeedConstants
  <1>7. ASSUME NEW m, NEW p, ~(m = t.member /\ p = t.post)
        PROVE  Feeds!ScrapsOf(m, p)' = Feeds!ScrapsOf(m, p)
    <2>1. [member |-> m, post |-> p] # [member |-> t.member, post |-> t.post]
      BY <1>7
    <2>2. \A s \in Feeds!ScrapIds : scraps'[s] = [member |-> m, post |-> p]
                                       <=> scraps[s] = [member |-> m, post |-> p]
      BY <1>3, <1>4, <2>1 DEF Feeds!ScrapsOf, FeedConstants
    <2>3. QED
      BY <2>2 DEF Feeds!ScrapsOf
  <1>8. FeedRequests' /\ ScrapAnswers'
    <2>1. PICK v \in BOOLEAN : ~v
      OBVIOUS
    <2>2. PICK who, what : who = t.member /\ what = t.post
      OBVIOUS
    <2>3. v <=> Feeds!ScrapsOf(who, what)' # {}
      BY <1>6, <2>1, <2>2
    <2>4. \A m \in Readers, p \in Feeds!Ids :
             (m = who /\ p = what) \/ Feeds!ScrapsOf(m, p)' = Feeds!ScrapsOf(m, p)
      BY <1>7, <2>2
    <2>5. /\ who = scrapTxn[h].member /\ what = scrapTxn[h].post /\ scrapTxn[h].stage # "idle"
          /\ Feeds!Answer(h, v)
      BY <1>1, <1>2, <2>1, <2>2
    <2>6. QED
      BY <1>1, <2>3, <2>4, <2>5, FeedAnswer
  <1>9. PICK x \in BOOLEAN :
           x <=> scan.list \in {"scrappedContents", "scrappedReviews"} /\ scan.member = t.member
    <2>1. CASE scan.list \in {"scrappedContents", "scrappedReviews"} /\ scan.member = t.member
      BY <2>1
    <2>2. CASE ~(scan.list \in {"scrappedContents", "scrappedReviews"} /\ scan.member = t.member)
      BY <2>2
    <2>3. QED
      BY <2>1, <2>2
  <1>10. scan' = [scan EXCEPT !.disturbed = @ \/ x]
    BY <1>2, <1>9 DEF Feeds!UnscrapDelete
  <1>11. ASSUME ~x, UNCHANGED scan
         PROVE  Listing \subseteq Listing'
    <2>1. PICK list : list = scan.list
      OBVIOUS
    <2>2. PICK m : m = scan.member
      OBVIOUS
    <2>3. ASSUME NEW i \in Feeds!Visible, Feeds!InList(list, m, i)
          PROVE  i \in Feeds!Visible' /\ Feeds!InList(list, m, i)'
      <3>1. i \in Feeds!Visible' /\ entry'[i] = entry[i]
        BY <1>1 DEF Feeds!Visible
      <3>2. CASE list \in {"scrappedContents", "scrappedReviews"}
        <4>1. m # t.member
          BY <1>9, <1>11, <2>1, <2>2, <3>2
        <4>2. PICK p : p = entry[i].post
          OBVIOUS
        <4>3. /\ Feeds!ScrapsOf(m, i)' = Feeds!ScrapsOf(m, i)
              /\ Feeds!ScrapsOf(m, p)' = Feeds!ScrapsOf(m, p)
          BY <1>7, <4>1
        <4>4. Feeds!ScrapsOf(m, entry[i].post)' = Feeds!ScrapsOf(m, entry[i].post)
          BY <3>1, <4>2, <4>3
        <4>5. QED
          BY <2>3, <3>1, <4>3, <4>4 DEF Feeds!InList, Feeds!IsPost
      <3>3. CASE list \notin {"scrappedContents", "scrappedReviews"}
        BY <2>3, <3>1, <3>3 DEF Feeds!InList, Feeds!IsPost
      <3>4. QED
        BY <3>2, <3>3
    <2>4. QED
      BY <1>11, <2>1, <2>2, <2>3 DEF Listing, Feeds!Matching
  <1>12. ScanKept'
    BY <1>10, <1>11, ScanWatches DEF FeedInv
  <1>13. QED
    BY <1>5, <1>8, <1>12 DEF FeedInv

\* The scan begins: all that is in the list is due, and the first page next.
LEMMA FeedStartScan ==
    ASSUME FeedConstants, FeedInv, NEW list \in Lists, NEW m \in Readers,
           Feeds!StartScan(list, m)
    PROVE  FeedInv'
  <1>1. UNCHANGED <<entry, status, scraps, scrapTxn, requests, latest>>
    BY DEF Feeds!StartScan
  <1>2. PICK due : due = Feeds!Matching(list, m)
    OBVIOUS
  <1>3. due \subseteq Feeds!Ids
    BY <1>2 DEF Feeds!Matching, Feeds!Visible
  <1>4. scan' = [stage |-> "paging", list |-> list, member |-> m, page |-> 1,
                 due |-> due, given |-> {}, disturbed |-> FALSE]
    BY <1>2 DEF Feeds!StartScan, Feeds!Rested
  <1>5. /\ scan' \in Scan /\ scan'.stage = "paging" /\ scan'.page = 1
        /\ scan'.due = due /\ scan'.list = list /\ scan'.member = m
    BY <1>3, <1>4 DEF Scan
  <1>6. Listing' = due
    BY <1>1, <1>2, <1>5
       DEF Listing, Feeds!Matching, Feeds!InList, Feeds!IsPost, Feeds!ScrapsOf, Feeds!Visible
  <1>7. ASSUME NEW i
        PROVE  Cardinality(Newer(i))' >= (1 - 1) * PageSize
    <2>1. IsFiniteSet(Newer(i)')
      <3>1. Newer(i)' \subseteq 1..MaxEntries
        BY <1>3, <1>6 DEF Newer, Feeds!Ids
      <3>2. IsFiniteSet(1..MaxEntries)
        BY FS_Interval DEF FeedConstants
      <3>3. QED
        BY <3>1, <3>2, FS_Subset
    <2>2. Cardinality(Newer(i)') \in Nat
      BY <2>1, FS_CardinalityType
    <2>3. (1 - 1) * PageSize = 0
      BY DEF FeedConstants
    <2>4. QED
      BY <2>2, <2>3
  <1>8. ScanKept'
    BY <1>5, <1>6, <1>7 DEF ScanKept
  <1>9. FeedRows' /\ FeedRequests'
    BY <1>1 DEF FeedInv, FeedRows, FeedRequests
  <1>10. ScrapAnswers'
    BY <1>1, AnswersStay DEF FeedInv
  <1>11. QED
    BY <1>8, <1>9, <1>10 DEF FeedInv

\* Only the scan moves.
LEMMA FeedScanMoves ==
    ASSUME FeedConstants, FeedInv, ScanKept',
           UNCHANGED <<entry, status, scraps, scrapTxn, requests, latest>>
    PROVE  FeedInv'
  <1>1. FeedRows' /\ FeedRequests'
    BY DEF FeedInv, FeedRows, FeedRequests
  <1>2. ScrapAnswers'
    BY AnswersStay DEF FeedInv
  <1>3. QED
    BY <1>1, <1>2 DEF FeedInv

\* What is in the list and not above the page is on it or below.
LEMMA BelowThePage ==
    ASSUME FeedConstants, FeedInv, NEW i \in Listing,
           Cardinality(Newer(i)) >= (scan.page - 1) * PageSize,
           i \notin Feeds!Page(scan.list, scan.member, scan.page)
    PROVE  Cardinality(Newer(i)) >= scan.page * PageSize
  <1>1. PICK c \in Nat : c = Cardinality(Newer(i))
    <2>1. Newer(i) \in SUBSET Listing
      BY DEF Newer
    <2>2. QED
      BY <2>1, FeedIds
  <1>2. PICK a : a = (scan.page - 1) * PageSize
    OBVIOUS
  <1>3. PICK b : b = scan.page * PageSize
    OBVIOUS
  <1>4. a \in Int /\ b \in Int
    <2>1. scan.page \in Nat /\ PageSize \in Nat
      BY DEF FeedConstants, FeedInv, ScanKept, Scan
    <2>2. QED
      BY <1>2, <1>3, <2>1
  <1>5. Newer(i) = {j \in Feeds!Matching(scan.list, scan.member) : j > i}
    BY DEF Newer, Listing
  <1>6. Feeds!Cardinality(Newer(i)) = c
    BY <1>1 DEF Feeds!Cardinality, Cardinality
  <1>7. ~Feeds!At(scan.page, c)
    BY <1>5, <1>6 DEF Feeds!Page, Listing
  <1>8. c \notin a..(b - 1)
    BY <1>2, <1>3, <1>7 DEF Feeds!At
  <1>9. c >= a
    BY <1>1, <1>2
  <1>10. c >= b
    BY <1>1, <1>4, <1>8, <1>9
  <1>11. QED
    BY <1>1, <1>3, <1>10

\* A page is given.
LEMMA FeedReadPage ==
    ASSUME FeedConstants, FeedInv, Feeds!ReadPage
    PROVE  FeedInv'
  <1>1. /\ scan.stage = "paging"
        /\ UNCHANGED <<entry, status, scraps, scrapTxn, requests, latest>>
    BY DEF Feeds!ReadPage
  <1>2. PICK s \in Scan : s = scan
    BY DEF FeedInv, ScanKept
  <1>3. PICK P \in SUBSET Feeds!Ids : P = Feeds!Page(scan.list, scan.member, scan.page)
    BY DEF Feeds!Page, Feeds!Matching, Feeds!Visible
  <1>4. scan' = [s EXCEPT !.stage = "counting", !.given = s.given \union P]
    BY <1>2, <1>3 DEF Feeds!ReadPage
  <1>5. /\ scan' \in Scan /\ scan'.stage = "counting" /\ scan'.given = s.given \union P
        /\ scan'.due = s.due /\ scan'.page = s.page /\ scan'.disturbed = s.disturbed
        /\ scan'.list = s.list /\ scan'.member = s.member
    BY <1>4 DEF Scan
  <1>6. Listing' = Listing
    BY <1>1, <1>2, <1>5
       DEF Listing, Feeds!Matching, Feeds!InList, Feeds!IsPost, Feeds!ScrapsOf, Feeds!Visible
  <1>7. \A i : Newer(i)' = Newer(i)
    BY <1>6 DEF Newer
  <1>8. ASSUME ~s.disturbed
        PROVE  /\ s.due \subseteq Listing
               /\ \A i \in s.due \ (s.given \union P) : Cardinality(Newer(i)) >= s.page * PageSize
    <2>1. /\ s.due \subseteq Listing
          /\ \A i \in s.due \ s.given : Cardinality(Newer(i)) >= (s.page - 1) * PageSize
      BY <1>1, <1>2, <1>8 DEF FeedInv, ScanKept
    <2>2. ASSUME NEW i \in s.due \ (s.given \union P)
          PROVE  Cardinality(Newer(i)) >= s.page * PageSize
      <3>1. i \in Listing /\ Cardinality(Newer(i)) >= (scan.page - 1) * PageSize
        BY <1>2, <2>1, <2>2
      <3>2. i \notin Feeds!Page(scan.list, scan.member, scan.page)
        BY <1>3, <2>2
      <3>3. Cardinality(Newer(i)) >= scan.page * PageSize
        BY <3>1, <3>2, BelowThePage
      <3>4. QED
        BY <1>2, <3>3
    <2>3. QED
      BY <2>1, <2>2
  <1>9. ScanKept'
    BY <1>5, <1>6, <1>7, <1>8 DEF ScanKept
  <1>10. QED
    BY <1>1, <1>9, FeedScanMoves

\* The total is what is in the list: when the pages cover it nothing is below.
LEMMA FeedReadTotal ==
    ASSUME FeedConstants, FeedInv, Feeds!ReadTotal
    PROVE  FeedInv'
  <1>1. /\ scan.stage = "counting"
        /\ UNCHANGED <<entry, status, scraps, scrapTxn, requests, latest>>
    BY DEF Feeds!ReadTotal
  <1>2. PICK s \in Scan : s = scan
    BY DEF FeedInv, ScanKept
  <1>3. Feeds!Cardinality(Listing) = Cardinality(Listing)
    BY DEF Feeds!Cardinality, Cardinality
  <1>4. CASE s.page * PageSize >= Cardinality(Listing)
    <2>1. scan' = [s EXCEPT !.stage = "done"]
      BY <1>2, <1>3, <1>4 DEF Feeds!ReadTotal, Listing
    <2>2. /\ scan' \in Scan /\ scan'.stage = "done" /\ scan'.given = s.given
          /\ scan'.due = s.due /\ scan'.disturbed = s.disturbed
      BY <2>1 DEF Scan
    <2>3. ASSUME ~s.disturbed, NEW i \in s.due, i \notin s.given
          PROVE  FALSE
      <3>1. i \in Listing /\ Cardinality(Newer(i)) >= s.page * PageSize
        BY <1>1, <1>2, <2>3 DEF FeedInv, ScanKept
      <3>2. PICK b : b = s.page * PageSize
        OBVIOUS
      <3>3. b \in Int
        BY <3>2 DEF Scan, FeedConstants
      <3>4. /\ Newer(i) \subseteq Listing /\ Newer(i) # Listing /\ IsFiniteSet(Listing)
        <4>1. i \in Nat
          BY <3>1, FeedIds
        <4>2. i \notin Newer(i)
          BY <4>1 DEF Newer
        <4>3. QED
          BY <3>1, <4>2, FeedIds DEF Newer
      <3>5. Cardinality(Newer(i)) <= Cardinality(Listing) /\ Cardinality(Newer(i)) # Cardinality(Listing)
        BY <3>4, FS_Subset
      <3>6. Cardinality(Newer(i)) \in Nat /\ Cardinality(Listing) \in Nat
        BY <3>4, FeedIds, FS_CardinalityType
      <3>7. b >= Cardinality(Listing) /\ Cardinality(Newer(i)) >= b
        BY <1>4, <3>1, <3>2
      <3>8. QED
        BY <3>3, <3>5, <3>6, <3>7
    <2>4. ScanKept'
      BY <2>2, <2>3 DEF ScanKept
    <2>5. QED
      BY <1>1, <2>4, FeedScanMoves
  <1>5. CASE ~(s.page * PageSize >= Cardinality(Listing))
    <2>1. scan' = [s EXCEPT !.stage = "paging", !.page = s.page + 1]
      BY <1>2, <1>3, <1>5 DEF Feeds!ReadTotal, Listing
    <2>2. /\ scan' \in Scan /\ scan'.stage = "paging" /\ scan'.page = s.page + 1
          /\ scan'.due = s.due /\ scan'.disturbed = s.disturbed /\ scan'.given = s.given
          /\ scan'.list = s.list /\ scan'.member = s.member
      <3>1. s.page + 1 \in Nat
        BY DEF Scan
      <3>2. PICK n \in Nat : n = s.page + 1
        BY <3>1
      <3>3. scan' = [s EXCEPT !.stage = "paging", !.page = n]
        BY <2>1, <3>2
      <3>4. QED
        BY <3>2, <3>3 DEF Scan
    <2>3. Listing' = Listing
      BY <1>1, <1>2, <2>2
         DEF Listing, Feeds!Matching, Feeds!InList, Feeds!IsPost, Feeds!ScrapsOf, Feeds!Visible
    <2>4. \A i : Newer(i)' = Newer(i)
      BY <2>3 DEF Newer
    <2>5. s.page \in Nat /\ (s.page + 1) - 1 = s.page
      BY DEF Scan
    <2>6. (scan'.page - 1) * PageSize = s.page * PageSize
      BY <2>2, <2>5
    <2>7. ASSUME ~s.disturbed
          PROVE  /\ s.due \subseteq Listing
                 /\ \A i \in s.due \ s.given : Cardinality(Newer(i)) >= s.page * PageSize
      BY <1>1, <1>2, <2>7 DEF FeedInv, ScanKept
    <2>8. ScanKept'
      BY <2>2, <2>3, <2>4, <2>6, <2>7 DEF ScanKept
    <2>9. QED
      BY <1>1, <2>8, FeedScanMoves
  <1>6. QED
    BY <1>4, <1>5

\* Nothing is there, nothing has been asked, and no list is read.
LEMMA FeedInit ==
    ASSUME FeedConstants, Feeds!Init
    PROVE  FeedInv
  <1>1. FeedRows
    BY DEF Feeds!Init, FeedRows
  <1>2. FeedRequests
    <2>1. Feeds!Idle \in FeedTransaction /\ Feeds!Idle.stage = "idle"
      BY DEF FeedTransaction, Feeds!Idle, FeedConstants
    <2>2. scrapTxn \in [Handlers -> FeedTransaction]
      BY <2>1 DEF Feeds!Init
    <2>3. QED
      BY <2>1, <2>2 DEF Feeds!Init, FeedRequests, FeedConstants
  <1>3. ScrapAnswers
    BY DEF Feeds!Init, ScrapAnswers, Feeds!Visible
  <1>4. ScanKept
    <2>1. scan \in Scan /\ scan.stage = "idle"
      BY DEF Feeds!Init, Feeds!Rested, Scan
    <2>2. QED
      BY <2>1 DEF ScanKept
  <1>5. QED
    BY <1>1, <1>2, <1>3, <1>4 DEF FeedInv

\* Every step keeps the invariant.
LEMMA FeedInductive ==
    ASSUME FeedConstants, FeedInv, [Feeds!Next]_Feeds!vars
    PROVE  FeedInv'
  <1>1. ASSUME NEW m \in Readers, Feeds!CreatePost(m) PROVE FeedInv'
    BY <1>1, FeedCreatePost
  <1>2. ASSUME NEW i \in Feeds!Ids, Feeds!Commit(i) PROVE FeedInv'
    BY <1>2, FeedCommit
  <1>3. ASSUME NEW i \in Feeds!Ids, Feeds!CreateReview(i) PROVE FeedInv'
    BY <1>3, FeedCreateReview
  <1>4. ASSUME NEW i \in Feeds!Ids, Feeds!Remove(i) PROVE FeedInv'
    BY <1>4, FeedRemove
  <1>5. ASSUME NEW h \in Handlers, NEW m \in Readers, NEW p \in Feeds!Ids,
               Feeds!ScrapPost(h, m, p) \/ Feeds!UnscrapPost(h, m, p)
        PROVE  FeedInv'
    <2>1. CASE Feeds!ScrapPost(h, m, p)
      BY <2>1, FeedBegin DEF Feeds!ScrapPost
    <2>2. CASE Feeds!UnscrapPost(h, m, p)
      BY <2>2, FeedBegin DEF Feeds!UnscrapPost
    <2>3. QED
      BY <1>5, <2>1, <2>2
  <1>6. ASSUME NEW h \in Handlers,
               Feeds!ScrapFind(h) \/ Feeds!ScrapInsert(h) \/ Feeds!UnscrapDelete(h)
        PROVE  FeedInv'
    BY <1>6, FeedScrapFind, FeedScrapInsert, FeedUnscrap
  <1>7. ASSUME NEW list \in Lists, NEW m \in Readers, Feeds!StartScan(list, m) PROVE FeedInv'
    BY <1>7, FeedStartScan
  <1>8. CASE Feeds!ReadPage
    BY <1>8, FeedReadPage
  <1>9. CASE Feeds!ReadTotal
    BY <1>9, FeedReadTotal
  <1>10. CASE UNCHANGED Feeds!vars
    <2>1. UNCHANGED <<entry, status, scraps, scrapTxn, requests, latest, scan>>
      BY <1>10 DEF Feeds!vars
    <2>2. ScanKept'
      BY <2>1, FeedRest
    <2>3. QED
      BY <2>1, <2>2, FeedScanMoves
  <1>11. QED
    BY <1>1, <1>2, <1>3, <1>4, <1>5, <1>6, <1>7, <1>8, <1>9, <1>10 DEF Feeds!Next

\* The invariant of the rows, the requests and the scan, in every behaviour.
LEMMA FeedInvariant ==
    ASSUME FeedConstants
    PROVE  Feeds!Spec => []FeedInv
  <1>1. Feeds!Init => FeedInv
    BY FeedInit
  <1>2. FeedInv /\ [Feeds!Next]_Feeds!vars => FeedInv'
    BY FeedInductive
  <1>3. QED
    BY <1>1, <1>2, PTL DEF Feeds!Spec

\* Who reads a list to its end has been given all that was in it at the
\* beginning, however many rows are inserted meanwhile, above and below what
\* was read, by whatever number of members: what is due and not yet given has
\* at least as many newer entries as the pages before hold.
THEOREM NothingIsSkipped ==
    ASSUME FeedConstants
    PROVE  Feeds!Spec => []NothingSkipped
  <1>1. FeedInv => Feeds!NothingSkipped
    BY DEF FeedInv, ScanKept, Feeds!NothingSkipped
  <1>2. FeedInv => Feeds!TypeOK
    BY DEF FeedInv, FeedRows, FeedRequests, FeedTransaction, ScanKept, Scan, Feeds!TypeOK
  <1>3. FeedInv => NothingSkipped
    BY <1>1, <1>2 DEF NothingSkipped
  <1>4. QED
    BY <1>3, FeedInvariant, PTL

\* When no request is under way a post is scrapped by a member if one of the
\* last answers said so, though two requests may both insert a scrap and the
\* post may be removed between the look and the INSERT.
THEOREM ScrapsAreAsAnswered ==
    ASSUME FeedConstants
    PROVE  Feeds!Spec => []ScrappedAsAnswered
  <1>1. ASSUME FeedInv
        PROVE  ScrappedAsAnswered
    <2>1. SUFFICES ASSUME NEW m \in Readers, NEW p \in Feeds!Visible
                   PROVE  IF Feeds!Asked(m, p) = {} THEN Feeds!ScrapsOf(m, p) = {}
                          ELSE \E o \in Feeds!Asked(m, p) :
                                  o.scrapped = (Feeds!ScrapsOf(m, p) # {})
      BY DEF ScrappedAsAnswered, Feeds!ScrappedAsAnswered
    <2>2. CASE Feeds!Asked(m, p) = {}
      BY <1>1, <2>2 DEF FeedInv, ScrapAnswers
    <2>3. CASE Feeds!Asked(m, p) # {}
      <3>1. PICK o \in Feeds!Asked(m, p) : o.scrapped <=> Feeds!ScrapsOf(m, p) # {}
        BY <1>1, <2>3 DEF FeedInv, ScrapAnswers
      <3>2. o.scrapped \in BOOLEAN
        BY <1>1 DEF FeedInv, FeedRequests, Feeds!Asked, Feeds!Outcome
      <3>3. o.scrapped = (Feeds!ScrapsOf(m, p) # {})
        BY <3>1, <3>2, Zenon
      <3>4. QED
        BY <2>3, <3>3
    <2>4. QED
      BY <2>2, <2>3
  <1>2. QED
    BY <1>1, FeedInvariant, PTL
=============================================================================
