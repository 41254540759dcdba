-------------------------------- MODULE Tags --------------------------------
(***************************************************************************)
(* Tags of posts and of members (tag.service.ts): syncTags and             *)
(* syncMemberTags make the active links of an owner equal to the names of  *)
(* a request.                                                              *)
(*                                                                         *)
(* They are seven statements without a transaction, and neither the tag    *)
(* names nor the links have a unique index.  A link is never deleted, only *)
(* deactivated.  A handler may end after any statement.                    *)
(*                                                                         *)
(* The database compares names by its collation, which knows neither case  *)
(* nor accents; the service compares them letter by letter.                *)
(***************************************************************************)
EXTENDS Naturals, Sequences, FiniteSets, SequencesExt

CONSTANTS
    Owners,       \* posts, or members
    Names,        \* tag names, in lower case
    Collation,    \* Collation[n]: names with one value are equal to the database
    Handlers,
    MaxTags, MaxLinks,  \* bounds on the rows
    None

VARIABLES
    tags,    \* the tag table: the name of every id
    links,   \* post_tag, or member_tag
    txn,
    asked    \* per owner: the names that may be shown, and whether all have to

vars == <<tags, links, txn, asked>>

Link == [owner: Owners, tag: 1..MaxTags, active: BOOLEAN]

\* `alone`: no other request for the same owner has been under way meanwhile;
\* `others`: the names of those that have.
Idle == [stage |-> "idle", owner |-> None, names |-> {}, tags |-> {}, links |-> {},
         inactive |-> {}, alone |-> FALSE, others |-> {}]

Transaction ==
    [stage: {"idle", "clearing", "finding", "creating", "linking", "inserting",
             "activating", "listing", "deactivating"},
     owner: Owners \union {None}, names: SUBSET Names, tags: SUBSET (1..MaxTags),
     links: SUBSET (1..MaxLinks), inactive: SUBSET (1..MaxLinks), alone: BOOLEAN,
     others: SUBSET Names]

Asked == [names: SUBSET Names, all: BOOLEAN]

TypeOK ==
    /\ tags \in Seq(Names) /\ Len(tags) <= MaxTags
    /\ links \in Seq(Link) /\ Len(links) <= MaxLinks
    /\ \A l \in DOMAIN links : links[l].tag \in DOMAIN tags
    /\ txn \in [Handlers -> Transaction]
    /\ asked \in [Owners -> Asked]

Init ==
    /\ tags = <<>>
    /\ links = <<>>
    /\ txn = [h \in Handlers |-> Idle]
    /\ asked = [o \in Owners |-> [names |-> {}, all |-> TRUE]]

-----------------------------------------------------------------------------
LinksOf(o) == {l \in DOMAIN links : links[l].owner = o}
ActiveOf(o) == {l \in LinksOf(o) : links[l].active}
TagsOf(S) == {links[l].tag : l \in S}

\* What the database takes for one of these names.
Like(name, names) == \E n \in names : Collation[n] = Collation[name]
Named(names) == {t \in DOMAIN tags : Like(tags[t], names)}

\* Handler h goes on with `next`, behind statement `from`.
Step(h, from, next) ==
    /\ txn[h].stage = from
    /\ txn' = [txn EXCEPT ![h] = next]

\* The request of h is answered: from now on its names are shown, unless a
\* request that overlapped it has its own way.
Finish(h, from) ==
    LET t == txn[h] IN
    /\ Step(h, from, Idle)
    /\ asked' = [asked EXCEPT ![t.owner] = [names |-> t.names \union t.others, all |-> t.alone]]

\* A request comes in; without names there is one statement only.
Sync(h, o, names) ==
    LET others == {g \in Handlers : txn[g].owner = o} IN
    /\ txn[h].stage = "idle"
    /\ txn' = [g \in Handlers |->
                 IF g = h
                 THEN [Idle EXCEPT !.stage = IF names = {} THEN "clearing" ELSE "finding",
                                   !.owner = o, !.names = names, !.alone = others = {},
                                   !.others = UNION {txn[f].names : f \in others}]
                 ELSE IF g \in others
                 THEN [txn[g] EXCEPT !.alone = FALSE, !.others = @ \union names]
                 ELSE txn[g]]
    /\ asked' = [asked EXCEPT ![o] = [names |-> @.names \union names, all |-> FALSE]]
    /\ UNCHANGED <<tags, links>>

SetActive(S, active) ==
    links' = [l \in DOMAIN links |->
                IF l \in S THEN [links[l] EXCEPT !.active = active] ELSE links[l]]

Clear(h) ==
    /\ Finish(h, "clearing")
    /\ SetActive(ActiveOf(txn[h].owner), FALSE)
    /\ UNCHANGED tags

\* getOrCreateTags: WHERE name IN the names ...
FindTags(h) ==
    LET t == txn[h]
        found == Named(t.names) IN
    /\ Step(h, "finding",
            [t EXCEPT !.stage = IF t.names \subseteq {tags[i] : i \in found} THEN "linking"
                              ELSE "creating",
                      !.tags = found])
    /\ UNCHANGED <<tags, links, asked>>

\* ... and create those that are not, letter by letter, among the ones found.
CreateTags(h) ==
    LET t == txn[h]
        missing == t.names \ {tags[i] : i \in t.tags} IN
    /\ t.stage = "creating" /\ Len(tags) + Cardinality(missing) <= MaxTags
    /\ tags' = tags \o SetToSeq(missing)
    /\ Step(h, "creating", [t EXCEPT !.stage = "linking",
                                     !.tags = @ \union (Len(tags) + 1)..Len(tags')])
    /\ UNCHANGED <<links, asked>>

\* The links of the owner to these tags, active or not ...
FindLinks(h) ==
    LET t == txn[h]
        found == {l \in LinksOf(t.owner) : links[l].tag \in t.tags} IN
    /\ Step(h, "linking", [t EXCEPT !.stage = "inserting", !.links = found,
                                    !.inactive = found \ ActiveOf(t.owner)])
    /\ UNCHANGED <<tags, links, asked>>

\* ... a link for every tag that had none ...
InsertLinks(h) ==
    LET t == txn[h]
        missing == t.tags \ TagsOf(t.links) IN
    /\ t.stage = "inserting" /\ Len(links) + Cardinality(missing) <= MaxLinks
    /\ links' = links \o SetToSeq({[owner |-> t.owner, tag |-> i, active |-> TRUE] : i \in missing})
    /\ Step(h, "inserting", [t EXCEPT !.stage = "activating"])
    /\ UNCHANGED <<tags, asked>>

\* ... and the ones found inactive are activated.
Activate(h) ==
    /\ Step(h, "activating", [txn[h] EXCEPT !.stage = "listing"])
    /\ SetActive(txn[h].inactive, TRUE)
    /\ UNCHANGED <<tags, asked>>

\* Mutant: compared with the links found before instead of the tags.
FindActiveStale(h) ==
    LET t == txn[h] IN
    /\ Step(h, "listing", [t EXCEPT !.stage = "deactivating",
                                    !.links = ActiveOf(t.owner) \ t.links])
    /\ UNCHANGED <<tags, links, asked>>

\* The active links to other tags ...
FindActive(h) ==
    LET t == txn[h] IN
    /\ Step(h, "listing", [t EXCEPT !.stage = "deactivating",
                                    !.links = {l \in ActiveOf(t.owner) : links[l].tag \notin t.tags}])
    /\ UNCHANGED <<tags, links, asked>>

\* ... are deactivated.
Deactivate(h) ==
    /\ Finish(h, "deactivating")
    /\ SetActive(txn[h].links, FALSE)
    /\ UNCHANGED tags

\* A failed statement or the end of the process: what was written stays.
Interrupt(h) ==
    /\ txn[h].stage # "idle"
    /\ txn' = [txn EXCEPT ![h] = Idle]
    /\ UNCHANGED <<tags, links, asked>>

Next ==
    \E h \in Handlers :
        \/ \E o \in Owners, names \in SUBSET Names : Sync(h, o, names)
        \/ Clear(h) \/ FindTags(h) \/ CreateTags(h) \/ FindLinks(h) \/ InsertLinks(h)
        \/ Activate(h) \/ FindActive(h) \/ Deactivate(h) \/ Interrupt(h)

Spec == Init /\ [][Next]_vars

-----------------------------------------------------------------------------
\* What findTagsByContentIds and the profiles show of an owner.
ShownNames(o) == {tags[t] : t \in TagsOf(ActiveOf(o))}

\* Whatever overlaps and is cut short: an owner shows no tags but those of the
\* last request that was answered, of requests under way with it, and of later
\* ones, and tags that the database takes for one of these; and if no other
\* request overlapped the last one, the tags of all its names.
TagsAsRequested ==
    \A o \in Owners :
        /\ \A n \in ShownNames(o) : Like(n, asked[o].names)
        /\ asked[o].all => asked[o].names \subseteq ShownNames(o)

\* One request at a time, ended after any statement: an owner has one link to a
\* tag of a name, and so shows it once.
NoTagTwice ==
    \A o \in Owners : \A k, l \in LinksOf(o) :
        tags[links[k].tag] = tags[links[l].tag] => k = l
=============================================================================
