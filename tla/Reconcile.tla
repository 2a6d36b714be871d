------------------------------ MODULE Reconcile ------------------------------
(***************************************************************************)
(* Cross-forge reconciliation (bkb-store/src/reconcile.rs): which of the   *)
(* documents fetched from GitHub and from Forgejo are copies of each other.*)
(*                                                                         *)
(* The database is one record of three tables: the documents' bodies, the  *)
(* links (evidence that two documents are the same, kept although one of   *)
(* them may not have been fetched yet) and the aliases (the groups that    *)
(* follow from the links, each with one canonical member).                 *)
(*                                                                         *)
(* One page is one transaction: its documents are written, then each is    *)
(* observed, then each is settled: its links are bound again and, if it is *)
(* a thread, its children observed again.  The store's lock is held from   *)
(* the first step to the last, so other actors see only `phase = "idle"`.  *)
(*                                                                         *)
(* The refs table, which the same functions repair, is a separate concern: *)
(* nothing here reads it.                                                  *)
(***************************************************************************)
EXTENDS Naturals, Sequences, FiniteSets

CONSTANTS
  Docs,           \* documents the two forges may serve, named by their ids
  Ids,            \* Docs, and the issue-form names of pull requests
  PullRequestId,  \* the pull-request form of an id, the id itself if none
  Forgejo,        \* the ids of the Forgejo host; the others are GitHub's
  Repo,           \* source_repo of each document
  Kind,           \* source_type of each document without its forge
  Parent,         \* parent_id: an id, or NoId
  Origin,         \* for a document of the mirror bot, the id in its envelope
  OriginParent,   \* and the id of the thread in its envelope
  SameData,       \* pairs that agree in all that fingerprint compares but body
  Bodies,         \* the texts each document may have
  Blank,          \* the texts that trim to nothing
  Wrapped,        \* the texts that are complete envelopes of the bot
  ResetTypes,     \* the <<forge, kind>> an administrator may reset
  MaxPage,        \* bound: documents in a page
  Worlds,         \* the situations looked at: which documents exist, how many
                  \* come in a page, which types the administrator resets
  Absent,         \* the body of a document not in the database
  NoId,           \* Option::None for an id
  NoRow           \* a document without a row in document_aliases

Threads == {d \in Docs : Kind[d] \in {"issue", "pr"}}

Texts == UNION {Bodies[d] : d \in Docs}

ASSUME DocumentsAssumption ==
  /\ IsFiniteSet(Docs)
  /\ Docs \subseteq Ids
  /\ NoId \notin Ids
  /\ Forgejo \subseteq Ids
  /\ DOMAIN Kind = Docs
  /\ DOMAIN Repo = Docs
  /\ DOMAIN Bodies = Docs
  /\ PullRequestId \in [Ids -> Ids]
  /\ Parent \in [Docs -> Ids \cup {NoId}]
  /\ Origin \in [Docs -> Ids \cup {NoId}]
  /\ OriginParent \in [Docs -> Ids \cup {NoId}]
  /\ Absent \notin Texts
  /\ MaxPage \in Nat \ {0}
  /\ Worlds \subseteq [docs : SUBSET Docs, page : 1..MaxPage, resets : SUBSET ResetTypes]

\* What the data guarantees by itself: a document and its parent are on one
\* forge, an envelope on one forge names documents of the other
\* (bkb-core/src/mirror.rs), and a document is compared with those of its own
\* kind on the other forge only (counterpart).
ASSUME ForgesAssumption ==
  /\ \A id \in Ids : id \in Forgejo <=> PullRequestId[id] \in Forgejo
  /\ \A d \in Docs :
       /\ Parent[d] # NoId => (d \in Forgejo <=> Parent[d] \in Forgejo)
       /\ Origin[d] # NoId => (d \in Forgejo <=> Origin[d] \notin Forgejo)
       /\ OriginParent[d] # NoId => (d \in Forgejo <=> OriginParent[d] \notin Forgejo)
  /\ \A d, e \in Docs :
       {d, e} \in SameData => Kind[d] = Kind[e] /\ (d \in Forgejo <=> e \notin Forgejo)

\* A number is an issue or a pull request (is_pr in bkb-ingest/src/sources), so
\* no issue has the issue-form name of a pull request.
ASSUME FormsAssumption == \A id \in Ids : PullRequestId[id] # id => id \notin Docs

VARIABLES
  world,     \* what the forges hold and the administrator does, for good
  db,        \* the tables: body, links and alias
  phase,     \* where reconcile is in the page's transaction
  page,      \* the documents of the page
  todo,      \* those the current loop over the page has not reached
  binding,   \* links read for the document being settled, still to bind
  children   \* children of the thread being settled, still to observe

transaction == <<phase, page, todo, binding, children>>
vars == <<world, db, transaction>>

Evidence == {"mirror", "parent", "exact"}
Links == [doc : Docs, target : Ids, origin : Ids, evidence : Evidence]
Rows == [canonical : Docs, origin : Docs, evidence : Evidence]

ASSUME RowsAssumption == NoRow \notin Rows

-----------------------------------------------------------------------------
(* Looking up: raw, actual_id, canonical_id.                               *)

Stored(t, id) == id \in Docs /\ t.body[id] # Absent

ActualId(t, id) ==
  IF ~Stored(t, id) /\ Stored(t, PullRequestId[id]) THEN PullRequestId[id] ELSE id

CanonicalId(t, id) ==
  LET actual == ActualId(t, id)
  IN  IF actual \in Docs /\ t.alias[actual] # NoRow THEN t.alias[actual].canonical ELSE actual

Members(t, group) == {d \in Docs : t.alias[d] # NoRow /\ t.alias[d].canonical = group}

-----------------------------------------------------------------------------
(* bind: join the groups of two documents, if nothing speaks against it.   *)

Joined(t, a, b) ==
  {a, b} \cup Members(t, CanonicalId(t, a)) \cup Members(t, CanonicalId(t, b))

\* Two threads of one host cannot be the same conversation.
Conflict(joined) ==
  \E d, e \in joined \cap Threads : d # e /\ Repo[d] = Repo[e]

Preferred(a, b, origin) ==
  IF a \in Threads THEN (IF a \in Forgejo THEN a ELSE b) ELSE origin

\* Slip: two threads of one host are not looked for.
MayBindUnchecked(t, a, b, origin) ==
  /\ Stored(t, a)
  /\ Stored(t, b)
  /\ Kind[a] = Kind[b]
  /\ CanonicalId(t, a) # CanonicalId(t, b)
  /\ Preferred(a, b, origin) \in Joined(t, a, b)
  /\ Stored(t, origin)

MayBind(t, a, b, origin) ==
  /\ Stored(t, a)
  /\ Stored(t, b)
  /\ Kind[a] = Kind[b]
  /\ CanonicalId(t, a) # CanonicalId(t, b)
  /\ ~Conflict(Joined(t, a, b))
  /\ Preferred(a, b, origin) \in Joined(t, a, b)
  /\ Stored(t, origin)

\* Slip: the two documents get rows, the rest of their groups does not.
BindPair(t, a, b, origin, evidence) ==
  IF MayBind(t, a, b, origin)
  THEN LET row == [canonical |-> Preferred(a, b, origin),
                   origin |-> origin, evidence |-> evidence]
       IN  [t EXCEPT !.alias = [d \in Docs |-> IF d \in {a, b} THEN row ELSE @[d]]]
  ELSE t

Bind(t, a, b, origin, evidence) ==
  IF MayBind(t, a, b, origin)
  THEN LET row == [canonical |-> Preferred(a, b, origin),
                   origin |-> origin, evidence |-> evidence]
       IN  [t EXCEPT !.alias = [d \in Docs |-> IF d \in Joined(t, a, b) THEN row ELSE @[d]]]
  ELSE t

RecordLink(t, a, b, origin, evidence) ==
  LET link == [doc |-> a, target |-> b, origin |-> origin, evidence |-> evidence]
      known == \E l \in t.links : l.doc = a /\ l.target = b
      recorded == [t EXCEPT !.links = IF known THEN @ ELSE @ \cup {link}]
  IN  IF a = b THEN t ELSE Bind(recorded, a, b, origin, evidence)

-----------------------------------------------------------------------------
(* observe: what a document's own content says.                            *)

MirrorLinks(t, d) ==
  LET origin == ActualId(t, Origin[d])
      first == RecordLink(t, d, origin, origin, "mirror")
      parent == ActualId(t, Parent[d])
      thread == ActualId(t, OriginParent[d])
      primary == IF parent \in Forgejo THEN parent ELSE thread
  IN  IF Origin[d] = NoId \/ t.body[d] \notin Wrapped THEN t
      ELSE IF NoId \in {Parent[d], OriginParent[d]} \/ ~Stored(t, parent) THEN first
      ELSE RecordLink(first, parent, thread, primary, "parent")

Fingerprint(t, d, e) ==
  {d, e} \in SameData /\ t.body[d] = t.body[e] /\ t.body[d] \notin Blank

SameThread(t, d, e) ==
  /\ NoId \notin {Parent[d], Parent[e]}
  /\ CanonicalId(t, Parent[d]) = CanonicalId(t, Parent[e])

\* Slip: any two conversations will do.
ExactCandidatesAnywhere(t, d) == {e \in Docs : Stored(t, e) /\ Fingerprint(t, d, e)}

ExactCandidates(t, d) ==
  {e \in Docs : Stored(t, e) /\ Fingerprint(t, d, e) /\ (d \in Threads \/ SameThread(t, d, e))}

InvalidateExact(t, id) ==
  LET group == CanonicalId(t, id)
      members == Members(t, group)
  IN  [t EXCEPT
        !.links = {l \in @ : l.evidence = "exact" => {l.doc, l.target} \cap members = {}},
        !.alias = [d \in Docs |-> IF d \in members /\ @[d].evidence = "exact"
                                  THEN NoRow ELSE @[d]]]

\* Slip: an ambiguous match is left alone.
ExactLinksNoInvalidation(t, d) ==
  LET found == ExactCandidates(t, d)
      other == CHOOSE e \in found : TRUE
      origin == IF (d \in Threads) = (d \in Forgejo) THEN d ELSE other
  IN  IF Cardinality(found) = 1 /\ Cardinality(ExactCandidates(t, other)) = 1
      THEN RecordLink(t, d, other, origin, "exact") ELSE t

\* Slip: the candidate's own candidates are not counted.
ExactLinksOneSided(t, d) ==
  LET found == ExactCandidates(t, d)
      other == CHOOSE e \in found : TRUE
      origin == IF (d \in Threads) = (d \in Forgejo) THEN d ELSE other
  IN  IF Cardinality(found) = 1 THEN RecordLink(t, d, other, origin, "exact") ELSE t

ExactLinks(t, d) ==
  LET found == ExactCandidates(t, d)
      other == CHOOSE e \in found : TRUE
      origin == IF (d \in Threads) = (d \in Forgejo) THEN d ELSE other
  IN  IF found = {} THEN t
      ELSE IF Cardinality(found) > 1 THEN InvalidateExact(t, d)
      ELSE IF Cardinality(ExactCandidates(t, other)) > 1 THEN InvalidateExact(t, other)
      ELSE RecordLink(t, d, other, origin, "exact")

Observe(t, d) == ExactLinks(MirrorLinks(t, d), d)

-----------------------------------------------------------------------------
(* The page's transaction.                                                 *)

Init ==
  /\ world \in Worlds
  /\ db = [body |-> [d \in Docs |-> Absent], links |-> {}, alias |-> [d \in Docs |-> NoRow]]
  /\ phase = "idle"
  /\ page = <<>>
  /\ todo = <<>>
  /\ binding = {}
  /\ children = {}

Begin(documents) ==
  /\ phase' = "observe"
  /\ page' = documents
  /\ todo' = documents
  /\ UNCHANGED <<binding, children>>

Pages == {p \in UNION {[1..n -> Docs] : n \in 1..MaxPage} :
            /\ Len(p) <= world.page
            /\ \A i \in DOMAIN p : p[i] \in world.docs
            /\ \A i, j \in DOMAIN p : p[i] = p[j] => i = j}

\* commit_page: the fetched documents replace the stored ones.  A source
\* serves one repository of one forge, and threads or what is in them.
CommitPage ==
  /\ phase = "idle"
  /\ \E p \in Pages : \E text \in [DOMAIN p -> Texts] :
       /\ \A i, j \in DOMAIN p :
            Repo[p[i]] = Repo[p[j]] /\ (p[i] \in Threads <=> p[j] \in Threads)
       /\ \A i \in DOMAIN p : text[i] \in Bodies[p[i]]
       /\ db' = [db EXCEPT !.body = [d \in Docs |->
                   IF \E i \in DOMAIN p : p[i] = d
                   THEN text[CHOOSE i \in DOMAIN p : p[i] = d] ELSE @[d]]]
       /\ Begin(p)

\* reconcile_page and replace_enrichment: stored documents, visited again.
Revisit ==
  /\ phase = "idle"
  /\ \E p \in Pages :
       /\ \A i \in DOMAIN p : Stored(db, p[i])
       /\ Begin(p)
  /\ UNCHANGED db

ObserveNext ==
  /\ phase = "observe"
  /\ todo # <<>>
  /\ db' = Observe(db, Head(todo))
  /\ todo' = Tail(todo)
  /\ UNCHANGED <<phase, page, binding, children>>

AllObserved ==
  /\ phase = "observe"
  /\ todo = <<>>
  /\ phase' = "settle"
  /\ todo' = page
  /\ UNCHANGED <<db, page, binding, children>>

\* Slip: only the links the document itself gave rise to.
ReadLinksOneWay ==
  /\ phase = "settle"
  /\ todo # <<>>
  /\ binding' = {l \in db.links : Head(todo) = l.doc}
  /\ phase' = "bind"
  /\ UNCHANGED <<db, page, todo, children>>

ReadLinks ==
  /\ phase = "settle"
  /\ todo # <<>>
  /\ binding' = {l \in db.links : Head(todo) \in {l.doc, l.target}}
  /\ phase' = "bind"
  /\ UNCHANGED <<db, page, todo, children>>

\* The links come in no particular order.
BindNext ==
  /\ phase = "bind"
  /\ \E l \in binding :
       /\ db' = Bind(db, l.doc, l.target, l.origin, l.evidence)
       /\ binding' = binding \ {l}
  /\ UNCHANGED <<phase, page, todo, children>>

Children(t, d) ==
  {c \in Docs : /\ Stored(t, c)
                /\ Parent[c] # NoId
                /\ \/ Parent[c] = d
                   \/ PullRequestId[Parent[c]] = d
                   \/ Parent[c] \in Members(t, CanonicalId(t, d))}

ReadChildren ==
  /\ phase = "bind"
  /\ binding = {}
  /\ phase' = "children"
  /\ children' = IF Head(todo) \in Threads THEN Children(db, Head(todo)) ELSE {}
  /\ UNCHANGED <<db, page, todo, binding>>

ObserveChild ==
  /\ phase = "children"
  /\ \E c \in children :
       /\ db' = Observe(db, c)
       /\ children' = children \ {c}
  /\ UNCHANGED <<phase, page, todo, binding>>

Settled ==
  /\ phase = "children"
  /\ children = {}
  /\ phase' = "settle"
  /\ todo' = Tail(todo)
  /\ UNCHANGED <<db, page, binding, children>>

Commit ==
  /\ phase = "settle"
  /\ todo = <<>>
  /\ phase' = "idle"
  /\ page' = <<>>
  /\ UNCHANGED <<db, todo, binding, children>>

-----------------------------------------------------------------------------
(* reset_source_type: the schema's ON DELETE CASCADE clauses take the      *)
(* links and the aliases of the deleted documents along.                   *)

SourceType(d) == <<IF d \in Forgejo THEN "forgejo" ELSE "github", Kind[d]>>

Reset(type) ==
  LET gone == {d \in Docs : SourceType(d) = type}
  IN  /\ phase = "idle"
      /\ db' = [body  |-> [d \in Docs |-> IF d \in gone THEN Absent ELSE db.body[d]],
                links |-> {l \in db.links : l.doc \notin gone},
                alias |-> [d \in Docs |->
                            IF \/ d \in gone
                               \/ db.alias[d] # NoRow
                                  /\ {db.alias[d].canonical, db.alias[d].origin} \cap gone # {}
                            THEN NoRow ELSE db.alias[d]]]
      /\ UNCHANGED transaction

Next ==
  /\ UNCHANGED world
  /\ \/ CommitPage
     \/ Revisit
     \/ ObserveNext
     \/ AllObserved
     \/ ReadLinks
     \/ BindNext
     \/ ReadChildren
     \/ ObserveChild
     \/ Settled
     \/ Commit
     \/ \E type \in world.resets : Reset(type)

Spec == Init /\ [][Next]_vars
-----------------------------------------------------------------------------
(* Properties.                                                             *)

\* The tables hold rows of their schema (bkb-core/src/schema.rs), a link has
\* its document and its key to itself, and the loops of reconcile run over
\* documents of the page and rows of the tables.
TypeOK ==
  /\ world \in Worlds
  /\ db.body \in [Docs -> Texts \cup {Absent}]
  /\ db.links \subseteq Links
  /\ \A l \in db.links : Stored(db, l.doc)
  /\ \A l, m \in db.links : l.doc = m.doc /\ l.target = m.target => l = m
  /\ db.alias \in [Docs -> Rows \cup {NoRow}]
  /\ phase \in {"idle", "observe", "settle", "bind", "children"}
  /\ page \in Seq(Docs)
  /\ todo \in Seq(Docs)
  /\ binding \subseteq Links
  /\ children \subseteq Docs

\* A group is one star: the canonical member and the origin, whose text and
\* author the projection shows, are stored members of the group themselves,
\* and all its rows are the same.  Neither a merge of two groups, nor an
\* invalidation, nor the cascade of a reset may leave a part of one behind.
GroupsAreStars ==
  \A d \in Docs : db.alias[d] # NoRow =>
    LET row == db.alias[d]
    IN  /\ Stored(db, d)
        /\ db.alias[row.canonical] = row
        /\ db.alias[row.origin] = row
        /\ Kind[row.canonical] = Kind[d]

\* A conversation has at most one thread of each host (the comment in bind):
\* whatever evidence arrives in whatever order, two threads of one host are
\* never shown as one.
OneThreadPerHost ==
  \A d, e \in Threads :
    /\ d # e
    /\ db.alias[d] # NoRow
    /\ db.alias[e] # NoRow
    /\ Repo[d] = Repo[e]
    => db.alias[d].canonical # db.alias[e].canonical

\* A thread on both forges is shown at its Forgejo location.
ForgejoFirst ==
  \A d \in Threads : db.alias[d] # NoRow => db.alias[d].canonical \in Forgejo

\* An exact match of comments needs the verified mapping of their threads:
\* two members of a group that rests on it are in one canonical thread, where
\* nothing has been reset (a reset of the threads leaves the comments joined).
CopiesShareThread ==
  phase = "idle" /\ world.resets = {} =>
    \A d, e \in Docs \ Threads :
      /\ db.alias[d] # NoRow
      /\ db.alias[d].evidence = "exact"
      /\ db.alias[e] = db.alias[d]
      => SameThread(db, d, e)

\* A document that now has several exact candidates is merged with none of
\* them: a later duplicate invalidates the match made before it.
DuplicateInvalidates ==
  phase = "idle" =>
    \A d \in Docs : Cardinality(ExactCandidates(db, d)) > 1 =>
      \A e \in ExactCandidates(db, d) : CanonicalId(db, d) # CanonicalId(db, e)

\* Exact evidence is one to one: no document is the copy of two others.
ExactOneToOne ==
  \A l, m \in db.links :
    l.evidence = "exact" /\ m.evidence = "exact" =>
      \/ {l.doc, l.target} = {m.doc, m.target}
      \/ {l.doc, l.target} \cap {m.doc, m.target} = {}

\* As long as the texts are the ones that were compared, exact evidence is one
\* to one: two recorded matches that both still hold have no document in common.
CurrentMatchesOneToOne ==
  phase = "idle" =>
    \A l, m \in db.links :
      /\ l.evidence = "exact" /\ m.evidence = "exact"
      /\ Fingerprint(db, l.doc, l.target) /\ Fingerprint(db, m.doc, m.target)
      => \/ {l.doc, l.target} = {m.doc, m.target}
         \/ {l.doc, l.target} \cap {m.doc, m.target} = {}

\* A step withdraws support: a document loses its row, but keeps a link to
\* another stored document.
Withdraws ==
  \E l \in db'.links :
    /\ Stored(db', l.doc) /\ Stored(db', l.target)
    /\ \E d \in {l.doc, l.target} : db.alias[d] # NoRow /\ db'.alias[d] = NoRow

\* A step parts threads: one that holds other documents loses its row, because
\* its match has become ambiguous or has been reset.
PartsThreads ==
  \E c \in Docs : Parent[c] # NoId /\
    LET d == ActualId(db, Parent[c])
    IN  d \in Docs /\ db.alias[d] # NoRow /\ db'.alias[d] = NoRow

\* Before or after a step, a comment that mirror evidence is about is in a group
\* that rests on an exact match.
MirrorMeetsMatch ==
  \E c \in Docs \ Threads :
    /\ \E t \in {db, db'} : t.alias[c] # NoRow /\ t.alias[c].evidence = "exact"
    /\ \E l \in db.links \cup db'.links : l.evidence # "exact" /\ c \in {l.doc, l.target}

\* bind has refused no exact match.
MatchesAreBound ==
  \A l \in db.links :
    l.evidence = "exact" => CanonicalId(db, l.doc) = CanonicalId(db, l.target)

\* Late parents and late origins are retried: when a page is committed, no
\* recorded link waits that could be bound.  It is owed as long as no step
\* withdraws support, as an exact match withdrawn from a group that mirror
\* evidence also supports does.
NoneLeftUnbound ==
  phase = "idle" =>
    \A l \in db.links : ~MayBind(db, l.doc, l.target, l.origin)
=============================================================================
