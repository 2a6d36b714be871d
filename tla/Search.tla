------------------------------- MODULE Search -------------------------------
(***************************************************************************)
(* The queries of the store (bkb-store/src/sqlite.rs): search, references, *)
(* timeline and find_commit, over documents of which some are verified     *)
(* copies of others and make up one conversation.                          *)
(*                                                                         *)
(* Each query holds the store's lock and is one step; find_commit is a     *)
(* search, then for each hit a read and, for a commit, a search of its     *)
(* pull requests, each under a lock of its own, so that pages and resets   *)
(* come in between.  What a page does to the groups is Reconcile's; here   *)
(* it may join a pair of copies or part it.                                *)
(*                                                                         *)
(* Documents are numbered in the order of their ids.  FTS5 is an order of  *)
(* the documents and the set of those that have the word looked for.       *)
(***************************************************************************)
EXTENDS Integers, Sequences, FiniteSets, FiniteSetsExt

CONSTANTS
  Docs,
  Type, Repo, Author, Date, \* of each document
  Score,           \* its bm25 score for the word; the least is the best
  Copies,          \* pairs that reconciliation may join: canonical and origin
  NameOf,          \* a repository as it is asked for, without github.com/
  Twin,            \* the Forgejo identity of the migrated repositories
  MergeOf,         \* the commit that a pull request's metadata names, or None
  Names,           \* what texts call documents and other things by
  Permalinks,      \* the names that are URLs of comments on Forgejo
  Called,          \* the name of each document: its number, its URL, or None
  Links,           \* the references a document makes once it has the word
  RefTypes,        \* the types of references that are asked for
  Wordless,        \* bound: the documents that never have it
  Kinds,           \* the source types that are asked for, by set
  Places,          \* the repositories that are asked for, by set
  Writers,         \* the authors that are asked for
  Moments,         \* the dates that are asked for
  Limits,          \* the limits that are asked for
  MostHits,        \* 100, the most a search returns
  MostReferences,  \* 100, the most references the API asks for
  FindLimit,       \* 10, the limit of find_commit
  PrLimit,         \* 5, the pull requests listed with a commit
  EventLimit,      \* 200, the events of a timeline
  None

PullRequests == {"github_pr", "forgejo_pr"}

ASSUME DataAssumption ==
  /\ Docs \subseteq Nat /\ IsFiniteSet(Docs)
  /\ Date \in [Docs -> Nat] /\ Score \in [Docs -> Int]
  /\ Copies \subseteq [canonical : Docs, origin : Docs, other : Docs]
  /\ \A p \in Copies : p.canonical # p.other /\ p.origin \in {p.canonical, p.other}
  /\ MergeOf \in [Docs -> Docs \cup {None}]
  /\ Names \cap (Docs \cup {None}) = {} /\ Permalinks \subseteq Names
  /\ Called \in [Docs -> Names \cup {None}]
  /\ Limits \subseteq Nat /\ Moments \subseteq Nat
  /\ None \notin Docs \cup Nat /\ None \notin Copies
  /\ MostHits \in Nat /\ FindLimit \in Nat /\ PrLimit \in Nat /\ EventLimit \in Nat
  /\ MostReferences \in Nat

\* A reference is by a name, or by the id of a parent; a number is of one thread.
ASSUME LinksAssumption ==
  \A d \in Docs :
    /\ IsFiniteSet(Links[d])
    /\ Links[d] \subseteq [to : Docs, name : {None}, type : STRING]
                            \cup [to : {None}, name : Names, type : STRING]
    /\ \A e \in Docs : Called[d] = Called[e] => d = e \/ Called[d] \in Permalinks \cup {None}

VARIABLES
  text,     \* text[d]: "absent", or what the query finds in the document
  alias,    \* alias[d]: the pair whose row the document has, or None
  refs,     \* the reference rows
  answer,   \* to a single query, until the database changes
  finding   \* the find_commit that runs

vars == <<text, alias, refs, answer, finding>>

\* A pull request may name a commit's hash; other documents have the word or not.
Texts == {"absent", "quiet", "word", "sha"}

Stored == {d \in Docs : text[d] # "absent"}

Canonical(d) == IF alias[d] = None THEN d ELSE alias[d].canonical

Conversation(c) == {d \in Stored : Canonical(d) = c}

\* projected: the origin's date stands for the canonical document's.
Shown(c) == Date[IF alias[c] = None THEN c ELSE alias[c].origin]

\* S in an order that is given as the pairs of what comes before what.
Sorted(S, order) ==
  [i \in 1 .. Cardinality(S) |->
     CHOOSE d \in S : Cardinality({e \in S : <<e, d>> \in order}) = i - 1]

Least(a, b) == IF a < b THEN a ELSE b

Page(s, n) == SubSeq(s, 1, Least(n, Len(s)))

-----------------------------------------------------------------------------
(* search                                                                  *)

Queries ==
  [words : BOOLEAN, types : Kinds, repos : Places, author : Writers \cup {None},
   after : Moments \cup {None}, limit : Limits \cup {None}, deduplicate : BOOLEAN]

HasFilter(q) ==
  q.types # {} \/ q.repos # {} \/ q.author # None \/ q.after # None

\* A name that starts with github.com/ is not one of a migrated repository.
ReposOf(q) ==
  {NameOf[r] : r \in q.repos}
    \cup (IF q.deduplicate THEN {Twin[r] : r \in q.repos \cap DOMAIN Twin} ELSE {})

Fits(d, q) ==
  /\ q.types = {} \/ Type[d] \in q.types
  /\ q.repos = {} \/ Repo[d] \in ReposOf(q)
  /\ q.author = None \/ Author[d] = q.author
  /\ q.after = None \/ Date[d] >= q.after

Matches(q) == IF q.words THEN {d \in Stored : text[d] = "word"} ELSE Stored

\* Slip: the row that has the word must meet the filters itself.
HitsItself(q) == {d \in Matches(q) : Fits(d, q)}

\* With duplicates removed, any member of the conversation may meet the filters.
Hits(q) ==
  IF q.deduplicate
  THEN {d \in Matches(q) : \E f \in Conversation(Canonical(d)) : Fits(f, q)}
  ELSE {d \in Matches(q) : Fits(d, q)}

Better(q, d, e) ==
  LET score(x) == IF q.words THEN Score[x] ELSE 0
  IN  score(d) < score(e) \/ (score(d) = score(e) /\ d < e)

\* Slip: copies are removed by their own id, so none is.
BestAll(q) == Hits(q)

\* The best row of each conversation.
Best(q) ==
  IF q.deduplicate
  THEN {d \in Hits(q) : \A e \in Hits(q) : Canonical(e) = Canonical(d) => ~Better(q, e, d)}
  ELSE Hits(q)

Before(q, d, e) ==
  IF q.words THEN Better(q, d, e) ELSE Date[d] > Date[e] \/ (Date[d] = Date[e] /\ d < e)

Order(q, S) == {p \in S \X S : Before(q, p[1], p[2])}

\* Slip: the limit is applied to the rows, and copies are removed after.
RankedLate(q) ==
  SelectSeq(Page(Sorted(Hits(q), Order(q, Hits(q))),
                 Least(IF q.limit = None THEN 20 ELSE q.limit, MostHits)),
            LAMBDA d : d \in Best(q))

Ranked(q) ==
  Page(Sorted(Best(q), Order(q, Best(q))),
       Least(IF q.limit = None THEN 20 ELSE q.limit, MostHits))

\* The ids of the results: with duplicates removed, of the canonical documents.
Ids(q) ==
  [i \in DOMAIN Ranked(q) |->
     IF q.deduplicate THEN Canonical(Ranked(q)[i]) ELSE Ranked(q)[i]]

NoAnswer == [kind |-> "none"]

Search(q) ==
  /\ answer = NoAnswer
  /\ answer' = IF ~q.words /\ ~HasFilter(q)
               THEN [kind |-> "error"]
               ELSE [kind |-> "search", query |-> q, matched |-> Ranked(q), ids |-> Ids(q)]
  /\ UNCHANGED <<text, alias, refs, finding>>

-----------------------------------------------------------------------------
(* get_references                                                          *)

\* That a pull request may be named as an issue (actual_id) is left out.
\* external_id: the conversation of the thread that has the number, or the
\* comment, when there is just one, that has the URL.
ExternalId(name) ==
  LET bearers == {d \in Stored : Called[d] = name}
  IN  CASE name \in Permalinks /\ Cardinality(bearers) = 1 -> CHOOSE d \in bearers : TRUE
        [] name \notin Permalinks /\ bearers # {} -> Canonical(CHOOSE d \in bearers : TRUE)
        [] OTHER -> None

\* reference_target: a URL is looked up again, whatever the row holds.
Target(r) ==
  IF r.to # None /\ r.name \notin Permalinks THEN r.to
  ELSE IF r.name # None THEN ExternalId(r.name) ELSE None

\* What an entity, an id or a name, is looked for as.
EntityTarget(entity) ==
  IF entity \in Docs THEN Canonical(entity)
  ELSE IF ExternalId(entity) # None THEN ExternalId(entity) ELSE entity

\* The rows of the query; kind is a type of references or None for any.
RowsOf(entity, kind) ==
  {r \in refs : /\ \/ r.name = entity
                   \/ r.to # None /\ Canonical(r.to) = EntityTarget(entity)
                /\ kind = None \/ r.type = kind}

\* Slip: the rows are grouped by their own ends.
GroupRaw(r) == <<r.from, r.to, r.name, r.type>>

\* GROUP BY: the conversations that the ends are of, as far as the row knows.
Group(r) == <<Canonical(r.from), IF r.to # None THEN Canonical(r.to) ELSE r.name, r.type>>

\* canonical_refs: what a row is returned as; those that are equal are one.
Combined(r) ==
  <<Canonical(r.from), IF Target(r) # None THEN Canonical(Target(r)) ELSE r.name, r.type>>

ReferenceLimit(limit) == Least(IF limit = None THEN 50 ELSE limit, MostReferences)

\* A row of each group, as many groups as the limit allows; then, once more,
\* those with the same ends are one.  Which groups depends on the rows' ids.
GetReferences(entity, kind, limit) ==
  LET rows == RowsOf(entity, kind)
      size == Least(ReferenceLimit(limit), Cardinality({Group(r) : r \in rows}))
  IN  /\ answer = NoAnswer
      /\ \E page \in kSubset(size, rows) :
           /\ \A r, s \in page : Group(r) = Group(s) => r = s
           /\ answer' = [kind |-> "references", entity |-> entity, type |-> kind,
                         limit |-> limit, found |-> {Combined(r) : r \in page}]
      /\ UNCHANGED <<text, alias, refs, finding>>

-----------------------------------------------------------------------------
(* timeline                                                                *)

\* A document that has the word is tagged with the concept.
Mentions(after) ==
  {d \in Stored : text[d] = "word" /\ (after = None \/ Date[d] >= after)}

FirstMention(c, after) == Min({Date[d] : d \in Mentions(after) \cap Conversation(c)})

Mentioned(after) == {Canonical(d) : d \in Mentions(after)}

Earlier(after) ==
  {p \in Mentioned(after) \X Mentioned(after) :
     LET first(c) == FirstMention(c, after)
     IN  first(p[1]) < first(p[2]) \/ (first(p[1]) = first(p[2]) /\ p[1] < p[2])}

Events(after) == Page(Sorted(Mentioned(after), Earlier(after)), EventLimit)

Timeline(after) ==
  /\ answer = NoAnswer
  /\ answer' = [kind |-> "timeline", after |-> after, events |-> Events(after)]
  /\ UNCHANGED <<text, alias, refs, finding>>

-----------------------------------------------------------------------------
(* find_commit                                                             *)

CommitQuery(repos) ==
  [words |-> TRUE, types |-> {"commit"} \cup PullRequests, repos |-> repos,
   author |-> None, after |-> None, limit |-> FindLimit, deduplicate |-> TRUE]

\* next: the hit to read; commit: the one whose pull requests are looked for.
\* joined and lost are for the properties: whether a pair was joined since the
\* search, and the hits that were removed.
Idle == [phase |-> "idle"]

StartFind(repos) ==
  /\ finding = Idle
  /\ finding' = [phase |-> "reading", hits |-> Ids(CommitQuery(repos)), next |-> 1,
                 contexts |-> <<>>, joined |-> FALSE, lost |-> {}]
  /\ UNCHANGED <<text, alias, refs, answer>>

\* get_document of a hit; one that is gone is passed over.
ReadHit ==
  /\ finding.phase = "reading"
  /\ finding.next <= Len(finding.hits)
  /\ LET hit == finding.hits[finding.next]
         doc == Canonical(hit)
     IN  finding' =
           IF doc \notin Stored
           THEN [finding EXCEPT !.next = @ + 1]
           ELSE [finding EXCEPT
                   !.contexts = Append(@, [hit |-> hit, doc |-> doc, prs |-> <<>>]),
                   !.phase = IF Type[doc] = "commit" THEN "prs" ELSE "reading",
                   !.next = IF Type[doc] = "commit" THEN @ ELSE @ + 1]
  /\ UNCHANGED <<text, alias, refs, answer>>

\* The repository as it is named, and its Forgejo identity if it has migrated.
SameProject(repo) == {repo} \cup {Twin[r] : r \in {repo} \cap DOMAIN Twin}

Relevant(commit) ==
  {d \in Stored : /\ Type[d] \in PullRequests
                  /\ Repo[d] \in SameProject(Repo[commit])
                  /\ MergeOf[d] = commit \/ text[d] = "sha"}

Named(commit) == {Canonical(d) : d \in Relevant(commit)}

\* Slip: pull requests in the order of their ids.
MergesFirstById(commit) == {p \in Named(commit) \X Named(commit) : p[1] < p[2]}

\* Those whose metadata names the commit come first, then those that name
\* another one, then those that have not been merged.
Standing(commit, c) ==
  LET merges == {MergeOf[d] : d \in {e \in Relevant(commit) : Canonical(e) = c}}
  IN  IF commit \in merges THEN 2 ELSE IF merges # {None} THEN 1 ELSE 0

MergesFirst(commit) ==
  {p \in Named(commit) \X Named(commit) :
     LET standing(c) == Standing(commit, c)
     IN  standing(p[1]) > standing(p[2]) \/ (standing(p[1]) = standing(p[2]) /\ p[1] < p[2])}

PullRequestsOf(commit) == Page(Sorted(Named(commit), MergesFirst(commit)), PrLimit)

\* find_associated_prs, by the hash that was read.
ReadPullRequests ==
  /\ finding.phase = "prs"
  /\ LET last == Len(finding.contexts)
     IN  finding' = [finding EXCEPT
           !.contexts[last].prs = PullRequestsOf(finding.contexts[last].doc),
           !.phase = "reading", !.next = @ + 1]
  /\ UNCHANGED <<text, alias, refs, answer>>

Found ==
  /\ finding.phase = "reading"
  /\ finding.next > Len(finding.hits)
  /\ finding' = [finding EXCEPT !.phase = "done"]
  /\ UNCHANGED <<text, alias, refs, answer>>

Return ==
  /\ finding.phase = "done"
  /\ finding' = Idle
  /\ UNCHANGED <<text, alias, refs, answer>>

-----------------------------------------------------------------------------
(* What other tasks do to the database between two queries.                *)

Marked(isJoined, removed) ==
  IF finding = Idle
  THEN Idle
  ELSE [finding EXCEPT !.joined = @ \/ isJoined, !.lost = @ \cup removed]

\* write_reference: a row of a link of d, resolved with d written.
Row(d, link) == [from |-> d, to |-> Target(link)', name |-> link.name, type |-> link.type]

\* repair_permalink_refs and reconcile: the URLs that d has or is linked by are
\* looked up again; the open rows that name the thread d are resolved to it.
Repaired(rows, d) ==
  LET urls == {Called[d]} \cup {r.name : r \in {s \in rows : d \in {s.from, s.to}}}
  IN  {[r EXCEPT !.to = IF r.name \in urls \cap Permalinks THEN ExternalId(r.name)'
                        ELSE IF @ = None /\ r.name = Called[d] THEN d ELSE @] : r \in rows}

\* A page writes a document and what it refers to.
Write(d, t) ==
  /\ t # "absent" /\ t # text[d]
  /\ t = "sha" => Type[d] \in PullRequests
  /\ t = "word" => d \notin Wordless
  /\ text' = [text EXCEPT ![d] = t]
  /\ UNCHANGED alias
  /\ refs' = LET kept == {r \in refs : r.from # d}
                 made == IF t = "word" THEN {Row(d, link) : link \in Links[d]} ELSE {}
             IN  Repaired(kept \cup made, d)
  /\ answer' = NoAnswer
  /\ UNCHANGED finding

Join(p) ==
  /\ {p.canonical, p.other} \subseteq Stored
  /\ alias[p.other] = None /\ alias[p.canonical] \in {None, p}
  /\ alias' = [alias EXCEPT ![p.canonical] = p, ![p.other] = p]
  /\ answer' = NoAnswer
  /\ finding' = Marked(TRUE, {})
  /\ UNCHANGED <<text, refs>>

\* An exact match that a later duplicate makes ambiguous is taken back.
Part(p) ==
  /\ alias[p.canonical] = p
  /\ alias' = [d \in Docs |-> IF alias[d] = p THEN None ELSE alias[d]]
  /\ answer' = NoAnswer
  /\ UNCHANGED <<text, refs, finding>>

\* An alias goes with any of the documents it names.
Cascade(gone) ==
  [d \in Docs |->
     IF alias[d] # None /\ {alias[d].canonical, alias[d].origin, d} \cap gone # {}
     THEN None ELSE alias[d]]

Reset(type) ==
  LET gone == {d \in Stored : Type[d] = type}
  IN  /\ gone # {}
      /\ text' = [d \in Docs |-> IF d \in gone THEN "absent" ELSE text[d]]
      /\ alias' = Cascade(gone)
      /\ refs' = {r \in refs : r.from \notin gone /\ r.to \notin gone}
      /\ answer' = NoAnswer
      /\ finding' = Marked(FALSE, gone)

-----------------------------------------------------------------------------
Init ==
  /\ text = [d \in Docs |-> "absent"]
  /\ alias = [d \in Docs |-> None]
  /\ refs = {}
  /\ answer = NoAnswer
  /\ finding = Idle

\* Single queries are explored while no find_commit runs: both only read.
Ask ==
  /\ finding = Idle
  /\ \/ \E q \in Queries : Search(q)
     \/ \E e \in Docs \cup Names, k \in RefTypes \cup {None}, n \in Limits \cup {None} :
          GetReferences(e, k, n)
     \/ \E a \in Moments \cup {None} : Timeline(a)

Find ==
  \/ answer = NoAnswer /\ \E repos \in Places : StartFind(repos)
  \/ ReadHit
  \/ ReadPullRequests
  \/ Found
  \/ Return

Change ==
  \/ \E d \in Docs, t \in Texts : Write(d, t)
  \/ \E p \in Copies : Join(p)
  \/ \E p \in Copies : Part(p)
  \/ \E d \in Docs : Reset(Type[d])

Next == Ask \/ Find \/ Change

Spec == Init /\ [][Next]_vars

-----------------------------------------------------------------------------
(* Properties.                                                             *)

\* A row of an alias names stored documents, its canonical document has the
\* same row (Reconcile proves that groups are stars), so that every query can
\* read the canonical document it unwraps; references start at stored documents.
TypeOK ==
  /\ text \in [Docs -> Texts]
  /\ alias \in [Docs -> Copies \cup {None}]
  /\ \A d \in Docs : alias[d] # None =>
       /\ d \in {alias[d].canonical, alias[d].other}
       /\ {alias[d].canonical, alias[d].origin} \subseteq Stored
       /\ alias[alias[d].canonical] = alias[d]
       /\ d \in Stored
  /\ refs \subseteq [from : Stored, to : Docs \cup {None}, name : Names \cup {None}, type : STRING]

\* A search that asks for raw records gets those of the host it was told.
KeepsToItsHost ==
  answer.kind = "search" /\ ~answer.query.deduplicate /\ answer.query.repos # {} =>
    \A i \in DOMAIN answer.ids : Repo[answer.ids[i]] \in {NameOf[r] : r \in answer.query.repos}

\* What a search should answer, said of conversations and not of rows: they
\* are found if one member has the word and one, be it another, meets every
\* filter; each is returned once, under an id that can be read; if some are
\* left out the limit is full, and they are not better than any returned.
AnswerIsComplete ==
  /\ KeepsToItsHost
  /\ answer.kind = "search" /\ answer.query.deduplicate =>
    LET q == answer.query
        limit == Least(IF q.limit = None THEN 20 ELSE q.limit, MostHits)
        found == {answer.ids[i] : i \in DOMAIN answer.ids}
        wanted == {c \in Stored :
                     /\ Canonical(c) = c
                     /\ \E d \in Conversation(c) : ~q.words \/ text[d] = "word"
                     /\ \E f \in Conversation(c) : Fits(f, q)}
    IN  /\ Cardinality(found) = Len(answer.ids)
        /\ found \subseteq wanted
        /\ Len(answer.ids) = Least(limit, Cardinality(wanted))
        /\ \A c \in wanted \ found : \A d \in Matches(q) \cap Conversation(c) :
             \A i \in DOMAIN answer.matched : ~Better(q, d, answer.matched[i]) \/ ~q.words

\* The conversation that a name or an id means, or the name of something else.
Meaning(name, id) ==
  IF name = None THEN Canonical(id)
  ELSE IF ExternalId(name) # None THEN Canonical(ExternalId(name)) ELSE name

MeaningOf(entity) ==
  IF entity \in Docs THEN Meaning(None, entity) ELSE Meaning(entity, None)

\* What r tells when it is read by what it means.
Told(r) == <<Canonical(r.from), Meaning(r.name, r.to), r.type>>

\* A row that was resolved through an alias that is no more: it keeps the id of
\* what was the canonical document then.
Misled(r) == r.name # None /\ r.to # None /\ Canonical(r.to) # Meaning(r.name, r.to)

\* A row that is open although what it names is stored.
Late(r) == r.to = None /\ ExternalId(r.name) # None

\* Rows are misled to the canonical half of a pair only, and late only if their
\* name is a URL (that two comments have had).
RowsFollow ==
  /\ \A r \in refs : Misled(r) => \E p \in Copies : r.to = p.canonical /\ r.name = Called[p.other]
  /\ \A r \in refs : Late(r) => r.name \in Permalinks

\* The URL of a comment that is shown as another: external_id does not unwrap it.
OfACopy(name) ==
  name \in Permalinks /\ ExternalId(name) # None /\ Canonical(ExternalId(name)) # ExternalId(name)

\* The references to any copy, by its id or by its name, are those that mean
\* its conversation, each once; and all of them unless the limit is full or a
\* row is late.
ReferencesAreCombined ==
  answer.kind = "references" /\ (\A r \in refs : ~Misled(r)) =>
    LET wanted == {Told(r) : r \in
                     {s \in refs : /\ Meaning(s.name, s.to) = MeaningOf(answer.entity)
                                   /\ answer.type = None \/ s.type = answer.type}}
    IN  /\ answer.found \subseteq wanted
        /\ (\A r \in refs : ~Late(r)) /\ ~OfACopy(answer.entity) =>
             Cardinality(answer.found) = Least(ReferenceLimit(answer.limit), Cardinality(wanted))

\* A timeline has one event for each conversation that has the concept.
EventsAreConversations ==
  answer.kind = "timeline" =>
    /\ \A i, j \in DOMAIN answer.events : i # j => answer.events[i] # answer.events[j]
    /\ \A i \in DOMAIN answer.events : Canonical(answer.events[i]) = answer.events[i]
    /\ \A d \in Mentions(answer.after) :
         Len(answer.events) < EventLimit => Canonical(d) \in {answer.events[i] : i \in DOMAIN answer.events}

\* Copies of one conversation count once wherever references or mentions are
\* counted, whatever has been joined, parted or deleted before.
CopiesCountOnce ==
  /\ TypeOK
  /\ RowsFollow
  /\ ReferencesAreCombined
  /\ EventsAreConversations

\* find_commit answers for each hit of its search but those that were removed
\* meanwhile, and the same document twice only if two hits were joined.
EveryHitIsAnswered ==
  finding # Idle =>
    /\ \A i, j \in DOMAIN finding.contexts :
         i # j /\ finding.contexts[i].doc = finding.contexts[j].doc => finding.joined
    /\ finding.phase = "done" =>
         \A i \in DOMAIN finding.hits :
           \/ finding.hits[i] \in finding.lost
           \/ \E j \in DOMAIN finding.contexts : finding.contexts[j].hit = finding.hits[i]

\* A pull request that merged the commit, on either host of its repository, is
\* listed with it before one that merely names its hash.
MergesComeFirst ==
  [][ finding.phase = "prs" /\ finding'.phase = "reading" =>
      LET last == Len(finding.contexts)
          commit == finding.contexts[last].doc
          prs == finding'.contexts[last].prs
          merges == {Canonical(d) : d \in {e \in Stored :
                       /\ Type[e] \in PullRequests
                       /\ MergeOf[e] = commit
                       /\ Repo[e] \in SameProject(Repo[commit])}}
      IN  \A i \in DOMAIN prs : prs[i] \notin merges => merges \subseteq {prs[j] : j \in 1 .. i - 1}
    ]_vars

\* The API says "Only include events after this date (ISO 8601)." of the dates
\* that its events show.
EventsAreInWindow ==
  answer.kind = "timeline" /\ answer.after # None =>
    \A i \in DOMAIN answer.events : Shown(answer.events[i]) >= answer.after

=============================================================================
