# Verification of bitcoin-knowledge-base

TLA+ models, TLC checks and TLAPS proofs for bitcoin-knowledge-base (BKB): how
it fetches, stores, joins, queries and serves documents. Paths below are
relative to the repository's `src/` tree, crates by their names.

## 1. The system

BKB fetches documents about Bitcoin development from many places (GitHub,
Forgejo, git repositories, mailing lists, forums, IRC logs, specifications),
stores them in one SQLite database with references and concept tags derived
from them, links copies of one conversation that exist on two forges, and
serves search over HTTP and MCP.

| Component | State | Operations | Talks to | What makes it correct |
|---|---|---|---|---|
| Job queue (`bkb-ingest/src/queue.rs`) | heap of jobs, each with a cursor, a due time and a retry count, in memory | `add_job`, `run`, `execute_job`, `store_page` | adapters (`fetch_page`), store | no job lost, a due job runs, the stored cursor never ahead of the documents |
| Rate limiter and host pacing (`rate_limiter.rs`, `sources/http.rs`, `sources/forgejo.rs`) | limit, remaining, reset; the host's next request time | `acquire`, `update_from_response`, `get` | polling adapters, queue (`Deferred`) | no request beyond the quota, one silence for all feeds of a host, no job put off for ever |
| Polling adapters (`sources/github.rs`, `github_reviews.rs`, `forgejo.rs`) | `PollCursor` | `fetch_page` of seven feeds | remote APIs | what a finished window missed is seen by a later one, a window ends |
| Commit walk (`sources/commits.rs`) | `GitCursor` | `fetch_page` | repository cache | a complete walk has indexed all its head reaches |
| Repository cache (`repo_cache.rs`) | bare clones on disk, access log | `ensure_repo`, `evict_if_needed`, `check_repo_size` | commit walk | the size bound holds, a walk survives an eviction |
| Archives (`irc.rs`, `mail_archive.rs`, `bitcointalk.rs`) | a place in the cursor | `fetch_page` | remote archives | what the cursor passes has been read |
| Listings (`specs.rs`, `optech.rs`, `delving.rs`, `mailing_list.rs`) | page, offset or month in the cursor; the list of files in memory | `fetch_page` | remote servers | a pass reads what was there when it began |
| Store (`bkb-store/src/sqlite.rs`) | one connection behind a mutex; documents, refs, concept_mentions, sync_state, change_log, FTS index | `commit_page`, `reconcile_page`, `replace_enrichment`, `reset_source_type`, queries | everything | pages atomic, no orphans, edges follow bodies |
| Reconciliation (`bkb-store/src/reconcile.rs`) | document_links (evidence), document_aliases (groups) | `reconcile`, `bind`, `observe`, `invalidate_exact`, projections | page transactions, queries | at most one thread per host in a group, groups supported by evidence, order does not matter |
| Queries (`bkb-store/src/sqlite.rs`, `bkb-server/src/api.rs`) | none | `search`, `get_references`, `timeline`, `find_commit` | store | copies count once, nothing that fits is left out |
| Admin API (`bkb-server/src/api.rs`) | map of running re-enrichments | reset, re-enrich, status | store | refuses what would collide, never refuses for ever |
| Server (`bkb-server/src/main.rs`) | the tasks | start-up, `--ingest-source` | queue, API, store | a restart resumes |
| MCP server (`bkb-mcp`) | one call under way | JSON-RPC loop, ten tools | HTTP API | one answer per request, none per notification; absence is not confused with failure |
| Upgrade (`bkb-store/src/upgrade.rs`), enrichment, metrics, web pages, configuration | | | | not modelled, see section 6 |

How they interact: the server registers one job per source and spawns the
queue, one tokio task that runs one job at a time: check the sync_state row,
fetch a page, commit documents, references and the new cursor in one
transaction, push the job back. The HTTP API runs beside it in the same
process and shares the database connection (a mutex, held for one store call)
and the map of re-enrichment jobs. A one-shot command line run is a second
process on the same file. The MCP server is a third, and knows the API only.

What is hard in it: the queue, admin requests, background re-enrichments,
queries made of several store calls and the second process interleave at every
await; resets rewind what others hold in memory; a crash may come between any
two transactions; remote listings change while they are paged through; clones
are evicted between two pages of one walk; quotas and clocks belong to others.
PROJECT.json lists each hazard at its line with the properties that cover it.

## 2. Modules

| Module | Models | State and actions |
|---|---|---|
| `CheckpointedFeed` | what ingestion promises of durable state | per source: stored documents, resume cursor. A page commit continues from a covered position and changes both together; a reset forgets a type and the cursors of its sources. A commit from an obsolete cursor is allowed and marks the source `torn` until the next reset |
| `SyncQueue` | queue.rs, the reset of api.rs and sqlite.rs, `run_single_source`, crash and restart | one action per await-to-await stretch: `AddJob`, `Wake`, `StartJob` (check of sync_state), `FetchOk`, `GiveUp` (deferral, failed fetch, failed commit), `StoreOk`; `Reset`, `ResetFails` (a statement fails half way and leaves its transaction open on the shared connection, which then refuses every other one until a restart); `CliStart`, `CliFetch`, `CliStore`, `CliExit`; `Crash`; `Publish` by the outside world |
| `Pacing` | rate_limiter.rs, Forgejo's pause and `Retry-After`, and the times `execute_job` sets | the host's clock and GitHub's, which leads it or lags behind it (`lead`), GitHub's own window, the limiter's view of it; `DeferGitHub`, `HeardGitHub`, `LostGitHub` (request counted, response lost), `Refuse`, `OtherProcess`, `DeferForgejo`, `SendForgejo` |
| `Polling` | `PollCursor` and the seven feeds that use it | the forge's items with versions, the cursor, what is stored; one action per kind of request: a listing page, a pull request's details, a page of its reviews, a review's comments; items are created, edited and deleted meanwhile |
| `GitWalk` | repo_cache.rs and commits.rs | remote tips, clones, the access log (which clone was used before which), cursor with pinned head and baseline; `Begin` (size check), clone or fetch with eviction, `Walk` with the commit of its page; `Push` (also a force push), `Reset`, `Crash` (also in the middle of a clone) |
| `Archives` | irc.rs, mail_archive.rs, bitcointalk.rs | places of an archive that fill and grow; `FetchLog`, `FetchMessages`, `FetchTopic` (also of a topic that a 404 on a later page cuts short), `MissTopic` (a 404, or a page that shows no board), `FetchRecent` |
| `Listings` | specs.rs, optech.rs, delving.rs, mailing_list.rs | a list, numbered pages or months that change; `Discover`, `FetchBips` and the other fetches; `Appear`, `Edit`, `Remove`, `Restart`. Items of every feed may be removed; those behind them move up, and one may slip under the number of the next page (`Slipping`). Where an item stands follows from when it was last active (`Before`, `Rank`), and a page is a range of ranks |
| `Reconcile` | reconcile.rs: links and aliases, and the transactions that maintain them | one record `db` of three tables (bodies, links, aliases), transformed by operators named as the functions are (`RecordLink`, `Bind`, `Observe`, `InvalidateExact`); actions are the steps of a page's transaction: `CommitPage` or `Revisit`, `ObserveNext`, `AllObserved`, `ReadLinks`, `BindNext`, `ReadChildren`, `ObserveChild`, `Settled`, `Commit`; and `Reset` with its cascades |
| `Search` | `search`, `get_references`, `timeline`, `find_commit` | documents with aliases and dates, and rows of references, each to an id, a name (an issue's number or a URL) or both; a page resolves the rows it writes and repairs those that name what it brings (`Row`, `Repaired`), a query groups them by what they hold and combines them by what they mean (`Group`, `Combined`). Each query is a step, `find_commit` is one step per store call; pages, joins, partings and resets come in between |
| `Reenrich` | `admin_reset_source_type`, `admin_reenrich_source_type`, the background task, `replace_enrichment`, page commits of the same documents | a document has a body, the edges derived from it and those that its adapter sent with it (`own`); a call is an admin request with the task it spawns; phases follow the handler's awaits |
| `Remote` | bkb-mcp: the loop, the tools, `RemoteApiStore`; the API's routes and parsers at the other end | a question passes through `Asked` (the tool), `Url` (the client), `Received` (the handler); `ReadLine`, `Handle`, `DatabaseAnswers`, `ProxyAnswers`, `ConnectionFails`, `Respond` |
| `Queue_proofs`, `Ingest_proofs` | | theorems about `SyncQueue` and `Pacing`, and about `Reenrich` and `Listings` |
| `Polling_proofs`, `GitWalk_proofs`, `Archives_proofs`, `Reconcile_proofs`, `Search_proofs`, `Remote_proofs` | | theorems about the module of that name |
| `MC...` | | instances for TLC: the small constants that a .cfg cannot write |

`Pacing` and `Listings` prefix what every module has (`PacingInit`,
`ListingsTypeOK`, `listingsVars`), so that one proof module can extend two.

How they compose. `SyncQueue` sees an adapter through the `SyncSource` trait;
it shows that a fetch and the commit of its page are atomic towards everything
but a reset. `Polling`, `GitWalk`, `Archives` and `Listings` use that: in them
a fetch is one step with the commit of its page (in `GitWalk`, clone and walk
are separate, since a crash in between leaves a clone), a fetch that fails as a
whole is no step, and each states what its cursor really promises.
`Pacing` refines the times that `SyncQueue` abstracts to "due" and "asleep".
`Reconcile` shows that a group is one star; `Search` starts from that (its
`TypeOK` restates it of its own steps) and joins and parts pairs of copies.
`Remote` asks the questions that `Search` answers.

Abstractions. A document is its place in its source's feed (SyncQueue,
Archives), a version number (Reenrich, Polling, Listings), a commit of a small
graph (GitWalk) or an id with a current text (Reconcile, where the text stands
for title and body and `SameData` for the author, creation time, number and
diff context that `fingerprint` compares as well; Search, where it is whether a
query finds the document). A cursor is what the adapter serialises, field by
field, without its text. Time is a small clock in Pacing and Polling, and
elsewhere the distinction between a job that is due and one that is not. FTS5
is an order of documents and a set of matches; libgit2's walk an order in which
ancestors come last. In Remote a text is a model value, and the encodings are
the function of values that they compute: `Plussed` (a space becomes a plus
sign, which a path does not decode back), `Unslashed` (the handler drops a slash that
an id begins with), `FormDecoded`, `Parsed`, `U32`, and `RepoRead`, `Hashed`,
`Amped` and `Adds` for what a repository's name becomes when it is written into a
query as it is.

History variables (`torn`, `stale`, `cliStale`, `hit`, `raced`, `overtaken`,
`reenriched`, `slipped`, `regained`, `lost`, `boardless`, `cut`, `behind`,
`skipped`, `known`, `moved`, `refused`, `deferredFor`, `quietUntil`, `paced`,
`proxied`) are read by no guard; they say
exactly when a promise is no longer owed. `MaxLosses` and `MaxSkips` bound how
often an error is skipped.

In Reconcile the store's lock is held from the first statement of a page to its
COMMIT, so others only see the state between pages (`phase = "idle"`), and the
properties about what is shown are stated there. The steps inside are actions
because the order in which links come back from a query and children are
visited is not determined. An error or a crash inside the transaction is a
rollback, that is, the page not taken. A page comes from one repository and
holds threads or what is in them, as the adapters' pages do.

Values that stand for a choice the code leaves open. `patience` (Reenrich, a
variable fixed at the start) is a habit of an administrator: the code imposes
none, and properties that need one name it. `Leads` (Pacing) is how far GitHub's
clock may be ahead of the host's, or, when negative, behind it. `follows` (GitWalk) is whether a fetch moves the bare clone's own branch,
which libgit2 and the clone's refspec decide. `MaxUnheard` (Pacing) is how many
requests of one window are spent without the limiter hearing of them;
`MarginAssumption` says that the safety margin covers them, which is what the
margin is for.

`Search.cfg` has a VIEW. A query writes nothing but its answer, and pages, joins,
partings and resets do not look at queries, so every state of the database is
also reached while no query is under way, and there `View` keeps all of it. Of a
state in which an answer is given, or a `find_commit` is under way, it keeps what
the answer's properties and the rest of the query read.

Operators whose comment starts with "Slip" are plausible mistakes in the
operator below them. PROJECT.json names, for every checked property, the slip
that breaks it.

## 3. Runs

| Run | Bounds | Checks | Shows |
|---|---|---|---|
| `queue_safety` | 2 sources sharing a type, one with two types, 4 documents, pages of 2, 2 resets, 1 crash, command line on one source, failing row reads, a reset may fail half way | `NoGaps`, `DurableSpec` | the cursor is never ahead of the documents except after a page older than a reset was stored, with the table of patterns as the API has it; refinement of CheckpointedFeed |
| `queue_live` | as above, one source restless, rows readable, no second process, resets at any moment | `TornOnlyInFlight`, `EveryDueJobRuns`, `EventuallyStored` | a gap behind a cursor is always the work of a job that had passed its check when a reset came; no starvation if fetches end, convergence if sources recover |
| `reenrich` | 2 documents, one with edges of its adapter, 2 versions, 2 requests, 1 crash, an administrator of each patience | `EdgesFollowBody`, `NoPhantomJob`, `ResetRefused`, `ConflictLifts` | derived edges are stale only after a commit between a read and its write, the adapter's own stay until a re-enrichment deletes them; a 409 is never without a running job nor permanent; whoever waits for finished jobs to leave the map never resets under a running one |
| `reconcile` | two worlds: an imported issue, a competing mirror of it and mirrored comments both ways (7 documents), edits, every reset, pages of 1; an imported pull request with 2 comments on each side, edits, pages of 2 | `GroupsAreStars`, `OneThreadPerHost`, `NoneLeftUnbound`, `DuplicateInvalidates`, `CopiesShareThread`, `CurrentMatchesOneToOne` | in whatever order evidence arrives, groups are whole and hold one thread per host; late parents and originals are bound; an ambiguous match is withdrawn, a match stays in its thread, and matches that still hold are one to one |
| `pacing` | 2 GitHub jobs, another process on the same token, 1 lost response per window, the API's clock 1 behind, equal and 1 ahead, windows of 3, quota 3 (5 assumed at the start), margin 2 but at most half of the limit; 2 Forgejo jobs of one host; clock up to 6 | `RefusedOnlyAhead`, `DeferralSuffices`, `HostIsPaced`, `WaitsBounded` | a request is refused only if the host's clock is ahead, and only when the window has ended by that clock; one deferral reaches the next window, a host's silence binds all its feeds, no wait is longer than the longest the code knows |
| `polling` | each of 7 feeds; 3 items of which 2 are pull requests, 2 edits, creations or deletions, pages of 2 and of 1 review, clock up to 4, sweeps after 2, the forge's clock 1 behind | `TypeOK`, `NothingElseMissed`, `EventuallyMirrored`, `WindowsEnd` | what a finished window misses has slipped under the page numbers or is seen by the next window; a sweep repairs the rest; every window ends |
| `gitwalk` | 2 repositories in a cache for one, 6 commits with a merge and a rewritten branch, 2 pushes, 1 incident, pages of 1 | `CompleteMeansAll`, `OthersFit`, `WalksEnd` | a complete walk has indexed all its head reaches; eviction leaves what fits; a walk ends even when its clone is evicted between pages |
| `archives` | 3 feeds, 5 places, 2 changes of each, 1 skipped message, topics without a board and cut by a 404 at any time, pages of 3, runs of 2 misses | `ReadsWhatItPasses`, `TailAfterGap`, `MessagesAreRead` | what a cursor has passed is stored but for topics that were cut or showed no board; the tail mode begins only after a full run of misses; messages are read but for the named exceptions |
| `listings` | 8 feeds, 4 items, pages of 2, 3 months, 1 edit, 2 items gone, 1 skip, 1 restart | `PassesReadAll`, `PanicsNeedTwoGone`, `EventuallyStored` | a finished pass has read what was there when it began and has not slipped under its page number; the slice of a shorter list panics only when two files have gone; what stays within a feed's reach is stored in the end |
| `search` | 5 documents on two hosts of one project and another, one pair of copies, one merged pull request, two comments that have had one URL, references by id, issue number, URL and an unknown name, all combinations of filters, limit 1 and none (then 2) | `AnswerIsComplete`, `CopiesCountOnce`, `EveryHitIsAnswered`, `MergesComeFirst` | answers speak of conversations, each once and none left out; references to any copy, by id or name, are the same ones, however their rows were resolved; a commit lookup interrupted by writes and resets answers every hit that is there |
| `remote` | 2 lines, every tool with every argument present or missing, texts with a space, with a leading slash and empty, repositories whose names hold `+`, `#` and `&`, numbers beyond `u32` (here 2 bits), a proxy that answers for the API, lines that are not UTF-8 | `AnswersInOrder`, `SameQuestion`, `AbsentMeansAbsent`, `EveryLineIsAnswered` | one response per request in order; the database is asked what the agent asked but for the exceptions stated; absence is reported only when the database, or a proxy's 404, said so |
| `remote_dates` | as `remote` | `DatesReach`, violated | section 5 |

Four invariants are conjunctions whose parts have names and comments of their
own in the module: `ReadsWhatItPasses` (`TypeOK`, `PassedIsStored`,
`CursorAtMessage`, `OnlyWholeLogs`), `PassesReadAll` (`TypeOK`, `PassReadsAll`,
`MonthIsRead`), `CopiesCountOnce` (`TypeOK`, `RowsFollow`,
`ReferencesAreCombined`, `EventsAreConversations`) and Polling's `TypeOK` (`CursorOK` among them);
`AnswerIsComplete` contains `KeepsToItsHost`. Invariants that are proved and
that others are derived from (`SyncQueue!CursorsCovered` and `OneHome`,
`Pacing!QuotaKnown`, `Reenrich!OneTask`, the type invariants of `SyncQueue`,
`Pacing`, `Reenrich`, `Reconcile` and `GitWalk`) are not checked again by a run.

Why the bounds are enough. Two sources are needed to share a type and to
compete for the queue; a page of 2 in a feed of 3 has a full, a partial and an
empty page; a second reset is needed to hit what the first one made obsolete;
one crash at any point meets every combination of lost memory and kept
database, and after it the queue is in a state of its first start. Two
requests and two documents give every pair of overlapping tasks, with one
document read and another listed. An exact match becomes ambiguous with two
comments on one side, and both sides are counted, hence two and two; a page of
two is what makes "observe all, then settle" differ from one document at a
time, while mirror evidence, which looks at one document, needs pages of one
only. A second mirror of one issue is the smallest conflict in `bind`, a
comment mirrored each way the smallest thread that arrives after what it
contains. Two windows and the gap between them fit into Pacing's clock,
and a lead of one either way tells the two ends of a window apart. Polling's
clock holds two windows, a sweep and the edits between them; with three items
and pages of two a listing has a second page that an edit can pull an item
out of, and one review more than a page holds is what makes the child cursor
move. GitWalk's merge brings commits under a head that sort below those already
read; a cache of one and two repositories make every page of one job evict the
other's clone. Five places hold a page, a run of misses and a message behind
it. In Listings two items gone are a page boundary that moves twice, and the two
files that a slice needs to panic. Search's five documents are a pair of copies, the commit
one of them merged, and two comments that have had the same URL, so that it
means one of them, or neither. Two
lines show order and a call that waits behind another.

`NoneLeftUnbound` is checked without an exact match beside the mirror evidence
for the same comment: an invalidation may dissolve such a group and leave the
mirror's link recorded but unbound until one of its ends is visited again. The
action `Withdraws` says which steps do that; no step of the run is one.

Deadlock is checked except where the system may stop: when Pacing's and the
archives' bounds are used up, when a slice panicked and no restart is left
(Listings), and when the agent has sent all its lines (Remote).

Fairness. The queue is one task that does one thing at a time; its steps but the
fetch, the registration of jobs and the passing of a deadline are weakly fair
(`Scheduled`), since nothing in them waits for anything but the database. That a
fetch ends (`FetchesEnd`) is an assumption: `fetch_page` is awaited without a
timeout (`queue.rs:169`), and the clients of several adapters set none
(`github.rs:152`, `optech.rs:25`, `repo_cache.rs:68`). One fetch that hangs starves
every job, and `EveryDueJobRuns` says nothing then. A fetch and a commit that are tried again and again
succeed at some point (strong fairness, `SourcesRecover`): an assumption on the remote source and
the disk, without which nothing can be promised; nor is anything promised while
a reset that failed half way holds the connection. The adapters' models take over
what `SyncQueue` shows (`EveryDueJobRuns`): `Polling` has weak fairness of the
clock and of a fetch that moves the cursor, `GitWalk` weak fairness of a
running call and strong fairness of its start and of a remote's answer,
`Archives` and `Listings` weak fairness of a fetch and of the poll interval and
strong fairness of a page without an error. A spawned re-enrichment task is
scheduled until it ends (weak fairness). In `Remote` the loop, the handler, the
database and the response are weakly fair; the HTTP client sets no timeout, so
that a request ends is an assumption. Nothing is assumed of administrators,
crashes, the command line, pushes, edits, agents or of what gets published.

## 4. Proofs

Checked by TLAPS for every value of the constants, from the named assumptions
of the modules: typing of the constants; finiteness of the sets of documents,
items, commits and repositories; `GraphAssumption` (an ancestor's ancestors are
one's own, and a commit is numbered after its ancestors); `ForgesAssumption` (a
document and its parent are on one forge, an envelope names documents of the
other); `FormsAssumption` (the issue-form name of a pull request is not an issue,
since a number is one or the other); `MarginAssumption` (what is spent unheard fits
into the margin); `TimesAssumption` (GitHub's clock is ahead of the host's by at
most `MaxLead`; it may be behind by anything); `TextsAssumption`, `NamesAssumption` and `NumbersAssumption` of Remote
(what an encoding makes of a text, a name or a number is one of its kind);
`ClocksAssumption` (the forge's clock is behind by no more than the overlap of
two windows); `NoneAssumption`, `RowsAssumption` and their like (the value for
"nothing" is none of the others).

* `Queue_proofs!TypeCorrect`. Positions matter: no cursor is beyond what is
  published, and a waiting page continues from its owner's cursor.
* `Queue_proofs!NeverAhead` (`NoGaps`). Not inductive by itself: a commit
  extends what the cursor in memory covers, so the invariant needs the same
  fact of every cursor in memory, of the queue and of the command line, unless a
  reset has made it obsolete (`CursorsCovered`). `IInv` is `TypeOK` and that.
* `Queue_proofs!ImplementsCheckpointedFeed` (`DurableSpec`). Initial states
  are equal; `StoreOk` and `CliStore` map to a commit (obsolete when the cursor
  was), `Reset` to a reset, every other step to a stutter. `CursorsCovered`
  supplies the covered position the abstract commit asks for.
* `Queue_proofs!NoJobLost` (`OneHome`): a job is in the queue or running,
  never both or neither. `OnlyHitJobsTear` (`TornOnlyInFlight`), under `Orderly`
  (a row can be read, no second process), with resets at any moment: a commit
  that leaves a gap is of a job that had passed its check when a reset of its
  row came. The check of the row at the start of a job is enough for the others,
  since a cursor that a reset made obsolete has lost its row
  (`ObsoleteIsHit`, `OnlyStaleCommitsTear`). That the table of patterns reaches
  every source that writes a type is `TableIsComplete` and `ResetReachesProducers`.
  That no reset leaves a gap is false (section 5).
* `Ingest_proofs!TypeCorrect`, `EdgesTrackBodies` (strengthened by
  `ReadsCurrent`: what a task has read is still the body unless it was raced; the
  edges that the adapter sent are those of the body, or gone with a
  re-enrichment),
  `NoPhantom` (the counters add up while a task runs), `CalmResetRefused`
  (`ResetRefused`) and `CalmOneTask`, for an administrator who waits for the
  entry to leave; the inductive invariant is `Orderly`: the map holds the one
  call whose task is alive.
* `Reconcile_proofs!TypeCorrect`, `StarsHold` (`GroupsAreStars`), `HostsApart`
  (`OneThreadPerHost`), `ShownOnForgejo`. The invariant is `Good(db)`: rows have
  their types, links their keys, groups are stars with one thread per host and a
  Forgejo canonical thread, together with `InTransaction`, which types what the
  loops hold. Each function of reconcile.rs takes good tables to good tables
  (`BindGood`, `RecordLinkGood`, `MirrorLinksGood`, `InvalidateGood`,
  `ExactLinksGood`, `ObserveGood`, `WriteGood`, `ResetGood`). The heart is that
  a star is joined, dissolved or cut by a reset only as a whole: the rows of a
  group are equal, so a condition on a row holds of all of its members or of
  none (`CullGroups`). `OneThreadPerHost` needs the star because `Conflict`
  looks at the members of two groups and says nothing of a row that names a
  canonical outside them.
* `Reconcile_proofs!LateEvidenceIsBound` (`NoneLeftUnbound`) has the premise
  `[][~Withdraws]_vars`: no step takes away the row of a document that keeps a
  link to another stored one. Without it the property is false
  (`ReconcileMixed.cfg` has such a step: an invalidation dissolves a group that
  mirror evidence supports too). The invariant is `WaitingOK`: a recorded link
  that could be bound is one of the page under way, and its settling is still to
  come (`Unsettled`). Each function leaves nothing new to be bound (`NoneNew`:
  `BindLeavesNone`, `RecordLinkLeavesNone`, `MirrorLinksLeavesNone`,
  `InvalidateLeavesNone`, `ObserveLeavesNone`, `ResetLeavesNone`), because a
  larger group only adds reasons against a bind (`GrowingGroups`): a link that
  cannot be bound becomes bindable only when an end of it is written, and then
  it is read, or leaves a group, and that is what the premise excludes.
* `Reconcile_proofs!MatchesStayOneToOne` (`CurrentMatchesOneToOne`) and
  `CopiesStayInThread` (`CopiesShareThread`) have premises too. `PartsThreads` is
  a step in which a thread that holds documents loses its row: comments matched
  under it then stay joined across two threads, and the copy can be matched again
  in the other one. `MatchesAreBound` says that `bind` has refused no exact match:
  a refused one has a link and no row, and invalidation, which finds links through
  rows, misses it. `MirrorMeetsMatch` is a comment with both kinds of evidence:
  the rows of its group then say "exact" of a pair that mirror evidence joined.
  TLC finds each property violated when its premises are dropped.
  Both rest on the lemma that nobody leaves a conversation (`SameThreadStays`):
  groups merge or lose all their rows but are not torn apart (`Evenly`,
  `NextIsEven`), and `FormsAssumption` keeps the name of a parent that arrives.
  For one to one the invariant is `MatchesOK` (a recorded match is of documents
  that were compared, in one conversation) and `ClashesAwait`: a page that is
  written may make two matches clash, and one of their documents is in the page
  and not yet observed. A match is recorded between the only candidates of each
  other, so it never clashes (`NewMatchIsAlone`), and observing a document of a
  clash takes one of its links away (`ObserveEndsClash`).
  For the threads it is `Settles` and `Sharing`: a comment's row rests on a match
  or mirror evidence is about it (`RowsRest`), no match of comments waits to be
  bound (`CommentsBound`, as nothing speaks against two comments,
  `CommentsBind`), and documents of one exact row are in one conversation. The
  rows that `bind` writes then join only documents of which that is known
  (`MatchSettles`), or are no exact ones (`BindSettles`).
* `Reconcile_proofs!AmbiguousMatchesGo`: observing a document leaves no exact
  match between it and a candidate if one of them has another candidate. This is
  the part of `DuplicateInvalidates` that needs no premise.
* `Queue_proofs!QuotaIsKept` (`RefusedOnlyAhead`) rests on `QuotaKnown`: in the
  window the limiter knows, what it believes to be left differs from what is
  left by what was spent unheard; in one it has not heard of, everything spent
  was spent unheard. A request leaves only above the margin, where the unheard
  ones leave room (`GrantedIsWithinQuota`), or after the known window's end by the
  host's clock; if that is not its end by GitHub's, the host is ahead
  (`RefusalIsLate`).
  `OneDeferralPerWindow` (`DeferralSuffices`): a deferred job waits beyond the
  window it was deferred for. `SilenceBindsAllFeeds` (`HostIsPaced`): the
  host's next request time is never before the end of the silence.
  `NoJobForgotten` (`WaitsBounded`): every wait that is set is bounded, and
  time only shortens it.
* `GitWalk_proofs!CompleteIsComplete` (`CompleteMeansAll`), from `Inductive`. A
  walk reads the commits of its head that its baseline does not cover, by rank
  in an order in which ancestors come last; `WalksSound` says that those of a
  rank up to the offset are indexed, and that the baseline's are. Ranks are
  injective, so a page has at most `PageSize` commits and a shorter one is the
  last. The pinned head makes the list the same for every page, whatever is
  pushed or evicted in between.
* `GitWalk_proofs!TypeCorrect` and `OthersAreKeptInBounds` (`OthersFit`). The
  access log is a strict order of exactly the clones on disk (`TouchOrder`,
  `OrderRestrict`, `EvictDisk`), so every clone can be evicted. Of the clones
  that stay although they could be removed, the one with the fewest before it
  has only evicted ones before it, and it stays because those free enough
  (`EvictedSuffices`); sizes add up because they count pairs of a clone and a
  commit (`SizeOfParts`).
* `Polling_proofs!Invariance`, `TypeCorrect` (`TypeOK`) and `FindsTheRest`
  (`NothingElseMissed`). An item is owed to a window when its present state is
  not stored, it was edited before the window's overlap and it has not slipped.
  `WindowSound` says where such an item is while the window lasts: on a listing
  page the cursor has not reached, or among the pull requests that wait for a
  visit; and if the one being visited is owed, the reviews passed so far are in
  the database, or noted for the request that reads their comments
  (`HeadRead`). An edit moves an item out of the window's pages only into
  `slipped`, or makes it too new to be owed, because the lag of the forge's
  clock is within the overlap. A window that is complete has neither unread
  pages nor waiting visits, hence owes nothing.
* `Ingest_proofs!ListingsInvariance`, `PassesAreComplete` (`PassesReadAll`) and
  `OneGoneIsHarmless` (`PanicsNeedTwoGone`). What a pass knew of at its start
  and has not stored, skipped, seen removed or seen move or slip is ahead of its cursor (`PassSound`,
  `MonthSound`); a page that is not full has nothing behind it, so the pass, or
  the month, that ends has nothing left. A removal takes one rank from everything behind it, so
  at most one item slips under the next page's number (`OneSlips`, `RemoveSound`).
  In `ListSound` every file that has gone
  accounts for one entry by which the list in memory, or the offset saved from
  it, is too long, and a slice needs two such entries to be out of range.
* `Archives_proofs!PassedIsRead` (`ReadsWhatItPasses`) with `NoDayTooSoon` (the
  log of a day that is not over has not been read), and `TailBeginsAtGap`
  (`TailAfterGap`) whose invariant says of each topic that the
  running count of misses stands for that it was missing, or showed no board,
  when it was asked for (`Missed`, `MissTopicIInv`). A topic that is stored and passed
  is stored whole or was cut by a 404 (`TopicsStored`).
* `Search_proofs`: `SearchIsRight` (`AnswerIsComplete`), `CountsAreRight`
  (`CopiesCountOnce`), `FindIsRight` (`EveryHitIsAnswered`) and
  `MergesAreListedFirst` (`MergesComeFirst`). Sorting by a strict order is a
  permutation (`SortedIsInOrder`: the numbers of predecessors are distinct and
  fill an interval), and a page of it leaves out only what comes later
  (`PageOfSorted`). The best rows stand one to one for the conversations wanted
  (`BestAreWanted`), because a canonical document is its own whatever is joined,
  parted or deleted (`TypeStep`). For references the invariant is `RowsFollow`: a
  resolved row means what its name means unless the match it was resolved through
  was withdrawn, an open one names nothing stored unless it is a URL that two
  comments have had (`WriteKeepsRows`, `RowsStep`). Then grouping by what rows hold
  and by what they mean is the same (`RowsMean`, `GroupsOfPage`,
  `ReferencesAnswer`). `FindingOK` is the loop invariant of
  `find_commit`: every hit it is past has an answer or was removed, different
  answers are to different hits, and a hit is canonical until a pair is joined.
* `Remote_proofs!AskedTheSame` (`SameQuestion`), `AbsenceIsTold`
  (`AbsentMeansAbsent`) and `InOrder` (`AnswersInOrder`). The invariant ties the stages of a call together: lines
  have their types, a call under way is one that was not refused (`CallOK`), the
  URL is the one made of it and what the database was asked is what was received
  (`PathOK`), an answer belongs to it (`OutOK`). The equality of the three
  translations is then `SearchIsSame` (names that are read as written:
  `LegibleIsRead`; numbers that fit: `Fits`) and `OthersAreSame`. For absence,
  `AskedForThatThing`: unless a proxy answered or the path was empty, the database
  was asked for the id or number that the agent wrote. For the order, the answers written,
  with the one a call under way will give, are as many as the lines read that
  want one, and the answer to a line stands at the line's rank among them.

Only model-checked:

* Liveness: `EveryDueJobRuns`, `EventuallyStored`, `ConflictLifts`,
  `EventuallyMirrored`, `WindowsEnd`, `WalksEnd`, `MessagesAreRead` and
  `EveryLineIsAnswered`. Liveness under fairness and ENABLED are out of the
  prover's reach.
* `DuplicateInvalidates` of Reconcile, which holds in the two worlds of
  `reconcile`. It is not an invariant of every instance: it fails in
  `ReconcileReset.cfg` and `ReconcileMixed.cfg` (section 5), and premises against
  resets, refused matches and mixed evidence are not enough. A document that was
  not observed again may have gained a candidate, and that the observed one finds
  the match of the other needs agreement to be transitive, which `fingerprint`
  does not make it: a review comment without a path, a hunk or a commit agrees
  with comments that differ in them (`reconcile.rs`, `fingerprint`). What observing
  a document does is proved (`AmbiguousMatchesGo`).

## 5. Where the code and its descriptions differ

`remote_dates` is a run of its own: the remote store writes a date as RFC 3339
with its `+00:00` unencoded (`remote_store.rs:46`); form decoding turns the plus
sign into a space, the date no longer parses and the filter is dropped without an
error. A timeline drops plain dates, because the API parses RFC 3339 only.

The following were met while modelling. Each has a configuration beside the
runs; TLC finds the named property violated.

| Configuration (module) | Property | What happens |
|---|---|---|
| `SyncQueueReset.cfg` (`MCSyncQueue`) | `ResetLeavesNoGap` | `execute_job` tests for a deleted sync_state row before it fetches; a reset between the fetch and the commit is undone by the commit's cursor, and the deleted documents are not fetched again (`queue.rs:140`) |
| `ReenrichHurry.cfg` (`MCReenrich`) | `AnsweredResetRefused` | the delayed clean-up removes the entry of whichever job is registered (`api.rs:547`), so a reset passes a running re-enrichment although each request waited for the answer to the one before |
| `ReenrichRace.cfg` (`MCReenrich`) | `AnyResetRefused` | test and effect of the two admin requests are separate (`api.rs:402`, `api.rs:473-514`) |
| `ReconcileEdited.cfg` (`MCReconcile`) | `ExactOneToOne` | candidates are counted by current bodies while recorded links outlive the bodies they came from, so after an edit a second document is matched with the same copy (`reconcile.rs:277`) |
| `ReconcileReset.cfg` (`MCReconcile`) | `DuplicateInvalidates` | a reset removes the aliases of a match and keeps the link of the surviving copy; invalidation finds links through aliases, so a link that has become ambiguous is bound again (`reconcile.rs:302`) |
| `ReconcileMixed.cfg` (`MCReconcile`) | `DuplicateInvalidates` | `bind` writes the newest evidence into the rows of the whole group and invalidation deletes rows by evidence, so an exact match that mirror evidence joined later is no longer dissolved (`reconcile.rs:304`) |
| `ListingsFresh.cfg` (`MCListings`) | `AlwaysFresh` | the forum's cursor stays behind the last full page and its listing puts new activity at the head, which is not read again: later topics and answers are not stored |
| `SearchWindow.cfg` (`MCSearch`) | `EventsAreInWindow` | a timeline filters by a copy's own date and shows the origin's, so an event may carry a date before `after` |

Stated as exceptions of the properties that meet them:

* A re-enrichment deletes all edges of a document and writes those of its text
  (`sqlite.rs:274`), where `docs/FORGEJO.md:203` speaks of derived edges. The ones
  its adapter sent, such as a forum post's reply to another post
  (`delving.rs:198`), are gone until the document is fetched again
  (`EdgesFollowBody`).
* A topic of bitcointalk that exists and shows no board counts as missing
  (`bitcointalk.rs:131`), so a run of such topics ends the walk; a 404 on a later page
  stores a topic without its end (`bitcointalk.rs:163`). Both are passed for good
  (`ReadsWhatItPasses`, `TailAfterGap`).
* A topic or newsletter that is removed while its listing is read lets another one
  slip under the number of the next page (`delving.rs:227`, `optech.rs:125`), and only
  the last page of newsletters is read again, so an edit of an older one is not
  seen (`PassesReadAll`, `EventuallyStored`).
* References are limited before they are combined (`sqlite.rs:937`): with an open
  and a resolved row of one target a page is short of references that exist. A row
  that was resolved through a match keeps that id when the match is withdrawn, and
  `external_id` returns a comment's own id where everything else speaks of its
  conversation (`reconcile.rs:427`; `ReferencesAreCombined`).
* `source_repo` is written into the query as it is (`remote_store.rs:39`): a name
  with `&`, `#`, `+` or `%` becomes another filter, another parameter or the end of
  the URL. A leading slash of an id is dropped (`api.rs:184`), a space in a path
  stays a plus sign, and numbers beyond 32 bits are cut (`SameQuestion`).
* A 404 of anything in front of the API is told as absence (`remote_store.rs:77`;
  `AbsentMeansAbsent`), and a line that is not UTF-8 ends the MCP server's loop
  (`tools.rs:19`; `EveryLineIsAnswered`).
* A host whose clock is ahead refills its quota before GitHub does
  (`rate_limiter.rs:44`) and is refused in the time between
  (`RefusedOnlyAhead`).

Visible in the models, without a property of their own: a broken clone fails
for ever, since `result?` (`repo_cache.rs:156`) returns before the deletion that
the comment above it announces; the repository size limit is checked once per
process; a walk whose pinned head was rewritten away and whose clone was evicted
fails for ever (both are exceptions of `WalksEnd`); the mailing list's current month
is its own next cursor, so its job is due again at once; the list of BIPs is
sliced at a saved offset without a test (`PanicsNeedTwoGone`).

## 6. Not modelled

* Schema and upgrade: one transaction at start-up, before anything else runs.
  What it says of keys and cascades is used in Reconcile, Search and SyncQueue.
* Enrichment: pure text extraction by regular expressions. Reenrich, SyncQueue
  and Search use that its output is a function of the document.
* Metrics, web pages, OpenAPI and configuration: read-only or static.
* Of the store: the change log and statistics.
* Of reconciliation: the backfill's cursor, and of the refs that it repairs those
  to an issue whose number turns out to be a pull request's
  (`reconcile.rs:326-336`); URLs and pending references are repaired in Search.
* Of the queries: one-statement lookups by number, snippets and ranking beyond
  an order of scores. Of the adapters: parsing of HTML, XML, JSON and text.
* Liveness of queries and of `find_commit`: they are loops over a finite list.

## 7. Plan

Done: the queue and its abstract specification, with resets that fail;
re-enrichment; reconciliation; pacing; the adapters; queries; the MCP server;
proofs of every safety property of a run but `DuplicateInvalidates`. Left:

1. Issue references that turn into references to pull requests (Search), and a
   rebuild of the groups from the links alone (`docs/FORGEJO.md:214`) to compare
   with the incremental result.
