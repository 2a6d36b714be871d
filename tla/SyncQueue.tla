------------------------------ MODULE SyncQueue ------------------------------
(***************************************************************************)
(* The ingestion scheduler (bkb-ingest/src/queue.rs) with the three actors *)
(* that share its durable state: the single queue task of the server, the  *)
(* admin reset of the HTTP API, and the one-shot `--ingest-source` process *)
(* of the command line, which runs on the same database file.              *)
(*                                                                         *)
(* A source adapter is seen through the SyncSource trait only: it serves   *)
(* an append-only sequence of documents page by page and a cursor is a     *)
(* position in it.  Time is abstract: a job is asleep until its next_run   *)
(* arrives and then stands in `ready`, in the order in which the arrivals  *)
(* happened, which is the heap's order by next_run.                        *)
(*                                                                         *)
(* Each await point of the code where another actor can get in is a step   *)
(* boundary: after the sync_state check, after fetch_page, after the       *)
(* page's transaction.                                                     *)
(***************************************************************************)
EXTENDS Naturals, Sequences

CONSTANTS
  Sources,        \* source ids
  Kind,           \* Kind[s]: the source id of s without its owner, repository
                  \* and channel, which the LIKE patterns of a reset leave open
  Types,          \* document source types that may be reset
  Feed,           \* Feed[s][i]: the type of the i-th document of source s
  PageLimit,      \* most documents fetch_page returns in one page
  Checkpointing,  \* sources whose last page carries a checkpoint
  Restless,       \* sources that return a next_cursor on the last page too
  CliSources,     \* sources the command line may run beside the server
  RowReads,       \* outcomes of reading a sync_state row: TRUE, or an error
  MaxResets,      \* bound: admin resets in a behaviour
  MaxCrashes,     \* bound: server crashes in a behaviour
  NoCursor,       \* Option::None for a cursor
  NoPage,         \* no page is waiting to be stored
  Nobody          \* no source: the queue task, or the command line, is idle

\* What the adapter behind each source id writes as source_type.
DocumentTypes(k) ==
  CASE k = "specs:bips" -> {"bip"}
    [] k = "specs:bolts" -> {"bolt"}
    [] k = "specs:blips" -> {"blip"}
    [] k = "specs:luds" -> {"lud"}
    [] k = "specs:nuts" -> {"nut"}
    [] k = "github:issues" -> {"github_issue", "github_pr"}
    [] k = "github:comments" -> {"github_comment"}
    [] k = "github:reviews" -> {"github_review"}
    [] k = "github:review_comments" -> {"github_review_comment"}
    [] k = "forgejo:issues" -> {"forgejo_issue", "forgejo_pr"}
    [] k = "forgejo:comments" -> {"forgejo_comment"}
    [] k = "forgejo:reviews" -> {"forgejo_review", "forgejo_review_comment"}
    [] k = "commits" -> {"commit"}
    [] k = "irc" -> {"irc_log"}
    [] k = "delving" -> {"delving_topic", "delving_post"}
    [] k \in {"mailing_list", "mail_archive"} -> {"mailing_list_msg"}
    [] k = "optech" -> {"optech_newsletter"}
    [] k = "bitcointalk" -> {"bitcointalk_topic", "bitcointalk_post"}
    [] OTHER -> {}

ASSUME SourcesAssumption ==
  /\ Feed \in [Sources -> Seq(STRING)]
  /\ Checkpointing \subseteq Sources
  /\ Restless \subseteq Sources
  /\ CliSources \subseteq Sources
  /\ Nobody \notin Sources
  /\ RowReads \in {{TRUE}, BOOLEAN}

ASSUME FeedAssumption ==
  \A s \in Sources : \A i \in DOMAIN Feed[s] : Feed[s][i] \in DocumentTypes(Kind[s])

ASSUME BoundsAssumption ==
  /\ PageLimit \in Nat \ {0}
  /\ MaxResets \in Nat
  /\ MaxCrashes \in Nat
  /\ NoCursor \notin Nat

VARIABLES
  published,  \* how much of its feed each source has published so far
  stored,     \* the documents in the database, as <<source, index>>
  synced,     \* sync_state.last_cursor of each source
  toAdd,      \* jobs add_job has not been called for since the server started
  ready,      \* jobs whose next_run has arrived, earliest next_run first
  asleep,     \* jobs whose next_run is in the future
  running,    \* the job the queue task has popped
  cursor,     \* SyncJob.cursor of every job, in memory
  page,       \* the page fetch_page returned to the running job
  cli,        \* the command line process: its source, cursor and page
  torn,       \* history: a page that continues from a cursor older than the
              \* last reset of its source has been stored
  stale,      \* history: SyncJob.cursor is older than the last reset
  cliStale,   \* history: the command line's cursor is older than the last reset
  hit,        \* history: a reset of its source has come since the running
              \* job's check of sync_state
  open,       \* the type whose reset has failed half way, or none ({}): its
              \* transaction is still open on the server's connection
  resets,
  crashes

durable == <<stored, synced, torn>>
queue == <<toAdd, ready, asleep, running, cursor, page, stale, hit>>
vars == <<published, durable, queue, cli, cliStale, open, resets, crashes>>

Published(s) == 0..Len(Feed[s])
Cursors(s) == Published(s) \cup {NoCursor}

Position(c) == IF c = NoCursor THEN 0 ELSE c

Ready == {ready[i] : i \in DOMAIN ready}

Init ==
  /\ published = [s \in Sources |-> 0]
  /\ stored = {}
  /\ synced = [s \in Sources |-> NoCursor]
  /\ toAdd = Sources
  /\ ready = <<>>
  /\ asleep = {}
  /\ running = Nobody
  /\ cursor = [s \in Sources |-> NoCursor]
  /\ page = NoPage
  /\ cli = [source |-> Nobody, cursor |-> NoCursor, page |-> NoPage]
  /\ torn = [s \in Sources |-> FALSE]
  /\ stale = [s \in Sources |-> FALSE]
  /\ cliStale = FALSE
  /\ hit = FALSE
  /\ open = {}
  /\ resets = 0
  /\ crashes = 0

-----------------------------------------------------------------------------
(* The outside world and the SyncSource contract.                          *)

Publish(s) ==
  /\ published[s] < Len(Feed[s])
  /\ published' = [published EXCEPT ![s] = @ + 1]
  /\ UNCHANGED <<durable, queue, cli, cliStale, open, resets, crashes>>

FetchPage(s, c) ==
  LET from == Position(c)
      upto == IF from + PageLimit < published[s] THEN from + PageLimit ELSE published[s]
      more == upto < published[s] \/ s \in Restless
  IN  [from       |-> c,
       upto       |-> upto,
       next       |-> IF more THEN upto ELSE NoCursor,
       checkpoint |-> IF ~more /\ s \in Checkpointing THEN upto ELSE NoCursor]

-----------------------------------------------------------------------------
(* store_page: the documents and the cursor in one transaction.            *)

CursorAfter(p) ==
  IF p.next # NoCursor THEN p.next
  ELSE IF p.checkpoint # NoCursor THEN p.checkpoint
  ELSE p.from

\* Slip: the cursor is written, the documents are not.
StorePageCursorOnly(s, p, obsolete) ==
  /\ stored' = stored
  /\ synced' = [synced EXCEPT ![s] = CursorAfter(p)]
  /\ torn' = [torn EXCEPT ![s] = @ \/ obsolete]

StorePage(s, p, obsolete) ==
  /\ stored' = stored \cup {<<s, i>> : i \in Position(p.from)+1..p.upto}
  /\ synced' = [synced EXCEPT ![s] = CursorAfter(p)]
  /\ torn' = [torn EXCEPT ![s] = @ \/ obsolete]

-----------------------------------------------------------------------------
(* The queue task.                                                         *)

\* sync_patterns_for_source_type: the table as it is written.
PatternsFor(t) ==
  CASE t = "bip" -> {"specs:bips"}
    [] t = "bolt" -> {"specs:bolts"}
    [] t = "blip" -> {"specs:blips"}
    [] t = "lud" -> {"specs:luds"}
    [] t = "nut" -> {"specs:nuts"}
    [] t \in {"github_issue", "github_pr"} -> {"github:issues"}
    [] t = "github_comment" -> {"github:comments"}
    [] t = "github_review" -> {"github:reviews"}
    [] t = "github_review_comment" -> {"github:review_comments"}
    [] t \in {"forgejo_issue", "forgejo_pr"} -> {"forgejo:issues"}
    [] t = "forgejo_comment" -> {"forgejo:comments"}
    [] t \in {"forgejo_review", "forgejo_review_comment"} -> {"forgejo:reviews"}
    [] t \in {"github_discussion", "github_discussion_comment"} -> {"github:discussions"}
    [] t = "commit" -> {"commits"}
    [] t = "irc_log" -> {"irc"}
    [] t \in {"delving_topic", "delving_post"} -> {"delving"}
    [] t = "mailing_list_msg" -> {"mailing_list", "mail_archive"}
    [] t \in {"optech_newsletter", "optech_topic", "optech_blog"} -> {"optech"}
    [] t \in {"bitcointalk_topic", "bitcointalk_post"} -> {"bitcointalk"}
    [] OTHER -> {}

\* Slip: the table has no entry for pull requests.
SyncPatternsMissOne(t) == {s \in Sources : t # "github_pr" /\ Kind[s] \in PatternsFor(t)}

\* The rows of sync_state that a reset of type t deletes.
SyncPatterns(t) == {s \in Sources : Kind[s] \in PatternsFor(t)}

\* What the server's connection finds in sync_state: what is committed, or
\* what a reset that it has not ended has left of it.
Rows(s) == {synced[s]} \cup {NoCursor : t \in {u \in open : s \in SyncPatterns(u)}}

\* add_job: a job without a cursor resumes from sync_state; when the row
\* cannot be read it starts from scratch.  The queue task is spawned only
\* after every job has been added.
AddJob(s) ==
  /\ s \in toAdd
  /\ toAdd' = toAdd \ {s}
  /\ ready' = Append(ready, s)
  /\ \E readable \in RowReads, row \in Rows(s) :
       cursor' = [cursor EXCEPT ![s] = IF readable THEN row ELSE NoCursor]
  /\ stale' = [stale EXCEPT ![s] = FALSE]
  /\ UNCHANGED <<published, durable, asleep, running, page, hit, cli, cliStale, open, resets, crashes>>

\* next_run arrives.
Wake(s) ==
  /\ s \in asleep
  /\ asleep' = asleep \ {s}
  /\ ready' = Append(ready, s)
  /\ UNCHANGED <<published, durable, toAdd, running, cursor, page, stale, hit>>
  /\ UNCHANGED <<cli, cliStale, open, resets, crashes>>

\* Slip: no check of sync_state.
CheckedCursorKept(s, readable, row) == cursor[s]

\* run pops the earliest due job and execute_job looks for its sync_state: a
\* cursor whose row is gone is dropped, and kept when the row cannot be read.
CheckedCursor(s, readable, row) ==
  IF readable /\ row = NoCursor THEN NoCursor ELSE cursor[s]

StartJob(readable) ==
  /\ toAdd = {}
  /\ running = Nobody
  /\ ready # <<>>
  /\ LET s == Head(ready)
     IN  /\ running' = s
         /\ \E row \in Rows(s) :
              LET c == CheckedCursor(s, readable, row)
              IN  /\ cursor' = [cursor EXCEPT ![s] = c]
                  /\ stale' = [stale EXCEPT ![s] = @ /\ c # NoCursor]
         /\ hit' = FALSE
  /\ ready' = Tail(ready)
  /\ UNCHANGED <<published, durable, toAdd, asleep, page, cli, cliStale, open, resets, crashes>>

FetchOk ==
  /\ running # Nobody
  /\ page = NoPage
  /\ page' = FetchPage(running, cursor[running])
  /\ UNCHANGED <<published, durable, toAdd, ready, asleep, running, cursor, stale, hit>>
  /\ UNCHANGED <<cli, cliStale, open, resets, crashes>>

\* fetch_page is deferred by a rate limit, or fails, or the transaction of
\* store_page fails: nothing is durable and the job waits with the cursor it
\* had.  (The three differ in retry_count and in the length of the wait.)
GiveUp ==
  /\ running # Nobody
  /\ running' = Nobody
  /\ page' = NoPage
  /\ asleep' = asleep \cup {running}
  /\ UNCHANGED <<published, durable, toAdd, ready, cursor, stale, hit>>
  /\ UNCHANGED <<cli, cliStale, open, resets, crashes>>

\* Slip: a paginating job goes before the jobs that are already due.
RequeueFirst(s, paginating) ==
  IF paginating THEN ready' = <<s>> \o ready /\ asleep' = asleep
                ELSE ready' = ready /\ asleep' = asleep \cup {s}

\* The transaction commits, the job takes the page's cursor and is pushed
\* back: due now while it is paginating, else after the polling interval.
Requeue(s, paginating) ==
  IF paginating THEN ready' = Append(ready, s) /\ asleep' = asleep
                ELSE ready' = ready /\ asleep' = asleep \cup {s}

\* A transaction cannot begin inside another one.
StoreOk ==
  /\ page # NoPage
  /\ open = {}
  /\ StorePage(running, page, stale[running])
  /\ cursor' = [cursor EXCEPT ![running] = CursorAfter(page)]
  /\ stale' = [stale EXCEPT ![running] = FALSE]
  /\ Requeue(running, page.next # NoCursor)
  /\ running' = Nobody
  /\ page' = NoPage
  /\ UNCHANGED <<published, toAdd, hit, cli, cliStale, open, resets, crashes>>

\* The server dies and is started again: the heap and every cursor in memory
\* are lost, a page not yet committed and a reset left open are rolled back.
Crash ==
  /\ crashes < MaxCrashes
  /\ crashes' = crashes + 1
  /\ toAdd' = Sources
  /\ ready' = <<>>
  /\ asleep' = {}
  /\ running' = Nobody
  /\ cursor' = [s \in Sources |-> NoCursor]
  /\ page' = NoPage
  /\ stale' = [s \in Sources |-> FALSE]
  /\ hit' = FALSE
  /\ open' = {}
  /\ UNCHANGED <<published, durable, cli, cliStale, resets>>

-----------------------------------------------------------------------------
(* The admin reset of one document type: its documents and the sync_state  *)
(* rows of the sources that produce it, in one transaction.                *)

\* Slip: the sync_state rows stay.
DeleteTypeKeepsCursors(t) ==
  /\ stored' = {d \in stored : Feed[d[1]][d[2]] # t}
  /\ synced' = synced

DeleteType(t) ==
  /\ stored' = {d \in stored : Feed[d[1]][d[2]] # t}
  /\ synced' = [s \in Sources |-> IF s \in SyncPatterns(t) THEN NoCursor ELSE synced[s]]

Reset(t) ==
  /\ open = {}
  /\ resets < MaxResets
  /\ resets' = resets + 1
  /\ DeleteType(t)
  /\ torn' = [s \in Sources |-> torn[s] /\ s \notin SyncPatterns(t)]
  /\ stale' = [s \in Sources |-> IF s \in SyncPatterns(t) THEN cursor[s] # NoCursor ELSE stale[s]]
  /\ cliStale' = IF cli.source \in SyncPatterns(t) THEN cli.cursor # NoCursor ELSE cliStale
  /\ hit' = (hit \/ running \in SyncPatterns(t))
  /\ UNCHANGED <<published, toAdd, ready, asleep, running, cursor, page, cli, open, crashes>>

\* One of its statements fails: reset_source_type returns and leaves the
\* transaction open, so that every later one fails until the server restarts.
ResetFails(t) ==
  /\ open = {}
  /\ resets < MaxResets
  /\ resets' = resets + 1
  /\ open' = {t}
  /\ UNCHANGED <<published, durable, queue, cli, cliStale, crashes>>

-----------------------------------------------------------------------------
(* run_single_source: a second process that loads the cursor once and then *)
(* fetches and stores page after page, never looking at sync_state again.  *)

CliStart(s) ==
  /\ cli.source = Nobody
  /\ cli' = [source |-> s, cursor |-> synced[s], page |-> NoPage]
  /\ cliStale' = FALSE
  /\ UNCHANGED <<published, durable, queue, open, resets, crashes>>

CliFetch ==
  /\ cli.source # Nobody
  /\ cli.page = NoPage
  /\ cli' = [cli EXCEPT !.page = FetchPage(cli.source, cli.cursor)]
  /\ UNCHANGED <<published, durable, queue, cliStale, open, resets, crashes>>

\* An error, the page limit, or a kill.
CliExit ==
  /\ cli.source # Nobody
  /\ cli' = [source |-> Nobody, cursor |-> NoCursor, page |-> NoPage]
  /\ cliStale' = FALSE
  /\ UNCHANGED <<published, durable, queue, open, resets, crashes>>

\* The file is locked while a transaction of the server is open.
CliStore ==
  /\ cli.page # NoPage
  /\ open = {}
  /\ StorePage(cli.source, cli.page, cliStale)
  /\ cli' = IF cli.page.next = NoCursor
            THEN [source |-> Nobody, cursor |-> NoCursor, page |-> NoPage]
            ELSE [cli EXCEPT !.cursor = CursorAfter(cli.page), !.page = NoPage]
  /\ cliStale' = FALSE
  /\ UNCHANGED <<published, queue, open, resets, crashes>>

-----------------------------------------------------------------------------
QueueStep ==
  \/ \E readable \in RowReads : StartJob(readable)
  \/ FetchOk
  \/ GiveUp
  \/ StoreOk

CliStep ==
  \/ \E s \in CliSources : CliStart(s)
  \/ CliFetch
  \/ CliExit
  \/ CliStore

Next ==
  \/ \E s \in Sources : Publish(s) \/ AddJob(s) \/ Wake(s)
  \/ QueueStep
  \/ Crash
  \/ \E t \in Types : Reset(t) \/ ResetFails(t)
  \/ CliStep

Spec == Init /\ [][Next]_vars

(***************************************************************************)
(* Fairness.  The steps that are the scheduler's own are taken: a job is   *)
(* added, a deadline arrives, a due job is popped, and a transaction, once *)
(* begun, commits or fails.  The rest is assumed of what the code waits    *)
(* for.  A fetch ends, with a page or an error: execute_job awaits it      *)
(* without a timeout and some adapters use clients that have none, so one  *)
(* that hangs stops the queue for good.  And a source and a database that  *)
(* are tried for ever do not fail for ever.  Nothing is assumed of the     *)
(* administrator, of crashes, of the command line and of what gets         *)
(* published.                                                              *)
(***************************************************************************)
Scheduled ==
  /\ \A s \in Sources : WF_vars(AddJob(s)) /\ WF_vars(Wake(s))
  /\ WF_vars(\E readable \in RowReads : StartJob(readable))
  /\ WF_vars(StoreOk \/ (page # NoPage /\ GiveUp))

FetchesEnd == WF_vars(FetchOk \/ (page = NoPage /\ GiveUp))

SourcesRecover ==
  \A s \in Sources : SF_vars(running = s /\ FetchOk) /\ SF_vars(running = s /\ StoreOk)

Fairness == Scheduled /\ FetchesEnd /\ SourcesRecover

FairSpec == Spec /\ Fairness

-----------------------------------------------------------------------------
(* Properties.                                                             *)

PageOK(s, p) ==
  /\ p \in [from : Cursors(s), upto : Published(s), next : Cursors(s), checkpoint : Cursors(s)]
  /\ Position(p.from) <= p.upto /\ p.upto <= published[s]
  /\ p.next \in {p.upto, NoCursor} /\ p.checkpoint \in {p.upto, NoCursor}

\* No cursor, in the database or in memory, is beyond what its source has
\* published, and a page waiting to be stored belongs to the job, or the
\* command line, that fetched it and continues from its cursor.
TypeOK ==
  /\ published \in [Sources -> Nat] /\ \A s \in Sources : published[s] \in Published(s)
  /\ stored \subseteq Sources \X Nat
  /\ synced \in [Sources -> Nat \cup {NoCursor}]
  /\ cursor \in [Sources -> Nat \cup {NoCursor}]
  /\ \A s \in Sources : Position(synced[s]) <= published[s] /\ Position(cursor[s]) <= published[s]
  /\ toAdd \subseteq Sources /\ asleep \subseteq Sources /\ ready \in Seq(Sources)
  /\ running \in Sources \cup {Nobody} /\ (toAdd # {} => running = Nobody)
  /\ page # NoPage => running # Nobody /\ PageOK(running, page) /\ page.from = cursor[running]
  /\ cli \in [source : Sources \cup {Nobody}, cursor : Nat \cup {NoCursor}, page : {cli.page}]
  /\ cli.source # Nobody => Position(cli.cursor) <= published[cli.source]
  /\ cli.page # NoPage =>
       cli.source # Nobody /\ PageOK(cli.source, cli.page) /\ cli.page.from = cli.cursor
  /\ torn \in [Sources -> BOOLEAN] /\ stale \in [Sources -> BOOLEAN] /\ cliStale \in BOOLEAN
  /\ hit \in BOOLEAN
  /\ open \subseteq Types /\ resets \in 0..MaxResets /\ crashes \in 0..MaxCrashes

\* The cursor in sync_state is never ahead of the documents: everything the
\* source published before that position is in the database, through
\* failures, crashes, resets of a type several sources share and a second
\* process, unless a page older than a reset was stored after it.
Covered(s, n) == \A i \in 1..n : <<s, i>> \in stored

NoGaps == \A s \in Sources : torn[s] \/ Covered(s, Position(synced[s]))

\* Why NoGaps is inductive: a cursor in memory that no reset has made obsolete
\* is covered as well, so whatever is committed from it leaves no gap.
CursorsCovered ==
  \A s \in Sources :
    torn[s] \/ /\ Covered(s, Position(synced[s]))
               /\ stale[s] \/ Covered(s, Position(cursor[s]))
               /\ cli.source = s => cliStale \/ Covered(s, Position(cli.cursor))

IInv == TypeOK /\ CursorsCovered

\* While sync_state can be read and no second process ingests, a cursor is
\* torn from its documents only by a job that had passed its check when the
\* reset came: every later run of it drops the obsolete cursor.
TornOnlyInFlight ==
  [][\A s \in Sources : torn'[s] /\ ~torn[s] => running = s /\ hit]_vars

\* What queue.rs:140-142 claims: after a reset the job starts from scratch,
\* so that no reset leaves a gap before the cursor.  A reset that meets a job
\* in flight breaks it.
ResetLeavesNoGap == \A s \in Sources : Covered(s, Position(synced[s]))

\* No path through execute_job loses or duplicates a job: each one is in
\* exactly one place, once.
OneHome ==
  /\ Sources = toAdd \cup Ready \cup asleep \cup ({running} \ {Nobody})
  /\ toAdd \cap Ready = {} /\ toAdd \cap asleep = {} /\ Ready \cap asleep = {}
  /\ running \notin toAdd \cup Ready \cup asleep
  /\ \A i, j \in DOMAIN ready : ready[i] = ready[j] => i = j

\* The queue, the command line, the reset and every crash together implement
\* atomic page commits and resets on the durable state.
Durable == INSTANCE CheckpointedFeed WITH
  Sources <- Sources, Types <- Types, Feed <- Feed, NoCursor <- NoCursor,
  stored <- stored, synced <- synced, torn <- torn

DurableSpec == Durable!Spec

\* A due job is popped after finitely many others, even beside a source that
\* asks for its next page at once for ever, as long as every fetch ends.
EveryDueJobRuns ==
  \A s \in Sources : (s \in Ready) ~> (running = s \/ s \in toAdd)

\* Whatever a source has published is in the database in the end, also when it
\* was deleted by a reset, as long as the cursor has not been torn from the
\* documents and no half-done reset is left open for good.
EventuallyStored ==
  \A s \in Sources : \A i \in DOMAIN Feed[s] :
    (published[s] >= i) ~> (<<s, i>> \in stored \/ torn[s] \/ open # {})
=============================================================================
