------------------------------- MODULE Reenrich -------------------------------
(***************************************************************************)
(* Re-enrichment of one document type (bkb-server/src/api.rs) beside page  *)
(* commits of the ingestion queue and admin resets of the same type.       *)
(*                                                                         *)
(* A call is one admin request.  A re-enrichment request checks the map of *)
(* running jobs, lists the documents, registers its job and answers; its   *)
(* background task then visits the documents one by one, each in two       *)
(* separate database calls (read, replace the derived edges), stays in the *)
(* map for a minute and removes the type's entry.  A reset request checks  *)
(* the map and then deletes everything in one transaction.  Other calls    *)
(* and commits may come in at every await.                                 *)
(*                                                                         *)
(* A document's body is a version number, 0 when it is not in the          *)
(* database.  Its refs and concept_mentions come from two places: those    *)
(* enrich_document derives from the body (and the parent), which are the   *)
(* version they were derived from, and those the adapter sends with the    *)
(* page (a forum post's reply, a commit's pull request), which only a page *)
(* commit brings.                                                          *)
(***************************************************************************)
EXTENDS Naturals, FiniteSets

CONSTANTS
  Docs,         \* ids of the documents of this type
  Sourced,      \* those whose adapter sends edges of its own with them
  Calls,        \* admin requests, each with the task it spawns
  MaxVersions,  \* bound: versions of a body
  MaxCrashes,   \* bound: server crashes in a behaviour
  NoJob,        \* no entry for the type in reenrich_jobs
  NoDoc         \* the task is between two documents

ASSUME ReenrichAssumption ==
  /\ IsFiniteSet(Docs) /\ NoDoc \notin Docs
  /\ Sourced \subseteq Docs
  /\ NoJob \notin Calls
  /\ MaxVersions \in Nat /\ MaxCrashes \in Nat

VARIABLES
  upstream,   \* the newest version the source has shown us
  body,       \* documents
  edges,      \* refs and concept_mentions derived from the body
  own,        \* refs the adapter sent, by the version they came with, 0 if none
  phase,      \* how far each call is
  todo,       \* the documents a task has still to finish
  doing,      \* the document a task has read and not yet written
  seen,       \* the version it read
  progress,   \* ReenrichProgress: total and done
  jobs,       \* reenrich_jobs: the call whose progress is registered
  raced,      \* history: a commit or a reset has hit doing since it was read
  overtaken,  \* history: the document's edges were last written from such a read
  reenriched, \* history: a re-enrichment has written the document since its commit
  patience,   \* what the administrator waits for, which the code leaves open
  crashes

store == <<upstream, body, edges, own, overtaken, reenriched>>
tasks == <<phase, todo, doing, seen, progress, raced>>
vars == <<store, tasks, jobs, patience, crashes>>

\* Nothing; the answer before the next request; or that, and for a finished
\* job's entry to leave the dashboard before the next re-enrichment.
Patience == {"none", "answer", "entry"}

Phases == {"idle", "admitted", "listed", "running", "lingering", "resetting"}

Init ==
  /\ upstream = [d \in Docs |-> 0]
  /\ body = [d \in Docs |-> 0]
  /\ edges = [d \in Docs |-> 0]
  /\ own = [d \in Docs |-> 0]
  /\ phase = [c \in Calls |-> "idle"]
  /\ todo = [c \in Calls |-> {}]
  /\ doing = [c \in Calls |-> NoDoc]
  /\ seen = [c \in Calls |-> 0]
  /\ progress = [c \in Calls |-> [total |-> 0, done |-> 0]]
  /\ jobs = NoJob
  /\ raced = [c \in Calls |-> FALSE]
  /\ overtaken = [d \in Docs |-> FALSE]
  /\ reenriched = [d \in Docs |-> FALSE]
  /\ patience \in Patience
  /\ crashes = 0

-----------------------------------------------------------------------------
(* The ingestion queue: commit_page for a page that holds d.               *)

\* The edges the adapter sends with version v of a document.
Sent(d, v) == IF d \in Sourced THEN v ELSE 0

\* Slip: the edges of an earlier body are kept beside the new body.
IngestKeepsEdges(d, v) ==
  /\ v \in {upstream[d], upstream[d] + 1} /\ v \in 1..MaxVersions
  /\ upstream' = [upstream EXCEPT ![d] = v]
  /\ body' = [body EXCEPT ![d] = v]
  /\ edges' = [edges EXCEPT ![d] = IF @ = 0 THEN v ELSE @]
  /\ own' = [own EXCEPT ![d] = Sent(d, v)]
  /\ overtaken' = [overtaken EXCEPT ![d] = FALSE]
  /\ reenriched' = [reenriched EXCEPT ![d] = FALSE]
  /\ raced' = [c \in Calls |-> raced[c] \/ doing[c] = d]
  /\ UNCHANGED <<phase, todo, doing, seen, progress, jobs, crashes>>

\* The body, the edges derived from it and those of page.references change in
\* one transaction.
Ingest(d, v) ==
  /\ v \in {upstream[d], upstream[d] + 1} /\ v \in 1..MaxVersions
  /\ upstream' = [upstream EXCEPT ![d] = v]
  /\ body' = [body EXCEPT ![d] = v]
  /\ edges' = [edges EXCEPT ![d] = v]
  /\ own' = [own EXCEPT ![d] = Sent(d, v)]
  /\ overtaken' = [overtaken EXCEPT ![d] = FALSE]
  /\ reenriched' = [reenriched EXCEPT ![d] = FALSE]
  /\ raced' = [c \in Calls |-> raced[c] \/ doing[c] = d]
  /\ UNCHANGED <<phase, todo, doing, seen, progress, jobs, crashes>>

-----------------------------------------------------------------------------
(* The admin requests.                                                     *)

Unfinished(c) == progress[c].done < progress[c].total

\* Slip: any entry is taken for a finished job.
ConflictNever == FALSE

\* The 409 test of both handlers, under the lock of the map.
Conflict == jobs # NoJob /\ Unfinished(jobs)

Answering(c) == phase[c] \in {"admitted", "listed", "resetting"}

MayAsk(c) == phase[c] = "idle" /\ (patience # "none" => ~\E o \in Calls : Answering(o))

Enter(c, p) == phase' = [phase EXCEPT ![c] = p]

AskReenrich(c) ==
  /\ MayAsk(c)
  /\ patience = "entry" => (jobs # NoJob => Unfinished(jobs))
  /\ ~Conflict
  /\ Enter(c, "admitted")
  /\ UNCHANGED <<store, todo, doing, seen, progress, raced, jobs, crashes>>

\* docs_for_reenrich.
ListDocs(c) ==
  /\ phase[c] = "admitted"
  /\ Enter(c, "listed")
  /\ todo' = [todo EXCEPT ![c] = {d \in Docs : body[d] # 0}]
  /\ UNCHANGED <<store, doing, seen, progress, raced, jobs, crashes>>

\* The new entry replaces whatever the map holds, and the task is spawned.
Register(c) ==
  /\ phase[c] = "listed"
  /\ Enter(c, "running")
  /\ progress' = [progress EXCEPT ![c] = [total |-> Cardinality(todo[c]), done |-> 0]]
  /\ jobs' = c
  /\ UNCHANGED <<store, todo, doing, seen, raced, crashes>>

AskReset(c) ==
  /\ MayAsk(c)
  /\ ~Conflict
  /\ Enter(c, "resetting")
  /\ UNCHANGED <<store, todo, doing, seen, progress, raced, jobs, crashes>>

\* reset_source_type, after the lock of the map has been released.
Reset(c) ==
  /\ phase[c] = "resetting"
  /\ Enter(c, "idle")
  /\ body' = [d \in Docs |-> 0]
  /\ edges' = [d \in Docs |-> 0]
  /\ own' = [d \in Docs |-> 0]
  /\ overtaken' = [d \in Docs |-> FALSE]
  /\ reenriched' = [d \in Docs |-> FALSE]
  /\ raced' = [o \in Calls |-> raced[o] \/ doing[o] # NoDoc]
  /\ UNCHANGED <<upstream, todo, doing, seen, progress, jobs, crashes>>

\* A database error, or the client is gone and the handler is dropped.
Abandon(c) ==
  /\ Answering(c)
  /\ Enter(c, "idle")
  /\ todo' = [todo EXCEPT ![c] = {}]
  /\ UNCHANGED <<store, doing, seen, progress, raced, jobs, crashes>>

-----------------------------------------------------------------------------
(* The background task.                                                    *)

\* Slip: a document that failed is not counted.
SkipUncounted(c, d) ==
  /\ todo' = [todo EXCEPT ![c] = @ \ {d}]
  /\ doing' = [doing EXCEPT ![c] = NoDoc]
  /\ seen' = [seen EXCEPT ![c] = 0]
  /\ raced' = [raced EXCEPT ![c] = FALSE]
  /\ UNCHANGED <<phase, progress, jobs, crashes>>

\* Slip: a document that failed is tried again.
SkipRetries(c, d) ==
  /\ doing' = [doing EXCEPT ![c] = NoDoc]
  /\ seen' = [seen EXCEPT ![c] = 0]
  /\ raced' = [raced EXCEPT ![c] = FALSE]
  /\ UNCHANGED <<phase, todo, progress, jobs, crashes>>

\* A document is done, whatever came of it.
Count(c, d) ==
  /\ todo' = [todo EXCEPT ![c] = @ \ {d}]
  /\ progress' = [progress EXCEPT ![c].done = @ + 1]
  /\ doing' = [doing EXCEPT ![c] = NoDoc]
  /\ seen' = [seen EXCEPT ![c] = 0]
  /\ raced' = [raced EXCEPT ![c] = FALSE]
  /\ UNCHANGED <<phase, jobs, crashes>>

\* A document that is gone, or whose read or write failed, is counted as well.
Skip(c, d) == Count(c, d)

\* get_raw_document.
Read(c, d) ==
  /\ phase[c] = "running" /\ doing[c] = NoDoc /\ d \in todo[c]
  /\ body[d] # 0
  /\ doing' = [doing EXCEPT ![c] = d]
  /\ seen' = [seen EXCEPT ![c] = body[d]]
  /\ UNCHANGED <<store, phase, todo, progress, raced, jobs, crashes>>

ReadGoneOrFailed(c, d) ==
  /\ phase[c] = "running" /\ doing[c] = NoDoc /\ d \in todo[c]
  /\ Skip(c, d)
  /\ UNCHANGED store

\* What a task writes for the document it has read: its references, all that
\* the document has deleted first.
Rewrite(c, d) ==
  /\ edges' = [edges EXCEPT ![d] = seen[c]]
  /\ own' = [own EXCEPT ![d] = 0]
  /\ overtaken' = [overtaken EXCEPT ![d] = raced[c]]
  /\ reenriched' = [reenriched EXCEPT ![d] = TRUE]

\* Slip: the edges are written for a document deleted since it was read.
ReplaceUnchecked(c) ==
  /\ doing[c] # NoDoc
  /\ Rewrite(c, doing[c])
  /\ Count(c, doing[c])
  /\ UNCHANGED <<upstream, body>>

\* replace_enrichment: a no-op when the document has been deleted, but the
\* body is not compared with the one the edges were derived from, and only
\* what enrich_document found and the parent take the place of what goes.
Replace(c) ==
  /\ doing[c] # NoDoc
  /\ IF body[doing[c]] = 0
     THEN UNCHANGED <<edges, own, overtaken, reenriched>>
     ELSE Rewrite(c, doing[c])
  /\ Count(c, doing[c])
  /\ UNCHANGED <<upstream, body>>

ReplaceFailed(c) ==
  /\ doing[c] # NoDoc
  /\ Skip(c, doing[c])
  /\ UNCHANGED store

Finish(c) ==
  /\ phase[c] = "running" /\ todo[c] = {}
  /\ Enter(c, "lingering")
  /\ UNCHANGED <<store, todo, doing, seen, progress, raced, jobs, crashes>>

\* A minute later the entry of the type is removed, whoever registered it.
CleanUp(c) ==
  /\ phase[c] = "lingering"
  /\ Enter(c, "idle")
  /\ jobs' = NoJob
  /\ UNCHANGED <<store, todo, doing, seen, progress, raced, crashes>>

\* The map, the requests and the tasks live in memory only.
Crash ==
  /\ crashes < MaxCrashes
  /\ crashes' = crashes + 1
  /\ phase' = [c \in Calls |-> "idle"]
  /\ todo' = [c \in Calls |-> {}]
  /\ doing' = [c \in Calls |-> NoDoc]
  /\ seen' = [c \in Calls |-> 0]
  /\ raced' = [c \in Calls |-> FALSE]
  /\ jobs' = NoJob
  /\ UNCHANGED <<store, progress>>

-----------------------------------------------------------------------------
Request(c) ==
  \/ AskReenrich(c) \/ ListDocs(c) \/ Register(c)
  \/ AskReset(c) \/ Reset(c) \/ Abandon(c)

Task(c) ==
  /\ UNCHANGED patience
  /\ \/ \E d \in Docs : Read(c, d) \/ ReadGoneOrFailed(c, d)
     \/ Replace(c) \/ ReplaceFailed(c)
     \/ Finish(c) \/ CleanUp(c)

Next ==
  \/ \E c \in Calls : Task(c)
  \/ /\ UNCHANGED patience
     /\ \/ \E d \in Docs, v \in 1..MaxVersions : Ingest(d, v)
        \/ \E c \in Calls : Request(c)
        \/ Crash

Spec == Init /\ [][Next]_vars

\* A spawned task is scheduled until it ends: it has no lock it waits for in
\* vain, and a failing document does not stop it.
FairSpec == Spec /\ \A c \in Calls : WF_vars(Task(c))

-----------------------------------------------------------------------------
(* Properties.                                                             *)

Running(c) == phase[c] = "running"

\* What a task holds: a document it has still to count, read in a version
\* that existed, and a count that adds up while it runs.
TypeOK ==
  /\ upstream \in [Docs -> 0..MaxVersions] /\ body \in [Docs -> 0..MaxVersions]
  /\ edges \in [Docs -> 0..MaxVersions] /\ own \in [Docs -> 0..MaxVersions]
  /\ overtaken \in [Docs -> BOOLEAN] /\ reenriched \in [Docs -> BOOLEAN]
  /\ phase \in [Calls -> Phases] /\ todo \in [Calls -> SUBSET Docs]
  /\ doing \in [Calls -> Docs \cup {NoDoc}] /\ seen \in [Calls -> 0..MaxVersions]
  /\ progress \in [Calls -> [total : Nat, done : Nat]]
  /\ jobs \in Calls \cup {NoJob} /\ raced \in [Calls -> BOOLEAN]
  /\ patience \in Patience /\ crashes \in 0..MaxCrashes
  /\ \A c \in Calls :
       /\ doing[c] # NoDoc => Running(c) /\ doing[c] \in todo[c] /\ seen[c] # 0
       /\ Running(c) => progress[c].done + Cardinality(todo[c]) = progress[c].total

DerivedFollow(d) == edges[d] = body[d] \/ (body[d] # 0 /\ overtaken[d])

OwnFollow(d) == own[d] = IF reenriched[d] THEN 0 ELSE Sent(d, body[d])

\* A deleted document has no edges; one that is there has those derived from
\* its body and those its adapter sent with that body, whatever ingestion,
\* resets, crashes and any number of re-enrichments do at once.  There are two
\* exceptions, and both end with the document's next page commit: a page
\* committed the document between a re-enrichment's read and its write, so the
\* derived edges are of an older body; and a re-enrichment has written the
\* document, race or no race, so the adapter's own edges are gone, all of them.
EdgesFollowBody ==
  \A d \in Docs :
    /\ DerivedFollow(d) /\ OwnFollow(d)
    /\ overtaken[d] => reenriched[d]
    /\ reenriched[d] => body[d] # 0

\* Why EdgesFollowBody is inductive: what a task has read is still the body,
\* unless a commit or a reset has hit the document since.
ReadsCurrent ==
  \A c \in Calls : doing[c] # NoDoc => raced[c] \/ seen[c] = body[doing[c]]

\* Why ResetRefused and OneTask hold for a calm administrator: the map then
\* holds the one call whose task is alive, and nobody is answered beside it.
Orderly ==
  /\ \A c, o \in Calls : Answering(c) /\ Answering(o) => c = o
  /\ \A c \in Calls :
       /\ phase[c] \in {"running", "lingering"} => jobs = c
       /\ phase[c] \in {"admitted", "listed"} => jobs = NoJob
       /\ phase[c] = "resetting" => ~Conflict

\* A request is never refused on account of a job that is no longer running.
NoPhantomJob == Conflict => Running(jobs)

Overruns(c) == Reset(c) /\ \E o \in Calls : Running(o) /\ Unfinished(o)

\* What CHANGELOG.md:84-85 says: a reset does not delete documents while a
\* re-enrichment of their type is running.  It holds for an administrator who
\* waits for each answer and for a finished job's entry to go.
ResetRefused == [][patience = "entry" => \A c \in Calls : ~Overruns(c)]_vars

\* The same for one who only waits for each answer.
AnsweredResetRefused == [][patience = "answer" => \A c \in Calls : ~Overruns(c)]_vars

\* The same for any number of administrators.
AnyResetRefused == [][\A c \in Calls : ~Overruns(c)]_vars

\* What the 409 of a second re-enrichment is for (api.rs:473): no two tasks
\* work on the documents of one type, for the patient administrator.
OneTask ==
  patience = "entry" =>
    \A c, o \in Calls : Running(c) /\ Unfinished(c) /\ Running(o) /\ Unfinished(o) => c = o

\* A 409 does not last: the job it is due to ends, whatever fails.
ConflictLifts == Conflict ~> ~Conflict
=============================================================================
