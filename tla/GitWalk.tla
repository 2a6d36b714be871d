------------------------------- MODULE GitWalk -------------------------------
(***************************************************************************)
(* Commit histories (bkb-ingest/src/sources/commits.rs) and the cache of   *)
(* bare clones they are read from (bkb-ingest/src/repo_cache.rs).          *)
(*                                                                         *)
(* A job walks the history of its repository's default branch from a head  *)
(* that is pinned in the cursor, one page of commits per fetch_page, and   *)
(* leaves out what an earlier walk has covered (the baseline).  Each call  *)
(* clones or fetches first.  The clones share a cache that evicts, so the  *)
(* pages of one walk may be read from different clones, and the remote may *)
(* have been rewritten and collected in between.                           *)
(*                                                                         *)
(* The queue runs one job at a time; a call is a size check, a clone or    *)
(* fetch, and a walk with the commit of its page, between any two of which *)
(* the process may die and the remote may change.                          *)
(***************************************************************************)
EXTENDS Integers, FiniteSets

CONSTANTS
  Repos,
  Migrated,       \* the repositories whose metadata Forgejo serves
  Commits,        \* numbered so that a walk visits them from the highest down
  Ancestors,      \* Ancestors[c]: the commits reachable from c, c included
  PRMerges,       \* the commits whose message says which pull request they merge
  FirstTip,       \* where each default branch is at the start
  PageSize,
  MaxCache,       \* max_cache_bytes; a clone's size is the number of its commits
  MaxRepo,        \* max_repo_size_kb
  Stubborn,       \* the repositories whose clone cannot be removed from disk
  Growing,        \* bound: the repositories that are pushed to or reset
  MaxPushes,      \* bound
  MaxIncidents,   \* bound: incidents and resets
  None

ASSUME GraphAssumption ==
  /\ Commits \subseteq Nat /\ IsFiniteSet(Commits)
  /\ Ancestors \in [Commits -> SUBSET Commits]
  /\ \A c \in Commits : c \in Ancestors[c]
  /\ \A c \in Commits : \A d \in Ancestors[c] : Ancestors[d] \subseteq Ancestors[c] /\ d <= c
  /\ PRMerges \subseteq Commits

ASSUME SizesAssumption ==
  /\ FirstTip \in [Repos -> Commits]
  /\ PageSize \in Nat \ {0} /\ MaxCache \in Nat /\ MaxRepo \in Nat
  /\ MaxPushes \in Nat /\ MaxIncidents \in Nat
  /\ IsFiniteSet(Repos) /\ Migrated \subseteq Repos /\ Growing \subseteq Repos /\ Stubborn \subseteq Repos
  /\ None \notin Commits /\ None \notin Repos

VARIABLES
  tip,        \* tip[r]: the head of the remote's default branch
  pushes,
  incidents,
  follows,    \* whether a fetch moves the clone's own branch with the remote's:
              \* libgit2 and the clone's refspec decide that, not this code
  clone,      \* clone[r]: the clone on disk
  accessed,   \* access_log: <<s, r>> if s was used less recently than r
  checked,    \* size_checked: the repositories that passed in this process
  job,        \* the repository whose fetch_page is running, or None
  step,       \* what it does next
  cursor,     \* the GitCursor saved in the database, or None
  indexed,    \* indexed[r]: the commits in the database
  mentions,   \* mentions[r]: the commits with a reference to a pull request
  regained    \* history: a walk's baseline came back between two of its pages

remote == <<tip, pushes, follows>>
cache == <<clone, accessed>>
database == <<cursor, indexed, mentions, regained>>
vars == <<remote, incidents, cache, checked, job, step, database>>

NoClone == [state |-> "absent", objects |-> {}, head |-> None]
Broken == [state |-> "broken", objects |-> {}, head |-> None]
Whole(objects, head) == [state |-> "whole", objects |-> objects, head |-> head]

\* Equal times are in the order in which the log lists them.
Orders(S) ==
  {order \in SUBSET (S \X S) :
     /\ \A r, s \in S : r # s => (<<r, s>> \in order <=> <<s, r>> \notin order)
     /\ \A r \in S : <<r, r>> \notin order
     /\ \A r, s, t \in S : <<r, s>> \in order /\ <<s, t>> \in order => <<r, t>> \in order}

OnDisk == {r \in Repos : clone[r].state # "absent"}

\* A cursor of an earlier version, a bare SHA, is ignored: such a job starts anew.
Init ==
  /\ tip = FirstTip /\ pushes = 0 /\ incidents = 0
  /\ follows \in BOOLEAN
  /\ clone = [r \in Repos |-> NoClone]
  /\ accessed = {}
  /\ checked = {} /\ job = None /\ step = "ensure"
  /\ cursor = [r \in Repos |-> None]
  /\ indexed = [r \in Repos |-> {}] /\ mentions = [r \in Repos |-> {}]
  /\ regained = [r \in Repos |-> FALSE]

-----------------------------------------------------------------------------
(* The size check, once per process and repository.                        *)

SmallEnough(r) == Cardinality(Ancestors[tip[r]]) <= MaxRepo

\* The queue runs a job.  Of a repository that is not migrated the check costs
\* a request of GitHub's quota (Pacing); one that did not pass changes nothing
\* and is made again the next time.
Begin(r) ==
  /\ job = None
  /\ r \in checked \/ SmallEnough(r)
  /\ checked' = checked \cup {r}
  /\ job' = r /\ step' = "ensure"
  /\ UNCHANGED <<remote, incidents, cache, database>>

-----------------------------------------------------------------------------
(* ensure_repo.                                                            *)

\* The call ends, with a page or an error; the job waits for its next turn.
End == job' = None /\ step' = "ensure"

SizeOf(S) == Cardinality({p \in S \X Commits : p[2] \in clone[p[1]].objects})
Total == SizeOf(OnDisk)

Removable == OnDisk \ Stubborn
UsedBefore(r) == {s \in Removable : <<s, r>> \in accessed}

\* Slip: the eviction stops one clone early.
EvictedTooFew == {r \in Removable : SizeOf(UsedBefore(r) \cup {r}) < Total - MaxCache}

\* The clones that go: from the least recently used on, while too little has
\* been freed; one that cannot be removed is passed over.
Evicted == {r \in Removable : SizeOf(UsedBefore(r)) < Total - MaxCache}

\* The repositories of S keep their order, and r is the one used last.
Touch(r, S) == (accessed \cap (S \X S)) \cup (S \X {r})

Evict(made) ==
  LET kept == OnDisk \ Evicted
  IN  /\ clone' = [r \in Repos |->
                     IF r = job THEN made ELSE IF r \in kept THEN clone[r] ELSE NoClone]
      /\ accessed' = IF made = NoClone THEN accessed \cap (kept \X kept) ELSE Touch(job, kept)

\* A new clone holds what the remote's branch reaches.
CloneRepo ==
  /\ job # None /\ step = "ensure"
  /\ clone[job].state = "absent"
  /\ Evict(Whole(Ancestors[tip[job]], tip[job]))
  /\ step' = "walk"
  /\ UNCHANGED <<remote, incidents, checked, job, database>>

\* The clone fails; the eviction has been done.
CloneFails ==
  /\ job # None /\ step = "ensure"
  /\ clone[job].state = "absent"
  /\ Evict(NoClone)
  /\ End
  /\ UNCHANGED <<remote, incidents, checked, database>>

\* The branch HEAD names after a fetch: what was fetched before stays.
FetchedHead(r) == IF follows THEN tip[r] ELSE clone[r].head

FetchRepo ==
  /\ job # None /\ step = "ensure"
  /\ clone[job].state = "whole"
  /\ clone' = [clone EXCEPT ![job] = Whole(@.objects \cup Ancestors[tip[job]], FetchedHead(job))]
  /\ accessed' = Touch(job, OnDisk \ {job})
  /\ step' = "walk"
  /\ UNCHANGED <<remote, incidents, checked, job, database>>

\* A directory that is not a repository, or a fetch that fails, is an error;
\* the directory stays.
FetchFails ==
  /\ job # None /\ step = "ensure"
  /\ clone[job].state # "absent"
  /\ End
  /\ UNCHANGED <<remote, incidents, cache, checked, database>>

Ensure == CloneRepo \/ CloneFails \/ FetchRepo \/ FetchFails

-----------------------------------------------------------------------------
(* walk_commits.                                                           *)

\* Slip: an unfinished walk is continued from the branch's present head.
ResumeUnpinned(r) ==
  IF cursor[r] # None /\ ~cursor[r].complete THEN [cursor[r] EXCEPT !.head = clone[r].head]
  ELSE [head |-> clone[r].head,
        baseline |-> IF cursor[r] = None THEN None ELSE cursor[r].head,
        offset |-> 0, complete |-> FALSE, hid |-> FALSE]

\* `hid` is history: whether the walk's last page left the baseline out.
Resume(r) ==
  IF cursor[r] # None /\ ~cursor[r].complete THEN cursor[r]
  ELSE [head |-> clone[r].head,
        baseline |-> IF cursor[r] = None THEN None ELSE cursor[r].head,
        offset |-> 0, complete |-> FALSE, hid |-> FALSE]

\* A baseline that is not in this clone cannot be hidden; all is walked then.
Hidden(r, w) == IF w.baseline \in clone[r].objects THEN Ancestors[w.baseline] ELSE {}

ToWalk(r, w) == Ancestors[w.head] \ Hidden(r, w)

Rank(S, c) == Cardinality({d \in S : d >= c})

Page(S, offset) == {c \in S : Rank(S, c) - offset \in 1..PageSize}

\* Slip: the offset is that of the last page alone.
AdvancedBy(w, count) == [w EXCEPT !.offset = count]

Advanced(w, count) == [w EXCEPT !.offset = @ + count]

Finish(r, w) == cursor' = [cursor EXCEPT ![r] = [w EXCEPT !.complete = TRUE]]

\* The head is the baseline: nothing is walked.
WalkNothing ==
  LET w == Resume(job)
  IN  /\ job # None /\ step = "walk"
      /\ w.baseline = w.head
      /\ Finish(job, w)
      /\ End
      /\ UNCHANGED <<remote, incidents, cache, checked, indexed, mentions, regained>>

\* A commit's document and, for a merge of a pull request, its reference.
Indexed(r, page) == indexed' = [indexed EXCEPT ![r] = @ \cup page]

\* A migrated repository's merges name pull requests of another forge's numbers.
Mentioned(r, page) ==
  mentions' = IF r \in Migrated THEN mentions
              ELSE [mentions EXCEPT ![r] = @ \cup (page \cap PRMerges)]

\* Revwalk and find_commit fail on a head that is not in the clone.
WalkPage ==
  LET w == Resume(job)
      hid == w.baseline \in clone[job].objects
      S == ToWalk(job, w)
      page == Page(S, w.offset)
      more == \E c \in S : Rank(S, c) > w.offset + PageSize
      at == [Advanced(w, Cardinality(page)) EXCEPT !.hid = hid]
  IN  /\ job # None /\ step = "walk"
      /\ w.baseline # w.head
      /\ w.head \in clone[job].objects
      /\ IF more THEN cursor' = [cursor EXCEPT ![job] = at] ELSE Finish(job, at)
      /\ Indexed(job, page) /\ Mentioned(job, page)
      /\ regained' = [regained EXCEPT ![job] = @ \/ (hid /\ ~w.hid /\ w.offset > 0)]
      /\ End
      /\ UNCHANGED <<remote, incidents, cache, checked>>

WalkFails ==
  /\ job # None /\ step = "walk"
  /\ LET w == Resume(job) IN w.baseline # w.head /\ w.head \notin clone[job].objects
  /\ End
  /\ UNCHANGED <<remote, incidents, cache, checked, database>>

Walk == WalkNothing \/ WalkPage \/ WalkFails

-----------------------------------------------------------------------------
(* The rest of the world.                                                  *)

\* The default branch moves on, or is rewritten; what nothing reaches any
\* more is not to be had from the remote again.
Push(r, c) ==
  /\ pushes < MaxPushes /\ r \in Growing
  /\ c # tip[r]
  /\ tip' = [tip EXCEPT ![r] = c]
  /\ pushes' = pushes + 1
  /\ UNCHANGED <<follows, incidents, cache, checked, job, step, database>>

\* The process dies and is started again.  A clone that was being made is left
\* on disk as it is; what is on disk is found in the order of its mtimes.
Crash ==
  /\ incidents < MaxIncidents
  /\ incidents' = incidents + 1
  /\ job' = None /\ step' = "ensure" /\ checked' = {}
  /\ clone' \in {clone} \cup
       (IF job # None /\ step = "ensure" /\ clone[job].state = "absent"
        THEN {[clone EXCEPT ![job] = Broken]} ELSE {})
  /\ accessed' \in Orders(OnDisk')
  /\ UNCHANGED <<remote, database>>

\* An administrator's reset deletes the source's documents and its cursor
\* (SyncQueue models one that meets a running call).
Reset(r) ==
  /\ incidents < MaxIncidents /\ r \in Growing
  /\ job # r /\ cursor[r] # None
  /\ incidents' = incidents + 1
  /\ cursor' = [cursor EXCEPT ![r] = None]
  /\ indexed' = [indexed EXCEPT ![r] = {}]
  /\ mentions' = [mentions EXCEPT ![r] = {}]
  /\ regained' = [regained EXCEPT ![r] = FALSE]
  /\ UNCHANGED <<remote, cache, checked, job, step>>

Next ==
  \/ \E r \in Repos : Begin(r) \/ Reset(r)
  \/ Ensure \/ Walk
  \/ \E r \in Repos, c \in Commits : Push(r, c)
  \/ Crash

Spec == Init /\ [][Next]_vars

(***************************************************************************)
(* Fairness: the queue runs every due job again and again (SyncQueue,      *)
(* EveryDueJobRuns), a running call goes on, and a remote that is asked    *)
(* often enough answers.                                                   *)
(***************************************************************************)
Ready(r) == job = r /\ (CloneRepo \/ FetchRepo)

FairSpec ==
  /\ Spec
  /\ WF_vars(Ensure) /\ WF_vars(Walk)
  /\ \A r \in Repos : SF_vars(Begin(r)) /\ SF_vars(Ready(r))

-----------------------------------------------------------------------------
(* Properties.                                                             *)

Unfinished(r) == cursor[r] # None /\ ~cursor[r].complete

\* Whatever is in the database, a cursor or the cache has been on the remote,
\* and every clone on disk is in the access log, so that it can be evicted.
TypeOK ==
  /\ tip \in [Repos -> Commits] /\ pushes \in 0..MaxPushes /\ incidents \in 0..MaxIncidents
  /\ follows \in BOOLEAN
  /\ \A r \in Repos :
       /\ clone[r].state \in {"absent", "broken", "whole"}
       /\ clone[r].objects \subseteq Commits
       /\ clone[r].state = "whole" => clone[r].head \in clone[r].objects
  /\ accessed \in Orders(OnDisk)
  /\ checked \subseteq Repos /\ job \in Repos \cup {None}
  /\ step \in {"ensure", "walk"}
  /\ \A r \in Repos : cursor[r] # None => cursor[r].head \in Commits /\ cursor[r].offset \in Nat
  /\ \A r \in Repos : mentions[r] \subseteq indexed[r] /\ indexed[r] \subseteq Commits

\* A walk that is complete has indexed all its head reaches, whatever was
\* evicted, rewritten or interrupted on the way, with the pull requests its
\* merges mention - unless a baseline that was missing came back between two
\* pages, when the offset is counted in a shorter list than before.
CompleteMeansAll ==
  \A r \in Repos :
    cursor[r] # None /\ cursor[r].complete /\ ~regained[r] =>
      /\ Ancestors[cursor[r].head] \subseteq indexed[r]
      /\ r \in Migrated \/ Ancestors[cursor[r].head] \cap PRMerges \subseteq mentions[r]

\* When a repository has been cloned, the clones kept besides it fit into the
\* cache, or cannot be removed.
OthersFit ==
  [][\A r \in Repos :
       clone[r].state = "absent" /\ clone'[r].state = "whole" =>
         LET others == OnDisk \cap {s \in Repos \ {r} : clone'[s].state # "absent"}
         IN  SizeOf(others) <= MaxCache \/ others \subseteq Stubborn]_vars

\* A walk comes to its end, even when its clone is evicted between its pages,
\* unless its head has gone from the remote, the clone is broken, or the
\* repository has grown too large.
WalksEnd ==
  \A r \in Repos :
    Unfinished(r) ~>
      \/ ~Unfinished(r)
      \/ cursor[r].head \notin Ancestors[tip[r]]
      \/ clone[r].state = "broken"
      \/ ~SmallEnough(r)
=============================================================================
