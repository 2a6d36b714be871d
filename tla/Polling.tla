------------------------------- MODULE Polling -------------------------------
(***************************************************************************)
(* The feeds of a forge that are polled by time (bkb-ingest/src/sources:   *)
(* http.rs PollCursor, github.rs, github_reviews.rs, forgejo.rs).          *)
(*                                                                         *)
(* A feed lists the issues, pull requests or comments changed since some   *)
(* moment, oldest change first, in numbered pages; a window is one pass    *)
(* over that listing.  The listing is sorted by the very date an edit      *)
(* changes, so it moves under the page numbers while it is being read.     *)
(* Review feeds visit every listed pull request's reviews (on Forgejo also *)
(* every review's comments), one request per fetch_page, with the work     *)
(* left to do in the cursor.                                               *)
(*                                                                         *)
(* `now` is the host's clock, the forge's clock is Lag behind it.  A fetch *)
(* is one request and the commit of its page (SyncQueue shows that these   *)
(* are atomic); one that fails changes nothing and is left out.            *)
(***************************************************************************)
EXTENDS Integers, Sequences, FiniteSets

CONSTANTS
  Feeds,      \* which of the feeds below are considered
  Items,      \* issue, pull request or comment numbers
  First,      \* the items that exist at the start
  PRs,        \* the items that are pull requests
  PageSize, ChildPageSize,
  Overlap,    \* how far a window reaches back before the previous one (5 min)
  FullAfter,  \* the age at which a full sweep is repeated (7 days)
  Lag,        \* how far the forge's clock is behind
  LastEdit,   \* bound: nothing changes after this time
  MaxEdits,   \* bound: creations and edits
  MaxTime,    \* bound: the clock
  NoCursor,   \* the job has no cursor
  NoTime      \* Option::None for `since`

GitHubFlat == {"github_issues", "github_comments", "github_inline"}
AllFeeds == GitHubFlat \cup {"github_reviews",
             "forgejo_issues", "forgejo_comments", "forgejo_reviews"}

ASSUME FeedsAssumption ==
  /\ Feeds \subseteq AllFeeds
  /\ Items \subseteq Nat /\ IsFiniteSet(Items) /\ First \subseteq Items /\ PRs \subseteq Items
  /\ PageSize \in Nat \ {0} /\ ChildPageSize \in Nat \ {0}

ASSUME ClocksAssumption ==
  /\ Overlap \in Nat /\ FullAfter \in Nat /\ Lag \in 0..Overlap
  /\ LastEdit \in Nat /\ MaxEdits \in Nat /\ MaxTime \in Nat
  /\ NoTime \notin Int

VARIABLES
  now,
  version,   \* version[i]: how often item i has changed, 0 before it exists;
             \* a pull request's version k + 1 brought its k-th review
  edited,    \* updated_at of each item, by the forge's clock
  deleted,   \* items that no longer exist
  feed,      \* which feed this job polls
  cursor,    \* its PollCursor, as saved with the last page
  stored,    \* stored[i]: the version of the item in the database
  details,   \* details[i]: the version its pull request details were read at
  reviews,   \* the reviews in the database, as <<pull request, number>>
  comments,  \* the reviews whose comments are in the database
  slipped    \* history: items an edit of another one moved past the reader

forge == <<now, version, edited, deleted>>
database == <<stored, details, reviews, comments>>
vars == <<forge, feed, cursor, database, slipped>>

Forgejo == feed \in {"forgejo_issues", "forgejo_comments", "forgejo_reviews"}
Exists(i) == version[i] > 0 /\ i \notin deleted
ReviewsOf(i) == 1..version[i] - 1

\* A cursor written before PollCursor, when only GitHub's issues and comments
\* were polled: the time up to which all is stored.
Legacy(t) == [legacy |-> t]

Init ==
  /\ now = 0
  /\ version = [i \in Items |-> IF i \in First THEN 1 ELSE 0]
  /\ edited = [i \in Items |-> 0]
  /\ deleted = {}
  /\ feed \in Feeds
  /\ cursor \in {NoCursor} \cup (IF feed \in {"github_issues", "github_comments"} THEN {Legacy(0)} ELSE {})
  /\ LET old == IF cursor = NoCursor THEN [i \in Items |-> 0] ELSE version
     IN  stored = old /\ details = old
  /\ reviews = {} /\ comments = {}
  /\ slipped = {}

-----------------------------------------------------------------------------
(* PollCursor.                                                             *)

Window(since, t) ==
  [since |-> since, until |-> t, page |-> 1, complete |-> FALSE, lastFull |-> t,
   pending |-> <<>>, childPage |-> 1, moreParents |-> TRUE, reviewIds |-> <<>>]

IsLegacy == cursor # NoCursor /\ "legacy" \in DOMAIN cursor
InWindow == cursor # NoCursor /\ ~IsLegacy /\ ~cursor.complete

\* Slip: no full sweep is ever repeated.
SweepDueNever == FALSE

SweepDue == now - cursor.lastFull >= FullAfter

\* Slip: the next window starts where the previous one ended.
NextSinceExact == cursor.until

NextSince == cursor.until - Overlap

Resume ==
  IF cursor = NoCursor THEN Window(NoTime, now)
  ELSE IF IsLegacy THEN Window(cursor.legacy, now)
  ELSE IF ~cursor.complete THEN cursor
  ELSE IF SweepDue THEN Window(NoTime, now)
  ELSE [Window(NextSince, now) EXCEPT !.lastFull = cursor.lastFull]

\* The cursor that is saved: next_cursor while there is more, else checkpoint.
Save(w, more) == cursor' = [w EXCEPT !.complete = ~more]

-----------------------------------------------------------------------------
(* The listing, oldest change first, as the forge would serve it now.      *)

Listed(w) ==
  {i \in Items :
     /\ Exists(i)
     /\ w.since = NoTime \/ edited[i] >= w.since
     /\ Forgejo => edited[i] <= w.until}

Before(i, k) == edited[i] < edited[k] \/ (edited[i] = edited[k] /\ i < k)

Rank(w, i) == Cardinality({k \in Listed(w) : Before(k, i)}) + 1

ReadUpTo(w) == (w.page - 1) * PageSize

PageItems(w) == {i \in Listed(w) : Rank(w, i) - ReadUpTo(w) \in 1..PageSize}

\* more_pages: a link or a total count tells, or else a full page suggests it.
MorePages(w) ==
  LET listed == Cardinality(Listed(w))
  IN  {listed > w.page * PageSize, listed >= w.page * PageSize}

\* GitHub cannot bound the listing above: the reader drops what is newer than
\* the window and takes it for the end.
Kept(w) == {i \in PageItems(w) : edited[i] <= w.until}

MoreParents(w, more) == more /\ \A i \in PageItems(w) : edited[i] <= w.until

Sorted(S, Less(_, _)) ==
  CHOOSE q \in [1..Cardinality(S) -> S] : \A a, b \in 1..Cardinality(S) : a < b => Less(q[a], q[b])

-----------------------------------------------------------------------------
(* fetch_page, one action for each request it may make.                    *)

\* An item is no longer to be found once its current state is in the database.
Current(i, st, de, re, co) ==
  CASE feed = "github_reviews"  -> i \in PRs => \A k \in ReviewsOf(i) : <<i, k>> \in re
    [] feed = "forgejo_reviews" -> i \in PRs => \A k \in ReviewsOf(i) : <<i, k>> \in re \cap co
    [] feed = "forgejo_issues"  -> st[i] = version[i] /\ (i \in PRs => de[i] = version[i])
    [] OTHER                    -> st[i] = version[i]

IsCurrent(i) == Current(i, stored, details, reviews, comments)

Found ==
  slipped' = {i \in slipped : ~Current(i, stored', details', reviews', comments')}

Stores(items) == stored' = [i \in Items |-> IF i \in items THEN version[i] ELSE stored[i]]

\* A GitHub listing whose items are stored as they come.
FetchFlat ==
  LET w == Resume
  IN  /\ \E more \in MorePages(w) : Save([w EXCEPT !.page = @ + 1], MoreParents(w, more))
      /\ Stores(Kept(w))
      /\ UNCHANGED <<forge, feed, details, reviews, comments>>
      /\ Found

FetchIssues == feed = "github_issues" /\ FetchFlat
FetchComments == feed = "github_comments" /\ FetchFlat
FetchInlineComments == feed = "github_inline" /\ FetchFlat

\* A listing whose pull requests have to be visited before its next page.
ReadParents(w) ==
  \E more \in MorePages(w) :
    LET parents == MoreParents(w, more)
        prs == IF feed = "forgejo_comments" THEN <<>> ELSE Sorted(Kept(w) \cap PRs, Before)
    IN  Save([w EXCEPT !.page = @ + 1, !.moreParents = parents, !.pending = prs],
             parents \/ prs # <<>>)

FetchParents ==
  LET w == Resume
  IN  /\ feed = "github_reviews"
      /\ w.pending = <<>>
      /\ ReadParents(w)
      /\ UNCHANGED <<forge, feed, database>>
      /\ Found

\* Forgejo bounds the listing above (Listed): all of the page is kept.
FetchForgejoListing ==
  LET w == Resume
  IN  /\ Forgejo
      /\ w.pending = <<>>
      /\ ReadParents(w)
      /\ Stores(IF feed = "forgejo_reviews" THEN {} ELSE Kept(w))
      /\ UNCHANGED <<forge, feed, details, reviews, comments>>
      /\ Found

Done(w) == [w EXCEPT !.pending = Tail(@), !.childPage = 1]
MoreWork(w) == w.pending # <<>> \/ w.moreParents

\* A pull request's details replace the record made from the listing; if it is
\* gone the record stays.
FetchDetails ==
  LET w == Resume
      pr == Head(w.pending)
  IN  /\ feed = "forgejo_issues"
      /\ w.pending # <<>>
      /\ IF Exists(pr)
         THEN /\ stored' = [stored EXCEPT ![pr] = version[pr]]
              /\ details' = [details EXCEPT ![pr] = version[pr]]
         ELSE UNCHANGED <<stored, details>>
      /\ LET rest == [w EXCEPT !.pending = Tail(@)]
         IN  Save(rest, MoreWork(rest))
      /\ UNCHANGED <<forge, feed, reviews, comments>>
      /\ Found

\* One page of a pull request's reviews, none when it is gone.
ChildPage(w, pr) ==
  IF ~Exists(pr) THEN {}
  ELSE {k \in ReviewsOf(pr) : k - (w.childPage - 1) * ChildPageSize \in 1..ChildPageSize}

MoreChildren(w, pr) ==
  IF ~Exists(pr) THEN {FALSE}
  ELSE {\E k \in ReviewsOf(pr) : k > w.childPage * ChildPageSize,
        Cardinality(ChildPage(w, pr)) = ChildPageSize}

\* Slip: the page number is not reset for the next pull request.
NextChildKeepsPage(w, more) ==
  IF more THEN [w EXCEPT !.childPage = @ + 1] ELSE [w EXCEPT !.pending = Tail(@)]

NextChild(w, more) ==
  IF more THEN [w EXCEPT !.childPage = @ + 1] ELSE Done(w)

\* GitHub: a pull request that is gone is an error there, and fails for ever.
FetchGitHubReviews ==
  LET w == Resume
      pr == Head(w.pending)
  IN  /\ feed = "github_reviews"
      /\ w.pending # <<>>
      /\ Exists(pr)
      /\ \E more \in MoreChildren(w, pr) :
           LET next == NextChild(w, more) IN Save(next, MoreWork(next))
      /\ reviews' = reviews \cup {<<pr, k>> : k \in ChildPage(w, pr)}
      /\ UNCHANGED <<forge, feed, stored, details, comments>>
      /\ Found

\* Forgejo: page 0 says that the last page of reviews has been read and only
\* the comments of the reviews in reviewIds are missing.
\* Slip: the last page of reviews leaves the page number as it is.
ReviewsReadOn(w, ids, more) ==
  IF ids = <<>> /\ ~more THEN Done(w)
  ELSE [w EXCEPT !.reviewIds = ids, !.childPage = IF more THEN @ + 1 ELSE @]

ReviewsRead(w, ids, more) ==
  IF ids = <<>> /\ ~more THEN Done(w)
  ELSE [w EXCEPT !.reviewIds = ids, !.childPage = IF more THEN @ + 1 ELSE 0]

FetchForgejoReviews ==
  LET w == Resume
      pr == Head(w.pending)
      page == ChildPage(w, pr)
  IN  /\ feed = "forgejo_reviews"
      /\ w.pending # <<>> /\ w.reviewIds = <<>>
      /\ \E more \in MoreChildren(w, pr) :
           LET next == ReviewsRead(w, Sorted(page, <), more)
           IN  Save(next, MoreWork(next))
      /\ reviews' = reviews \cup {<<pr, k>> : k \in page}
      /\ UNCHANGED <<forge, feed, stored, details, comments>>
      /\ Found

FetchReviewComments ==
  LET w == Resume
      pr == Head(w.pending)
      left == Tail(w.reviewIds)
  IN  /\ feed = "forgejo_reviews"
      /\ w.pending # <<>> /\ w.reviewIds # <<>>
      /\ comments' = IF Exists(pr) THEN comments \cup {<<pr, Head(w.reviewIds)>>} ELSE comments
      /\ LET rest == [w EXCEPT !.reviewIds = left]
             next == IF left = <<>> /\ w.childPage = 0 THEN Done(rest) ELSE rest
         IN  Save(next, MoreWork(next))
      /\ UNCHANGED <<forge, feed, stored, details, reviews>>
      /\ Found

Fetch ==
  \/ FetchIssues
  \/ FetchComments
  \/ FetchInlineComments
  \/ FetchParents
  \/ FetchForgejoListing
  \/ FetchDetails
  \/ FetchGitHubReviews
  \/ FetchForgejoReviews
  \/ FetchReviewComments

-----------------------------------------------------------------------------
(* The forge.                                                              *)

Tick ==
  /\ now < MaxTime
  /\ now' = now + 1
  /\ UNCHANGED <<version, edited, deleted, feed, cursor, database, slipped>>

\* What an edit or a deletion of item i moves from the unread part of the
\* listing to the part that has been read.
Slipping(i) ==
  IF ~InWindow THEN {}
  ELSE {k \in Listed(cursor) \ {i} : Rank(cursor, k) > ReadUpTo(cursor)
                                     /\ Rank(cursor, k)' <= ReadUpTo(cursor)}

Edits(v) == LET sum[n \in Nat] == IF n = 0 THEN 0 ELSE sum[n - 1] + (IF n \in Items THEN v[n] ELSE 0)
            IN  sum[Cardinality(Items)]

Edit(i) ==
  /\ now <= LastEdit
  /\ i \notin deleted
  /\ Edits(version) < Cardinality(First) + MaxEdits
  /\ version' = [version EXCEPT ![i] = @ + 1]
  /\ edited' = [edited EXCEPT ![i] = IF now > Lag THEN now - Lag ELSE 0]
  /\ UNCHANGED <<now, deleted, feed, cursor, database>>
  /\ slipped' = (slipped \cup {k \in Slipping(i) : ~IsCurrent(k)}) \ {i}

\* Pull requests stay on GitHub; an issue or a comment can be deleted, and on
\* Forgejo a pull request too.
Delete(i) ==
  /\ now <= LastEdit
  /\ Exists(i) /\ deleted = {}
  /\ feed = "github_reviews" => i \notin PRs
  /\ deleted' = {i}
  /\ UNCHANGED <<now, version, edited, feed, cursor, database>>
  /\ slipped' = (slipped \cup {k \in Slipping(i) : ~IsCurrent(k)}) \ {i}

Next ==
  \/ Fetch
  \/ Tick
  \/ \E i \in Items : Edit(i) \/ Delete(i)

Spec == Init /\ [][Next]_vars

(***************************************************************************)
(* Fairness: the clock goes on, and the queue runs a due job (SyncQueue,   *)
(* EveryDueJobRuns) against a forge that does not fail for ever.           *)
(***************************************************************************)
FairSpec == Spec /\ WF_vars(Tick) /\ WF_cursor(Fetch)

-----------------------------------------------------------------------------
(* Properties.                                                             *)

\* The work list in the cursor fits its phase: no work is left behind in a
\* complete window, reviews wait only under the pull request they belong to,
\* and page 0 is never asked for.
CursorOK ==
  cursor # NoCursor /\ ~IsLegacy =>
    /\ cursor.complete => cursor.pending = <<>>
    /\ cursor.pending = <<>> => cursor.childPage = 1 /\ cursor.reviewIds = <<>>
    /\ cursor.childPage = 0 => cursor.reviewIds # <<>>

\* No window ends in the future or before the last full sweep began, and the
\* database never holds a state the forge has not had.
TypeOK ==
  /\ now \in 0..MaxTime /\ feed \in Feeds /\ deleted \subseteq Items
  /\ version \in [Items -> Nat] /\ edited \in [Items -> 0..MaxTime]
  /\ stored \in [Items -> Nat] /\ details \in [Items -> Nat]
  /\ \A i \in Items : stored[i] <= version[i] /\ details[i] <= version[i]
  /\ \A r \in reviews : r[2] \in ReviewsOf(r[1])
  /\ comments \subseteq reviews
  /\ slipped \subseteq Items
  /\ cursor # NoCursor /\ ~IsLegacy =>
       /\ cursor.lastFull <= cursor.until /\ cursor.until <= now
       /\ \A n \in DOMAIN cursor.pending : cursor.pending[n] \in PRs
  /\ CursorOK

\* A window that is complete has found every item in its current state, but
\* for those that changed too late for it, which the next window starts early
\* enough to see, and those that slipped past the reader.
NothingElseMissed ==
  cursor # NoCursor /\ ~IsLegacy /\ cursor.complete =>
    \A i \in Items :
      \/ ~Exists(i)
      \/ IsCurrent(i)
      \/ i \in slipped
      \/ edited[i] >= cursor.until - Overlap

\* An item that slipped is not lost either: once the forge is quiet the
\* database ends up with every item's current state.
EventuallyMirrored == <>[](\A i \in Items : Exists(i) => IsCurrent(i))

\* A window ends, whatever work it has found on the way.
WindowsEnd == InWindow ~> ~InWindow
=============================================================================
