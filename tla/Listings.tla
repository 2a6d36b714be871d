------------------------------ MODULE Listings -------------------------------
(***************************************************************************)
(* The feeds that page through a listing (bkb-ingest/src/sources):         *)
(*   specs.rs         files of a repository tree, by number; the list is   *)
(*                    made once per process.  BIPs in pages, BOLTs, bLIPs, *)
(*                    LUDs and NUTs all in one page;                       *)
(*   optech.rs        files of a directory, by name, in numbered pages;    *)
(*   delving.rs       forum topics, latest activity first, in numbered     *)
(*                    pages;                                               *)
(*   mailing_list.rs  a month's messages, newest first, from an offset.    *)
(*                                                                         *)
(* The cursor is a place in a listing that changes between two pages.  An  *)
(* entry that cannot be fetched is skipped.  A fetch is fetch_page and the *)
(* commit of its page; one that fails as a whole changes nothing and is    *)
(* left out.                                                               *)
(***************************************************************************)
EXTENDS Integers, FiniteSets

CONSTANTS
  Adapters,     \* which of the adapters below are considered
  Items,        \* file numbers; topics and messages in the order they appear
  First,        \* the items there are at the start
  PageSize,     \* of BIPs, newsletters, topics; the entries of an Atom feed
  SmallPage,    \* a feed with fewer entries is taken for the month's last
  LastMonth,    \* bound
  MaxEdits,     \* bound: how often items change
  MaxGone,      \* bound: items that are removed or renamed
  MaxSkips,     \* bound: entries that are skipped
  MaxRestarts,  \* bound
  None

WholeLists == {"bolts", "blips", "luds", "nuts"}
Specs == {"bips"} \cup WholeLists
AllAdapters == Specs \cup {"optech", "delving", "mailing_list"}

ASSUME ListingsAssumption ==
  /\ Adapters \subseteq AllAdapters
  /\ IsFiniteSet(Items) /\ Items = 1..Cardinality(Items) /\ First \subseteq Items
  /\ PageSize \in Nat \ {0} /\ SmallPage \in 1..PageSize
  /\ LastMonth \in Nat \ {0}
  /\ None \notin [month : Nat, offset : Nat]

VARIABLES
  adapter,     \* which feed this job reads
  month,       \* the current month
  there,       \* the items there are
  version,     \* how often each has changed
  posted,      \* the month an item appeared in
  active,      \* when each topic was last active, in the order of activities
  edits,       \* how often items have changed
  gone,        \* the items that were removed, none of which comes back
  restarts,
  discovered,  \* the files the process has found, or None
  cursor,      \* what the job has saved
  resting,     \* whether the job waits for its poll interval
  stored,      \* stored[i]: the version of the item in the database, 0 if none
  skipped,     \* history: the entries that were skipped in the last attempt
  known,       \* history: the items there were when this pass (or the pass
               \* over their month) began, and still are
  moved        \* history: the items that have moved up the listing since, to a
               \* place the pass has read

listing == <<month, there, version, posted, active, edits, gone>>
history == <<skipped, known, moved>>
listingsVars == <<adapter, listing, restarts, discovered, cursor, resting, stored, history>>

At(m, offset) == [month |-> m, offset |-> offset]

ListingsInit ==
  /\ adapter \in Adapters
  /\ month = 1
  /\ there = First /\ version = [i \in Items |-> 1] /\ posted = [i \in Items |-> 1]
  /\ active = [i \in Items |-> i]
  /\ edits = 0 /\ gone = {} /\ restarts = 0
  /\ discovered = None
  /\ cursor = None /\ resting = FALSE
  /\ stored = [i \in Items |-> 0]
  /\ skipped = {} /\ known = {} /\ moved = {}

-----------------------------------------------------------------------------
(* The listing, and what a page of it brings.                              *)

\* The listing as the source sees it: a spec source its list of files, the
\* others what the server has now.
Listed(m) ==
  CASE adapter \in Specs        -> discovered
    [] adapter = "mailing_list" -> {i \in there : posted[i] = m}
    [] OTHER                    -> there

\* Files in order, the topic with the latest activity and the newest message
\* first.
Before(i, k) ==
  CASE adapter = "delving"      -> active[i] > active[k]
    [] adapter = "mailing_list" -> i > k
    [] OTHER                    -> i < k

Rank(m, i) == Cardinality({k \in Listed(m) : Before(k, i)}) + 1

Where == IF cursor = None THEN At(1, 0) ELSE cursor

PageAt(at) == {i \in Listed(at.month) : Rank(at.month, i) - at.offset \in 1..PageSize}

\* Each entry is fetched by itself; one that is gone, or fails, is skipped.
Fetched(page) ==
  \E failing \in SUBSET page :
    LET read == (page \cap there) \ failing
    IN  /\ stored' = [i \in Items |-> IF i \in read THEN version[i] ELSE stored[i]]
        /\ skipped' = (skipped \ read) \cup failing
        /\ Cardinality(skipped') <= MaxSkips

Continue(at) == cursor' = at /\ resting' = FALSE
Rest == UNCHANGED cursor /\ resting' = TRUE

\* History: a pass begins at the head of the listing.
Pass(at) ==
  IF at.offset > 0 THEN UNCHANGED <<known, moved>>
  ELSE IF adapter = "mailing_list"
       THEN known' = known \cup {i \in there : posted[i] = at.month} /\ UNCHANGED moved
       ELSE known' = (IF adapter \in Specs THEN {} ELSE there) /\ moved' = {}

-----------------------------------------------------------------------------
(* specs.rs.                                                               *)

\* One request lists the repository; the list is kept until the process ends.
Discover ==
  /\ adapter \in Specs /\ ~resting
  /\ discovered = None
  /\ discovered' = there
  /\ UNCHANGED <<adapter, listing, restarts, cursor, resting, stored, history>>

\* Slip: the last page is thought to be there once more.
MoreFilesPast(at, all) == at.offset <= Cardinality(all)

MoreFiles(at, all) == at.offset + PageSize < Cardinality(all)

\* The slice all_files[start..] panics beyond the list.
InList == Where.offset <= Cardinality(discovered)

FetchBips ==
  LET at == Where
      page == PageAt(at)
  IN  /\ adapter = "bips" /\ ~resting
      /\ discovered # None /\ InList
      /\ Fetched(page)
      /\ Pass(at)
      /\ IF MoreFiles(at, discovered) THEN Continue(At(1, at.offset + PageSize)) ELSE Rest
      /\ UNCHANGED <<adapter, listing, restarts, discovered>>

\* The whole list, whatever the cursor says.
FetchWholeList(a) ==
  /\ adapter = a /\ ~resting
  /\ discovered # None
  /\ Fetched(discovered)
  /\ Pass(At(1, 0))
  /\ Rest
  /\ UNCHANGED <<adapter, listing, restarts, discovered>>

FetchBolts == FetchWholeList("bolts")
FetchBlips == FetchWholeList("blips")
FetchLuds  == FetchWholeList("luds")
FetchNuts  == FetchWholeList("nuts")

-----------------------------------------------------------------------------
(* optech.rs and delving.rs: a full page has a successor.                  *)

\* Slip: a page is full only if it is longer than it can be.
FullPageNever(page) == Cardinality(page) > PageSize

FullPage(page) == Cardinality(page) >= PageSize

FetchNumberedPage(a) ==
  LET at == Where
      page == PageAt(at)
  IN  /\ adapter = a /\ ~resting
      /\ Fetched(page)
      /\ Pass(at)
      /\ IF FullPage(page) THEN Continue(At(1, at.offset + PageSize)) ELSE Rest
      /\ UNCHANGED <<adapter, listing, restarts, discovered>>

FetchNewsletters == FetchNumberedPage("optech")
FetchTopics      == FetchNumberedPage("delving")

-----------------------------------------------------------------------------
(* mailing_list.rs.                                                        *)

\* Slip: a full feed is taken for the month's last page.
FullFeedBig(page) == Cardinality(page) > SmallPage

FullFeed(page) == Cardinality(page) >= SmallPage

NextMonth(at) == At(at.month + 1, 0)

AfterSmallPage(at) == IF at.month < month THEN NextMonth(at) ELSE At(at.month, 0)

FetchMonth ==
  LET at == Where
      page == PageAt(at)
  IN  /\ adapter = "mailing_list" /\ ~resting
      /\ page # {}
      /\ Fetched(page)
      /\ Pass(at)
      /\ Continue(IF FullFeed(page) THEN At(at.month, at.offset + Cardinality(page))
                  ELSE AfterSmallPage(at))
      /\ UNCHANGED <<adapter, listing, restarts, discovered>>

FetchEmptyMonth ==
  LET at == Where
  IN  /\ adapter = "mailing_list" /\ ~resting
      /\ PageAt(at) = {}
      /\ IF at.month < month THEN Continue(NextMonth(at)) ELSE Rest
      /\ Pass(at)
      /\ UNCHANGED <<adapter, listing, restarts, discovered, stored, skipped>>

Fetch ==
  \/ Discover \/ FetchBips \/ FetchBolts \/ FetchBlips \/ FetchLuds \/ FetchNuts
  \/ FetchNewsletters \/ FetchTopics \/ FetchMonth \/ FetchEmptyMonth

-----------------------------------------------------------------------------
(* The server, the poll interval and the process.                          *)

\* A topic becomes the one with the latest activity.
Activate(i) ==
  active' = [active EXCEPT ![i] = Cardinality(Items) + Cardinality(there' \cup gone') + edits']

\* A file appears anywhere in its list, a newsletter at the end (unless it is
\* another one renamed), a topic or a message at the head.
Appear(i) ==
  /\ i \in Items \ (there \cup gone)
  /\ adapter \in Specs \/ (adapter = "optech" /\ gone # {}) \/ \A k \in there : k < i
  /\ there' = there \cup {i}
  /\ posted' = [posted EXCEPT ![i] = month]
  /\ UNCHANGED <<adapter, month, version, edits, gone, restarts, discovered, cursor, resting>>
  /\ IF adapter = "delving" THEN Activate(i) ELSE UNCHANGED active
  /\ UNCHANGED <<stored, history>>

\* A file is edited, a topic answered; messages stay as they are.
Edit(i) ==
  /\ adapter # "mailing_list"
  /\ i \in there /\ edits < MaxEdits
  /\ edits' = edits + 1
  /\ version' = [version EXCEPT ![i] = @ + 1]
  /\ UNCHANGED <<adapter, month, there, posted, gone, restarts, discovered>>
  /\ IF adapter = "delving" THEN Activate(i) /\ moved' = moved \cup {i}
     ELSE UNCHANGED <<active, moved>>
  /\ UNCHANGED <<cursor, resting, stored, skipped, known>>

\* The first entry of the next page slips to the end of the page before it
\* when an entry above it goes.
Slipping(i) ==
  {k \in Listed(Where.month) : Before(i, k) /\ Rank(Where.month, k) = Where.offset + 1}

\* An item is removed, or renamed.  A spec source sees it when it makes a new
\* list, the others at once.
Remove(i) ==
  /\ i \in there /\ Cardinality(gone) < MaxGone
  /\ there' = there \ {i}
  /\ gone' = gone \cup {i}
  /\ IF adapter \in Specs THEN UNCHANGED <<known, moved>>
     ELSE known' = known \ {i} /\ moved' = moved \cup Slipping(i)
  /\ UNCHANGED <<adapter, month, version, posted, active, edits, restarts, discovered>>
  /\ UNCHANGED <<cursor, resting, stored, skipped>>

TurnMonth ==
  /\ adapter = "mailing_list" /\ month < LastMonth
  /\ month' = month + 1
  /\ UNCHANGED <<adapter, there, version, posted, active, edits, gone, restarts, discovered>>
  /\ UNCHANGED <<cursor, resting, stored, history>>

Wake ==
  /\ resting
  /\ resting' = FALSE
  /\ UNCHANGED <<adapter, listing, restarts, discovered, cursor, stored, history>>

\* A process that ends and is started again, or panicked, has no list.
Restart ==
  /\ adapter \in Specs /\ restarts < MaxRestarts
  /\ restarts' = restarts + 1
  /\ discovered' = None
  /\ UNCHANGED <<adapter, listing, cursor, resting, stored, history>>

ListingsNext ==
  \/ Fetch \/ Wake \/ Restart \/ TurnMonth
  \/ \E i \in Items : Appear(i) \/ Edit(i) \/ Remove(i)

ListingsSpec == ListingsInit /\ [][ListingsNext]_listingsVars

(***************************************************************************)
(* Fairness: the queue runs the job when it is due, and a page that is     *)
(* asked for again and again comes without an error at last.               *)
(***************************************************************************)
NoError ==
  /\ Fetch /\ discovered' = discovered
  /\ skipped' \cap (IF adapter \in WholeLists THEN discovered ELSE PageAt(Where)) = {}

ListingsFairSpec ==
  /\ ListingsSpec
  /\ WF_listingsVars(Fetch) /\ WF_listingsVars(Wake) /\ SF_listingsVars(NoError)

-----------------------------------------------------------------------------
(* Properties.                                                             *)

\* No version is stored that has not been, and the cursor names no month that
\* has not begun.
ListingsTypeOK ==
  /\ adapter \in Adapters /\ month \in 1..LastMonth
  /\ there \subseteq Items /\ posted \in [Items -> 1..LastMonth]
  /\ \A i \in Items : stored[i] <= version[i]
  /\ resting \in BOOLEAN
  /\ skipped \cup known \cup moved \cup gone \subseteq Items
  /\ cursor # None => cursor.month \in 1..month /\ cursor.offset \in Nat

\* When a pass over a numbered listing is over, it has read what was there at
\* its beginning and stayed.  Left out are an entry that was skipped, a topic
\* that moved to the head while the pass was under way, and the entry that
\* slipped onto a page already read because one above it was removed.
PassReadsAll ==
  adapter \in {"optech", "delving"} /\ resting =>
    \A i \in known : stored[i] > 0 \/ i \in skipped \/ i \in moved

\* A month that the cursor has left is read: only messages that were skipped,
\* slipped because a newer one was removed, or arrived after the head of the
\* listing was read for the last time, are missing - and are missing for good.
MonthIsRead ==
  adapter = "mailing_list" /\ cursor # None /\ cursor.offset = 0 =>
    \A i \in known :
      posted[i] < cursor.month => stored[i] > 0 \/ i \in skipped \/ i \in moved

\* What a pass over a listing, or a month, promises when it is over.
PassesReadAll ==
  /\ ListingsTypeOK
  /\ PassReadsAll
  /\ MonthIsRead

\* The next run of a spec source panics on the slice only when two files have
\* gone from the list between two runs of the process.
PanicsNeedTwoGone ==
  adapter = "bips" /\ discovered # None /\ Cardinality(gone) < 2 => InList

\* In the end every file that a one-page spec source has found is stored in
\* its last version, and so is a newsletter that stands on the page the cursor
\* stops at, or behind it.
InReach(i) ==
  \/ adapter = "optech" /\ i \in there \ skipped /\ Rank(1, i) > Where.offset
  \/ adapter \in WholeLists /\ discovered # None /\ i \in discovered \cap there

\* Any other newsletter is stored in some version, if none was removed: the
\* pages before the last are never read again, so an edit of theirs is not seen,
\* nor a newsletter that appears on one of them after a removal.
InOrder(i) == adapter = "optech" /\ gone = {} /\ i \in there \ skipped

EventuallyStored ==
  \A i \in Items :
    /\ <>[]InReach(i) => <>[](stored[i] = version[i])
    /\ <>[]InOrder(i) => <>[](stored[i] > 0)

\* What DESIGN.md promises: "Always fresh: hourly incremental sync" - what is
\* there is stored in the end.
AlwaysFresh == \A i \in Items : <>[](i \in there => stored[i] = version[i])
=============================================================================
