------------------------------ MODULE Archives -------------------------------
(***************************************************************************)
(* The feeds that walk an archive by number (bkb-ingest/src/sources):      *)
(*   irc.rs           one log per day, the next day's after it;            *)
(*   mail_archive.rs  messages msg00001, msg00002, ... of a closed list;   *)
(*   bitcointalk.rs   topics by id, then ("tail") the recent posts page.   *)
(*                                                                         *)
(* The places of an archive are numbers.  A place may be empty for ever,   *)
(* be filled late, and a topic or a log keeps growing.  The adapter holds  *)
(* no state: its cursor says which place comes next, and whatever the      *)
(* cursor has passed is read again only by bitcointalk's tail.             *)
(*                                                                         *)
(* A fetch is fetch_page and the commit of its page.  A page that fails as *)
(* a whole changes nothing and is left out.                                *)
(***************************************************************************)
EXTENDS Integers, Sequences, FiniteSets, FiniteSetsExt

CONSTANTS
  Adapters,      \* which of the adapters below are considered
  Last,          \* bound: the highest place
  MaxPosts,      \* bound: how often a place changes
  MaxLosses,     \* bound: messages that are skipped because of an error
  PageSize,      \* PAGE_SIZE of mail_archive
  MaxMissing,    \* consecutive 404s that end a page of mail_archive
  MaxMisses,     \* max_consecutive_misses of bitcointalk
  RecentTopics,  \* how many topics the recent posts page shows
  OffBoard,      \* topics of boards that are not whitelisted
  NoCursor

ASSUME AdaptersAssumption == Adapters \subseteq {"irc", "mail_archive", "bitcointalk"}

ASSUME BoundsAssumption ==
  /\ Last \in Nat \ {0} /\ MaxPosts \in Nat \ {0} /\ MaxLosses \in Nat
  /\ PageSize \in Nat \ {0} /\ MaxMissing \in Nat \ {0} /\ MaxMisses \in Nat \ {0}
  /\ RecentTopics \in Nat /\ OffBoard \subseteq 1..Last

Places == 1..Last

VARIABLES
  adapter,   \* which feed this job reads
  end,       \* the highest place there has been so far; for irc the day, today
  posts,     \* posts[p]: how often place p has changed, 0 while it is empty;
             \* for a topic, how many posts it has
  recent,    \* the places by their last change, the latest first
  cursor,    \* what the job has saved
  resting,   \* whether the job waits for its poll interval
  stored,    \* stored[p]: the state of p in the database, 0 if none
  lost,      \* history: the messages whose error was skipped
  boardless, \* history: the topics whose page showed no board when asked for
  cut,       \* history: the topics passed although a later page was a 404
  behind     \* history: what each place was when the cursor went past it

archive == <<end, posts, recent>>
faults == <<lost, boardless, cut>>
vars == <<adapter, archive, cursor, resting, stored, faults, behind>>

NotPassed == -1

Init ==
  /\ adapter \in Adapters
  /\ end \in Places /\ posts \in [Places -> {0, 1}]
  /\ \A p \in Places : p >= end => posts[p] = 0
  /\ recent = <<>>
  /\ cursor = NoCursor /\ resting = FALSE
  /\ stored = [p \in Places |-> 0]
  /\ lost = {} /\ boardless = {} /\ cut = {} /\ behind = [p \in Places |-> NotPassed]

-----------------------------------------------------------------------------
(* The SyncPage contract: the next cursor, or the old one and a rest.      *)

Read(S) == stored' = [p \in Places |-> IF p \in S THEN posts[p] ELSE stored[p]]

Pass(S) == behind' = [p \in Places |-> IF p \in S THEN posts[p] ELSE behind[p]]

Continue(c) == cursor' = c /\ resting' = FALSE
Rest == UNCHANGED cursor /\ resting' = TRUE

-----------------------------------------------------------------------------
(* irc: a day's log is read when the day is over.                          *)

DayOver(d) == d < end

FetchLog ==
  LET day == IF cursor = NoCursor THEN 1 ELSE cursor
  IN  /\ adapter = "irc" /\ ~resting
      /\ IF DayOver(day)
         THEN Read({day}) /\ Pass({day}) /\ Continue(day + 1)
         ELSE UNCHANGED <<stored, behind>> /\ Rest
      /\ UNCHANGED <<adapter, archive, faults>>

-----------------------------------------------------------------------------
(* mail_archive: the next PageSize numbers, up to MaxMissing 404s in a row *)
(* that only a message ends; errors are skipped.                           *)

Found(p, failing) == p \in Places /\ posts[p] > 0 /\ p \notin failing
Missing(p, failing) == p \notin failing /\ (p \in Places => posts[p] = 0)

MissingRun(start, n, failing) ==
  Cardinality({k \in start..n : Missing(k, failing) /\ \A j \in k..n : ~Found(j, failing)})

\* Slip: one 404 too few ends the page.
VisitedLess(start, failing) ==
  {n \in start..start + PageSize - 1 :
     \A k \in start..n - 1 : MissingRun(start, k, failing) < MaxMissing - 1}

Visited(start, failing) ==
  {n \in start..start + PageSize - 1 :
     \A k \in start..n - 1 : MissingRun(start, k, failing) < MaxMissing}

\* Slip: the cursor goes to the end of the page, wherever the archive ends.
UpToPageEnd(start, read) == start + PageSize - 1

UpTo(start, read) == Max(read)

FetchMessages ==
  LET start == IF cursor = NoCursor THEN 1 ELSE cursor + 1
  IN  /\ adapter = "mail_archive" /\ ~resting
      /\ \E failing \in SUBSET (Places \cap start..start + PageSize - 1) :
           LET visited == Visited(start, failing)
               read == {n \in visited : Found(n, failing)}
               upto == UpTo(start, read)
               skipped == {n \in failing \cap visited : n < upto}
           IN  /\ failing \subseteq visited
               /\ Read(read)
               /\ IF read = {} THEN Rest /\ UNCHANGED <<behind, lost>>
                  ELSE /\ Continue(upto)
                       /\ Pass(Places \cap start..upto)
                       /\ lost' = lost \cup skipped
                       /\ Cardinality(lost') <= MaxLosses
      /\ UNCHANGED <<adapter, archive, boardless, cut>>

-----------------------------------------------------------------------------
(* bitcointalk: topic after topic until MaxMisses in a row are missing.    *)

Topic(id, misses) == [mode |-> "topic", id |-> id, misses |-> misses]
TailFrom(id) == [mode |-> "tail", id |-> id, misses |-> 0]

TopicCursor == IF cursor = NoCursor THEN Topic(1, 0) ELSE cursor

Exists(id) == id \in Places /\ posts[id] > 0

\* Slip: a topic does not end a run of missing ones.
AfterTopicKept(c) == Topic(c.id + 1, c.misses)

AfterTopic(c) == Topic(c.id + 1, 0)

AfterMiss(c) ==
  IF c.misses + 1 >= MaxMisses THEN TailFrom(c.id) ELSE Topic(c.id + 1, c.misses + 1)

\* One document for each post of a topic that was read, the first got[p] posts
\* of topic p: a page that is a 404 ends the topic before its last post.  Posts
\* that are stored already stay; a topic of another board is not stored.
StoreTopics(got) ==
  stored' = [p \in Places |->
               IF p \in DOMAIN got /\ p \notin OffBoard /\ got[p] > stored[p]
               THEN got[p] ELSE stored[p]]

\* fetch_topic, at least the first page of a topic whose board it shows.
FetchTopic ==
  LET c == TopicCursor
  IN  /\ adapter = "bitcointalk" /\ ~resting
      /\ c.mode = "topic" /\ Exists(c.id)
      /\ \E n \in 1..posts[c.id] :
           /\ StoreTopics([p \in {c.id} |-> n])
           /\ cut' = IF n < posts[c.id] THEN cut \cup {c.id} ELSE cut
      /\ Pass({c.id})
      /\ Continue(AfterTopic(c))
      /\ UNCHANGED <<adapter, archive, lost, boardless>>

\* A 404, or a page without a board, which an existing topic may have as well:
\* it counts as a miss.
MissTopic ==
  LET c == TopicCursor
  IN  /\ adapter = "bitcointalk" /\ ~resting
      /\ c.mode = "topic"
      /\ boardless' = IF Exists(c.id) THEN boardless \cup {c.id} ELSE boardless
      /\ Pass({c.id} \cap Places)
      /\ Continue(AfterMiss(c))
      /\ UNCHANGED <<adapter, archive, stored, lost, cut>>

\* The recent posts page: each topic on it is read again, as far as its pages
\* are there; one that is missing or fails is skipped.  The cursor stays.
Recent == {recent[n] : n \in 1..(IF Len(recent) < RecentTopics THEN Len(recent) ELSE RecentTopics)}

FetchRecent ==
  /\ adapter = "bitcointalk" /\ ~resting
  /\ TopicCursor.mode = "tail"
  /\ \E got \in [Recent -> 0..MaxPosts] :
       /\ \A p \in Recent : got[p] <= posts[p]
       /\ StoreTopics(got)
  /\ Rest
  /\ UNCHANGED <<adapter, archive, faults, behind>>

Fetch == FetchLog \/ FetchMessages \/ FetchTopic \/ MissTopic \/ FetchRecent

-----------------------------------------------------------------------------
(* The archive, and the poll interval.                                     *)

\* A place is filled, or one that is filled grows: a log grows on its day,
\* messages do not change, topics change for ever.
Post(p) ==
  /\ p < end \/ (adapter = "irc" /\ p = end)
  /\ posts[p] < MaxPosts
  /\ adapter = "irc" => p = end \/ posts[p] = 0
  /\ adapter = "mail_archive" => posts[p] = 0
  /\ posts' = [posts EXCEPT ![p] = @ + 1]
  /\ recent' = IF adapter = "bitcointalk"
               THEN <<p>> \o SelectSeq(recent, LAMBDA q : q # p) ELSE recent
  /\ UNCHANGED <<adapter, end, cursor, resting, stored, faults, behind>>

\* The next number is given out, the next day begins.
Extend ==
  /\ end < Last
  /\ end' = end + 1
  /\ UNCHANGED <<adapter, posts, recent, cursor, resting, stored, faults, behind>>

\* The poll interval is over.
Wake ==
  /\ resting
  /\ resting' = FALSE
  /\ UNCHANGED <<adapter, archive, cursor, stored, faults, behind>>

Next ==
  \/ Fetch
  \/ Wake
  \/ Extend
  \/ \E p \in Places : Post(p)

Spec == Init /\ [][Next]_vars

(***************************************************************************)
(* Fairness: the queue runs the job when it is due (SyncQueue), and a page *)
(* that is fetched again and again comes through without an error at last. *)
(***************************************************************************)
NoError ==
  /\ FetchMessages
  /\ LET start == IF cursor = NoCursor THEN 1 ELSE cursor + 1
     IN  \A p \in Visited(start, {}) \cap Places : posts[p] > 0 => stored'[p] = posts[p]

FairSpec == Spec /\ WF_vars(Fetch) /\ WF_vars(Wake) /\ SF_vars(NoError)

-----------------------------------------------------------------------------
(* Properties.                                                             *)

\* No state is stored that the archive has not had, and no day is passed that
\* is not over.
TypeOK ==
  /\ adapter \in Adapters /\ end \in Places
  /\ posts \in [Places -> 0..MaxPosts] /\ stored \in [Places -> 0..MaxPosts]
  /\ resting \in BOOLEAN
  /\ lost \subseteq Places /\ boardless \subseteq Places /\ cut \subseteq Places
  /\ behind \in [Places -> {NotPassed} \cup 0..MaxPosts]
  /\ \A p \in Places : stored[p] <= posts[p]
  /\ adapter = "irc" /\ cursor # NoCursor => cursor \in 2..end

\* What the cursor has passed is in the database as it was then, unless it was
\* empty, belongs to another board, its error was skipped, or its page showed no
\* board.  Of a topic that a 404 cut short the first posts at least are there.
PassedIsStored ==
  \A p \in Places :
    behind[p] > 0 =>
      \/ stored[p] >= behind[p]
      \/ p \in lost \cup boardless \cup OffBoard
      \/ p \in cut /\ stored[p] > 0

\* A message that was skipped, or was missing, lies before one that was found:
\* the cursor never moves into the part that is still to be published.
CursorAtMessage ==
  adapter = "mail_archive" /\ cursor # NoCursor =>
    cursor \in Places /\ stored[cursor] > 0

\* A log is stored only when it is complete, since no day is read twice.
OnlyWholeLogs ==
  adapter = "irc" => \A p \in Places : stored[p] \in {0, posts[p]}

\* A feed reads all it passes, of what its archive has had, but for the errors,
\* the missing boards and the missing pages it is told of on the way, and passes
\* no log or message that may still grow: what it does not read now it will
\* never read.
ReadsWhatItPasses ==
  /\ TypeOK
  /\ PassedIsStored
  /\ CursorAtMessage
  /\ OnlyWholeLogs

\* The topic walk ends only after a run of MaxMisses topics up to the cursor of
\* the tail each of which was missing, or showed no board, when it was asked
\* for.  Topics that are there are passed for good in this way only if their
\* pages show no board.
TailAfterGap ==
  adapter = "bitcointalk" /\ cursor # NoCursor /\ cursor.mode = "tail" =>
    \A p \in Places :
      p \in cursor.id - MaxMisses + 1..cursor.id => behind[p] = 0 \/ p \in boardless

\* A gap that stops a feed for good.
Gap(p, n) == \E q \in 1..p : \A k \in q..q + n - 1 : k <= p /\ posts[k] = 0

\* Every message is read, except one that was skipped, that came too late, or
\* that lies behind a gap.
MessagesAreRead ==
  \A p \in Places :
    adapter = "mail_archive" /\ posts[p] > 0 ~>
      stored[p] > 0 \/ p \in lost \/ behind[p] = 0 \/ Gap(p, MaxMissing)
=============================================================================
