---------------------------- MODULE Queue_proofs -----------------------------
(***************************************************************************)
(* Proofs about the two halves of the scheduler: what the queue stores     *)
(* (SyncQueue, for every set of sources, every feed, every page size and   *)
(* every bound on resets and crashes), and then when its jobs and their    *)
(* requests run (Pacing, for every quota, margin, window, clock lead, set  *)
(* of jobs and set of delays).                                             *)
(***************************************************************************)
EXTENDS SyncQueue, Pacing, SequenceTheorems, TLAPS


-----------------------------------------------------------------------------
(* Lemmas.                                                                 *)

\* The table of reset patterns against the types the adapters write: a reset
\* deletes the row of every source that has documents of the type.
LEMMA TableIsComplete ==
  ASSUME NEW k, NEW t \in DocumentTypes(k)
  PROVE  k \in PatternsFor(t)
BY DEF DocumentTypes, PatternsFor

LEMMA ResetReachesProducers ==
  ASSUME NEW s \in Sources, NEW i \in DOMAIN Feed[s]
  PROVE  s \in SyncPatterns(Feed[s][i])
BY FeedAssumption, TableIsComplete DEF SyncPatterns

\* A page made by fetch_page from a cursor within what is published is well
\* formed, and the cursor stored after it is within what is published.
LEMMA FetchPageOK ==
  ASSUME NEW s \in Sources, NEW c \in Nat \cup {NoCursor}, TypeOK,
         Position(c) <= published[s]
  PROVE  PageOK(s, FetchPage(s, c)) /\ FetchPage(s, c).from = c
<1>1. /\ published[s] \in 0..Len(Feed[s]) /\ Len(Feed[s]) \in Nat
  BY SourcesAssumption DEF TypeOK, Published
<1>2. c \in Cursors(s)
  BY <1>1 DEF Cursors, Published, Position
<1>3. PageLimit \in Nat /\ PageLimit > 0 /\ NoCursor \notin Nat
  BY BoundsAssumption
<1>4. Position(c) \in Nat
  BY DEF Position
<1> DEFINE upto == IF Position(c) + PageLimit < published[s]
                   THEN Position(c) + PageLimit ELSE published[s]
<1>5. upto \in Nat /\ Position(c) <= upto /\ upto <= published[s] /\ upto \in Published(s)
  BY <1>1, <1>3, <1>4 DEF Published
<1>6. QED
  BY <1>2, <1>5 DEF FetchPage, PageOK, Cursors

\* The server's connection finds the committed cursor, or none.
LEMMA RowsOK ==
  ASSUME NEW s \in Sources, NEW row \in Rows(s)
  PROVE  row \in {synced[s], NoCursor}
BY DEF Rows

LEMMA CursorAfterOK ==
  ASSUME NEW s \in Sources, NEW p, PageOK(s, p)
  PROVE  /\ CursorAfter(p) \in Nat \cup {NoCursor}
         /\ Position(CursorAfter(p)) <= p.upto
         /\ CursorAfter(p) \in {p.upto, p.from}
         /\ p.upto \in Nat /\ Position(p.from) \in Nat
<1>1. Len(Feed[s]) \in Nat
  BY SourcesAssumption
<1>2. QED
  BY <1>1 DEF PageOK, CursorAfter, Cursors, Published, Position

-----------------------------------------------------------------------------
(* Type correctness.                                                       *)

LEMMA InitTypeOK == Init => TypeOK
<1> SUFFICES ASSUME Init PROVE TypeOK
  OBVIOUS
<1>1. \A s \in Sources : Len(Feed[s]) \in Nat
  BY SourcesAssumption
<1>2. ready \in Seq(Sources)
  BY EmptySeq DEF Init
<1>3. cli \in [source : Sources \cup {Nobody}, cursor : Nat \cup {NoCursor}, page : {cli.page}]
  BY DEF Init
<1>4. resets \in 0..MaxResets /\ crashes \in 0..MaxCrashes
  BY BoundsAssumption DEF Init
<1>5. \A s \in Sources : published[s] \in Published(s)
  <2> TAKE s \in Sources
  <2>1. Len(Feed[s]) \in Nat /\ published[s] = 0
    BY <1>1 DEF Init
  <2> QED
    BY <2>1 DEF Published
<1>6. \A s \in Sources : Position(synced[s]) <= published[s] /\ Position(cursor[s]) <= published[s]
  <2> TAKE s \in Sources
  <2>1. Position(NoCursor) = 0
    BY DEF Position
  <2>2. published[s] = 0 /\ synced[s] = NoCursor /\ cursor[s] = NoCursor
    BY DEF Init
  <2> QED
    BY <2>1, <2>2
<1>7. stored \subseteq Sources \X Nat
  BY DEF Init
<1>8. QED
  BY <1>2, <1>3, <1>4, <1>5, <1>6, <1>7 DEF Init, TypeOK

\* The steps of the queue task.
LEMMA QueueTypeOK ==
  ASSUME TypeOK, QueueStep
  PROVE  TypeOK'
<1>1. ASSUME NEW readable \in RowReads, StartJob(readable) PROVE TypeOK'
  <2>1. Head(ready) \in Sources /\ Tail(ready) \in Seq(Sources)
    BY <1>1, HeadTailProperties DEF TypeOK, StartJob
  <2>2. PICK row \in Rows(Head(ready)) :
          /\ cursor' = [cursor EXCEPT ![Head(ready)] = CheckedCursor(Head(ready), readable, row)]
          /\ stale' = [stale EXCEPT ![Head(ready)] =
                         @ /\ CheckedCursor(Head(ready), readable, row) # NoCursor]
    BY <1>1 DEF StartJob
  <2>3. CheckedCursor(Head(ready), readable, row) \in {NoCursor, cursor[Head(ready)]}
    BY DEF CheckedCursor
  <2>4. Position(NoCursor) = 0
    BY DEF Position
  <2> QED
    <3>1. hit' \in BOOLEAN /\ UNCHANGED <<published, durable, toAdd, asleep, page, cli, cliStale, open, resets, crashes>>
      BY <1>1 DEF StartJob
    <3>2. /\ cursor' \in [Sources -> Nat \cup {NoCursor}] /\ stale' \in [Sources -> BOOLEAN]
          /\ \A q \in Sources : Position(cursor'[q]) <= published[q]
          /\ running' \in Sources /\ toAdd = {} /\ page = NoPage /\ ready' \in Seq(Sources)
      BY <1>1, <2>1, <2>2, <2>3, <2>4 DEF TypeOK, StartJob
    <3> QED
      BY <3>1, <3>2 DEF TypeOK, durable, PageOK, Published, Cursors
<1>2. CASE FetchOk
  <2>1. running \in Sources /\ cursor[running] \in Nat \cup {NoCursor}
        /\ Position(cursor[running]) <= published[running]
    BY <1>2 DEF TypeOK, FetchOk
  <2>2. PageOK(running, page') /\ page'.from = cursor[running]
    BY <1>2, <2>1, FetchPageOK DEF FetchOk
  <2> QED
    BY <1>2, <2>2 DEF TypeOK, FetchOk, durable, queue, PageOK, Published, Cursors
<1>3. CASE GiveUp
  BY <1>3 DEF TypeOK, GiveUp, durable, queue, PageOK, Published, Cursors
<1>4. CASE StoreOk
  <2>1. running \in Sources /\ PageOK(running, page) /\ page.upto <= published[running]
    BY <1>4 DEF TypeOK, StoreOk, PageOK
  <2>2. /\ CursorAfter(page) \in Nat \cup {NoCursor}
        /\ Position(CursorAfter(page)) <= published[running]
        /\ {<<running, i>> : i \in Position(page.from)+1..page.upto} \subseteq Sources \X Nat
    BY <2>1, CursorAfterOK DEF TypeOK, Position
  <2>3. /\ ready' \in Seq(Sources) /\ asleep' \subseteq Sources
    <3>1. Append(ready, running) \in Seq(Sources)
      BY <2>1, AppendProperties DEF TypeOK
    <3>2. (ready' = Append(ready, running) /\ asleep' = asleep)
          \/ (ready' = ready /\ asleep' = asleep \cup {running})
      BY <1>4 DEF StoreOk, Requeue
    <3> QED
      BY <2>1, <3>1, <3>2 DEF TypeOK
  <2>4. /\ stored' \subseteq Sources \X Nat
        /\ synced' \in [Sources -> Nat \cup {NoCursor}]
        /\ torn' \in [Sources -> BOOLEAN]
        /\ \A s \in Sources : Position(synced'[s]) <= published[s]
    BY <1>4, <2>1, <2>2 DEF TypeOK, StoreOk, StorePage
  <2> QED
    BY <1>4, <2>1, <2>2, <2>3, <2>4 DEF TypeOK, StoreOk, PageOK, Published, Cursors
<1>5. QED
  BY <1>1, <1>2, <1>3, <1>4 DEF QueueStep

\* The steps of the command line process.
LEMMA CliTypeOK ==
  ASSUME TypeOK, CliStep
  PROVE  TypeOK'
<1>1. ASSUME NEW s \in CliSources, CliStart(s) PROVE TypeOK'
  BY <1>1, SourcesAssumption DEF TypeOK, CliStart, durable, queue, PageOK, Published, Cursors
<1>2. CASE CliFetch
  <2>1. cli.source \in Sources /\ cli.cursor \in Nat \cup {NoCursor}
        /\ Position(cli.cursor) <= published[cli.source]
    BY <1>2 DEF TypeOK, CliFetch
  <2> DEFINE p == FetchPage(cli.source, cli.cursor)
  <2>2. PageOK(cli.source, p) /\ p.from = cli.cursor
    BY <2>1, FetchPageOK
  <2>3. cli'.source = cli.source /\ cli'.cursor = cli.cursor /\ cli'.page = p
        /\ cli' \in [source : Sources \cup {Nobody}, cursor : Nat \cup {NoCursor}, page : {cli'.page}]
    BY <1>2 DEF TypeOK, CliFetch
  <2> HIDE DEF p
  <2> QED
    BY <1>2, <2>1, <2>2, <2>3 DEF TypeOK, CliFetch, durable, queue, PageOK, Published, Cursors
<1>3. CASE CliExit
  BY <1>3 DEF TypeOK, CliExit, durable, queue, PageOK, Published, Cursors, Position
<1>4. CASE CliStore
  <2>1. cli.source \in Sources /\ PageOK(cli.source, cli.page) /\ cli.page.upto <= published[cli.source]
    BY <1>4 DEF TypeOK, CliStore, PageOK
  <2>2. /\ CursorAfter(cli.page) \in Nat \cup {NoCursor}
        /\ Position(CursorAfter(cli.page)) <= published[cli.source]
        /\ {<<cli.source, i>> : i \in Position(cli.page.from)+1..cli.page.upto} \subseteq Sources \X Nat
    BY <2>1, CursorAfterOK DEF TypeOK, Position
  <2>3. /\ stored' \subseteq Sources \X Nat
        /\ synced' \in [Sources -> Nat \cup {NoCursor}]
        /\ torn' \in [Sources -> BOOLEAN]
        /\ \A s \in Sources : Position(synced'[s]) <= published[s]
    BY <1>4, <2>1, <2>2 DEF TypeOK, CliStore, StorePage
  <2>4. /\ cli'.page = NoPage
        /\ cli' \in [source : Sources \cup {Nobody}, cursor : Nat \cup {NoCursor}, page : {cli'.page}]
        /\ cli'.source # Nobody => Position(cli'.cursor) <= published[cli'.source]
    BY <1>4, <2>1, <2>2 DEF TypeOK, CliStore
  <2> QED
    BY <1>4, <2>3, <2>4 DEF TypeOK, CliStore, queue, PageOK, Published, Cursors
<1>5. QED
  BY <1>1, <1>2, <1>3, <1>4 DEF CliStep

LEMMA StepTypeOK == TypeOK /\ [Next]_vars => TypeOK'
<1> SUFFICES ASSUME TypeOK, [Next]_vars PROVE TypeOK'
  OBVIOUS
<1>1. ASSUME NEW s \in Sources, Publish(s) PROVE TypeOK'
  <2>1. \A r \in Sources : /\ published[r] \in Nat /\ published'[r] \in Nat
                          /\ published[r] <= published'[r] /\ published'[r] \in Published(r)
    BY <1>1, SourcesAssumption DEF TypeOK, Publish, Published
  <2>2. \A c \in Nat \cup {NoCursor} : Position(c) \in Nat
    BY DEF Position
  <2>3. \A r \in Sources : Len(Feed[r]) \in Nat
    BY SourcesAssumption
  <2>4. \A r \in Sources : Position(synced[r]) <= published'[r] /\ Position(cursor[r]) <= published'[r]
    <3> TAKE r \in Sources
    <3>1. /\ Position(synced[r]) \in Nat /\ Position(cursor[r]) \in Nat
          /\ Position(synced[r]) <= published[r] /\ Position(cursor[r]) <= published[r]
      BY <2>2 DEF TypeOK
    <3> QED
      BY <2>1, <3>1
  <2>5. \A p : \A r \in Sources : PageOK(r, p) => PageOK(r, p)'
    BY <2>1, <2>3 DEF PageOK, Published, Cursors, TypeOK
  <2>6. cli.source # Nobody => Position(cli.cursor) <= published'[cli.source]
    BY <2>1, <2>2 DEF TypeOK
  <2> QED
    BY <1>1, <2>1, <2>4, <2>5, <2>6 DEF TypeOK, Publish, durable, queue
<1>2. ASSUME NEW s \in Sources, AddJob(s) PROVE TypeOK'
  <2>1. ready' \in Seq(Sources)
    BY <1>2, AppendProperties DEF TypeOK, AddJob
  <2> QED
    <3>1. PICK c \in {synced[s], NoCursor} : cursor' = [cursor EXCEPT ![s] = c]
      BY <1>2, RowsOK DEF AddJob
    <3>2. c \in Nat \cup {NoCursor} /\ Position(c) <= published[s]
      BY <3>1 DEF TypeOK, Position
    <3>3. running = Nobody /\ page = NoPage
      BY <1>2 DEF TypeOK, AddJob
    <3>4. /\ cursor' \in [Sources -> Nat \cup {NoCursor}]
          /\ \A r \in Sources : Position(cursor'[r]) <= published[r]
      BY <3>1, <3>2 DEF TypeOK
    <3> QED
      BY <1>2, <2>1, <3>1, <3>2, <3>3, <3>4 DEF TypeOK, AddJob, durable, PageOK, Published, Cursors
<1>3. ASSUME NEW s \in Sources, Wake(s) PROVE TypeOK'
  <2>1. ready' \in Seq(Sources)
    BY <1>3, AppendProperties DEF TypeOK, Wake
  <2> QED
    BY <1>3, <2>1 DEF TypeOK, Wake, durable, PageOK, Published, Cursors
<1>4. CASE Crash
  <2>1. ready' \in Seq(Sources)
    BY <1>4, EmptySeq DEF Crash
  <2> QED
    <3>1. hit' \in BOOLEAN /\ UNCHANGED <<published, durable, cli, cliStale, resets>>
      BY <1>4 DEF Crash
    <3>2. /\ cursor' \in [Sources -> Nat \cup {NoCursor}] /\ stale' \in [Sources -> BOOLEAN]
          /\ \A q \in Sources : Position(cursor'[q]) <= published[q]
          /\ toAdd' = Sources /\ asleep' = {} /\ running' = Nobody /\ page' = NoPage /\ open' = {}
          /\ crashes' \in 0..MaxCrashes
      BY <1>4, BoundsAssumption DEF TypeOK, Crash, Position
    <3> QED
      BY <2>1, <3>1, <3>2 DEF TypeOK, durable, PageOK, Published, Cursors
<1>5. ASSUME NEW t \in Types, Reset(t) PROVE TypeOK'
  <2>1. \A r \in Sources : published[r] \in Nat /\ Position(NoCursor) <= published[r]
    BY DEF TypeOK, Position
  <2>2. /\ synced' \in [Sources -> Nat \cup {NoCursor}]
        /\ \A r \in Sources : Position(synced'[r]) <= published[r]
    BY <1>5, <2>1 DEF TypeOK, Reset, DeleteType
  <2>3. stored' \subseteq Sources \X Nat
    BY <1>5 DEF TypeOK, Reset, DeleteType
  <2>4. /\ torn' \in [Sources -> BOOLEAN] /\ stale' \in [Sources -> BOOLEAN]
        /\ cliStale' \in BOOLEAN
    BY <1>5 DEF TypeOK, Reset
  <2>5. resets' \in 0..MaxResets
    BY <1>5, BoundsAssumption DEF TypeOK, Reset
  <2> QED
    BY <1>5, <2>2, <2>3, <2>4, <2>5 DEF TypeOK, Reset, PageOK, Published, Cursors
<1>6. ASSUME NEW t \in Types, ResetFails(t) PROVE TypeOK'
  <2>1. open' \subseteq Types /\ resets' \in 0..MaxResets
    BY <1>6, BoundsAssumption DEF TypeOK, ResetFails
  <2> QED
    BY <1>6, <2>1 DEF TypeOK, ResetFails, durable, queue, PageOK, Published, Cursors
<1>7. CASE UNCHANGED vars
  BY <1>7 DEF TypeOK, vars, durable, queue, PageOK, Published, Cursors
<1>8. QED
  BY <1>1, <1>2, <1>3, <1>4, <1>5, <1>6, <1>7, QueueTypeOK, CliTypeOK DEF Next

\* Every reachable state is well typed: in particular no cursor is beyond what
\* its source has published, and no page outlives the job that fetched it.
THEOREM TypeCorrect == Spec => []TypeOK
<1>1. QED
  BY InitTypeOK, StepTypeOK, PTL DEF Spec

-----------------------------------------------------------------------------
(* No gap before a cursor.                                                 *)

LEMMA CursorPosition ==
  ASSUME TypeOK, NEW s \in Sources
  PROVE  /\ Position(synced[s]) \in Nat /\ Position(cursor[s]) \in Nat
         /\ Position(cli.cursor) \in Nat
         /\ Position(NoCursor) = 0
         /\ published[s] \in Nat /\ published[s] <= Len(Feed[s]) /\ Len(Feed[s]) \in Nat
<1>1. Len(Feed[s]) \in Nat
  BY SourcesAssumption
<1>2. cli.cursor \in Nat \cup {NoCursor}
  BY DEF TypeOK
<1>3. QED
  BY <1>1, <1>2 DEF TypeOK, Position, Published

\* A page stored from a covered position leaves its source covered up to the
\* cursor that is stored with it.
LEMMA StorePageCovers ==
  ASSUME NEW s \in Sources, NEW p, PageOK(s, p), NEW obsolete,
         StorePage(s, p, obsolete), Covered(s, Position(p.from))
  PROVE  \A i \in 1..Position(CursorAfter(p)) : <<s, i>> \in stored'
<1>1. /\ p.upto \in Nat /\ Position(p.from) \in Nat
      /\ Position(CursorAfter(p)) <= p.upto
      /\ Position(CursorAfter(p)) \in Nat
  BY CursorAfterOK DEF Position
<1>2. \A i \in 1..p.upto : <<s, i>> \in stored'
  <2> TAKE i \in 1..p.upto
  <2>1. CASE i <= Position(p.from)
    BY <1>1, <2>1 DEF Covered, StorePage
  <2>2. CASE ~(i <= Position(p.from))
    BY <1>1, <2>2 DEF StorePage
  <2> QED
    BY <2>1, <2>2
<1>3. QED
  BY <1>1, <1>2

LEMMA InitCursorsCovered == Init => CursorsCovered
<1> SUFFICES ASSUME Init PROVE CursorsCovered
  OBVIOUS
<1>1. Position(NoCursor) = 0 /\ \A s \in Sources : Covered(s, 0)
  BY DEF Position, Covered
<1>2. QED
  BY <1>1 DEF Init, CursorsCovered

LEMMA StepCursorsCovered == IInv /\ [Next]_vars => CursorsCovered'
<1> SUFFICES ASSUME TypeOK, CursorsCovered, [Next]_vars PROVE CursorsCovered'
  BY DEF IInv
<1>0. Position(NoCursor) = 0 /\ \A s \in Sources : Covered(s, 0)
  BY DEF Position, Covered
<1>1. ASSUME NEW s \in Sources, Publish(s) PROVE CursorsCovered'
  BY <1>1 DEF CursorsCovered, Covered, Publish, durable, queue
<1>2. ASSUME NEW s \in Sources, AddJob(s) PROVE CursorsCovered'
  <2>1. PICK c \in {synced[s], NoCursor} : cursor' = [cursor EXCEPT ![s] = c]
    BY <1>2, RowsOK DEF AddJob
  <2>2. torn[s] \/ Covered(s, Position(c))
    BY <1>0, <2>1 DEF CursorsCovered
  <2> QED
    BY <1>2, <2>1, <2>2 DEF CursorsCovered, Covered, AddJob, durable, TypeOK
<1>3. ASSUME NEW s \in Sources, Wake(s) PROVE CursorsCovered'
  BY <1>3 DEF CursorsCovered, Covered, Wake, durable
<1>4. ASSUME NEW readable \in RowReads, StartJob(readable) PROVE CursorsCovered'
  <2> DEFINE s == Head(ready)
  <2>0. PICK row \in Rows(s) :
          /\ cursor' = [cursor EXCEPT ![s] = CheckedCursor(s, readable, row)]
          /\ stale' = [stale EXCEPT ![s] = @ /\ CheckedCursor(s, readable, row) # NoCursor]
    BY <1>4 DEF StartJob
  <2> DEFINE c == CheckedCursor(s, readable, row)
  <2>1. c \in {NoCursor, cursor[s]}
    BY DEF CheckedCursor
  <2>2. /\ cursor' = [cursor EXCEPT ![s] = c]
        /\ stale' = [stale EXCEPT ![s] = stale[s] /\ c # NoCursor]
        /\ UNCHANGED <<stored, synced, torn, cli, cliStale>>
    BY <1>4, <2>0 DEF StartJob, durable
  <2> HIDE DEF s, c
  <2> QED
    BY <1>0, <2>1, <2>2 DEF CursorsCovered, Covered, TypeOK
<1>5. CASE FetchOk
  BY <1>5 DEF CursorsCovered, Covered, FetchOk, durable
<1>6. CASE GiveUp
  BY <1>6 DEF CursorsCovered, Covered, GiveUp, durable
<1>7. CASE StoreOk
  <2> DEFINE c == CursorAfter(page)
  <2>1. running \in Sources /\ PageOK(running, page) /\ page.from = cursor[running]
    BY <1>7 DEF TypeOK, StoreOk
  <2>2. /\ StorePage(running, page, stale[running])
        /\ stored \subseteq stored'
        /\ synced' = [synced EXCEPT ![running] = c]
        /\ cursor' = [cursor EXCEPT ![running] = c]
        /\ stale' = [stale EXCEPT ![running] = FALSE]
        /\ torn' = [torn EXCEPT ![running] = torn[running] \/ stale[running]]
        /\ UNCHANGED <<cli, cliStale>>
    BY <1>7 DEF StoreOk, StorePage
  <2>3. torn[running] \/ stale[running] \/ \A i \in 1..Position(c) : <<running, i>> \in stored'
    <3>1. ASSUME ~torn[running], ~stale[running]
          PROVE  \A i \in 1..Position(c) : <<running, i>> \in stored'
      <4>1. Covered(running, Position(page.from))
        BY <2>1, <3>1 DEF CursorsCovered
      <4> QED
        BY <2>1, <2>2, <4>1, StorePageCovers
    <3> QED
      BY <3>1
  <2> HIDE DEF c
  <2> SUFFICES ASSUME NEW r \in Sources, ~torn'[r]
               PROVE  /\ Covered(r, Position(synced[r]))'
                      /\ stale'[r] \/ Covered(r, Position(cursor[r]))'
                      /\ cli'.source = r => cliStale' \/ Covered(r, Position(cli.cursor))'
    BY DEF CursorsCovered
  <2>5. CASE r = running
    BY <2>1, <2>2, <2>3, <2>5 DEF CursorsCovered, TypeOK, Covered
  <2>6. CASE r # running
    BY <2>1, <2>2, <2>6 DEF CursorsCovered, TypeOK, Covered
  <2> QED
    BY <2>5, <2>6
<1>8. CASE Crash
  BY <1>0, <1>8 DEF CursorsCovered, Covered, Crash, durable
<1>9. ASSUME NEW t \in Types, Reset(t) PROVE CursorsCovered'
  <2> SUFFICES ASSUME NEW r \in Sources, ~torn'[r]
               PROVE  /\ Covered(r, Position(synced[r]))'
                      /\ stale'[r] \/ Covered(r, Position(cursor[r]))'
                      /\ cli'.source = r => cliStale' \/ Covered(r, Position(cli.cursor))'
    BY DEF CursorsCovered
  <2>1. UNCHANGED <<cursor, cli>>
    BY <1>9 DEF Reset
  <2>2. CASE r \in SyncPatterns(t)
    <3>1. /\ synced'[r] = NoCursor
          /\ stale'[r] = (cursor[r] # NoCursor)
          /\ cli.source = r => cliStale' = (cli.cursor # NoCursor)
      BY <1>9, <2>2 DEF Reset, DeleteType
    <3>2. Covered(r, 0)'
      BY DEF Covered
    <3> QED
      BY <1>0, <2>1, <3>1, <3>2 DEF Covered
  <2>3. CASE r \notin SyncPatterns(t)
    <3>1. /\ synced'[r] = synced[r] /\ stale'[r] = stale[r] /\ ~torn[r]
          /\ cli.source = r => cliStale' = cliStale
      BY <1>9, <2>3 DEF Reset, DeleteType
    <3>2. ASSUME NEW n \in Nat, n <= published[r], Covered(r, n)
          PROVE  Covered(r, n)'
      <4>1. published[r] \in Nat /\ published[r] <= Len(Feed[r]) /\ Len(Feed[r]) \in Nat
        BY CursorPosition
      <4>2. \A i \in 1..n : i \in DOMAIN Feed[r] /\ Feed[r][i] # t
        BY <2>3, <3>2, <4>1, ResetReachesProducers, SourcesAssumption
      <4>3. stored' = {d \in stored : Feed[d[1]][d[2]] # t}
        BY <1>9 DEF Reset, DeleteType
      <4> QED
        BY <3>2, <4>2, <4>3 DEF Covered
    <3>3. /\ Position(synced[r]) \in Nat /\ Position(synced[r]) <= published[r]
          /\ Position(cursor[r]) \in Nat /\ Position(cursor[r]) <= published[r]
          /\ Position(cli.cursor) \in Nat
          /\ cli.source = r => Position(cli.cursor) <= published[r]
      BY CursorPosition, SourcesAssumption DEF TypeOK
    <3> QED
      BY <2>1, <3>1, <3>2, <3>3 DEF CursorsCovered, Covered
  <2> QED
    BY <2>2, <2>3
<1>10. ASSUME NEW s \in CliSources, CliStart(s) PROVE CursorsCovered'
  BY <1>10, SourcesAssumption DEF CursorsCovered, Covered, CliStart, durable, queue
<1>11. CASE CliFetch
  BY <1>11 DEF CursorsCovered, Covered, CliFetch, durable, queue, TypeOK
<1>12. CASE CliExit
  BY <1>12, SourcesAssumption DEF CursorsCovered, Covered, CliExit, durable, queue
<1>13. CASE CliStore
  <2> DEFINE c == CursorAfter(cli.page)
             s == cli.source
  <2>1. s \in Sources /\ PageOK(s, cli.page) /\ cli.page.from = cli.cursor
    BY <1>13 DEF TypeOK, CliStore
  <2>2. /\ StorePage(s, cli.page, cliStale)
        /\ stored \subseteq stored'
        /\ synced' = [synced EXCEPT ![s] = c]
        /\ torn' = [torn EXCEPT ![s] = torn[s] \/ cliStale]
        /\ UNCHANGED <<cursor, stale>>
        /\ cli'.source = Nobody \/ (cli'.source = s /\ cli'.cursor = c)
    BY <1>13 DEF CliStore, StorePage, queue, TypeOK
  <2>3. torn[s] \/ cliStale \/ \A i \in 1..Position(c) : <<s, i>> \in stored'
    <3>1. ASSUME ~torn[s], ~cliStale
          PROVE  \A i \in 1..Position(c) : <<s, i>> \in stored'
      <4>1. Covered(s, Position(cli.page.from))
        BY <2>1, <3>1 DEF CursorsCovered
      <4> QED
        BY <2>1, <2>2, <4>1, StorePageCovers
    <3> QED
      BY <3>1
  <2> HIDE DEF c, s
  <2> SUFFICES ASSUME NEW r \in Sources, ~torn'[r]
               PROVE  /\ Covered(r, Position(synced[r]))'
                      /\ stale'[r] \/ Covered(r, Position(cursor[r]))'
                      /\ cli'.source = r => cliStale' \/ Covered(r, Position(cli.cursor))'
    BY DEF CursorsCovered
  <2>5. CASE r = s
    BY <2>1, <2>2, <2>3, <2>5, SourcesAssumption DEF CursorsCovered, TypeOK, Covered
  <2>6. CASE r # s
    BY <2>1, <2>2, <2>6, SourcesAssumption DEF CursorsCovered, TypeOK, Covered
  <2> QED
    BY <2>5, <2>6
<1>14. ASSUME NEW t \in Types, ResetFails(t) PROVE CursorsCovered'
  BY <1>14 DEF CursorsCovered, Covered, ResetFails, durable, queue
<1>15. CASE UNCHANGED vars
  BY <1>15 DEF CursorsCovered, Covered, vars, durable, queue
<1>16. QED
  BY <1>1, <1>2, <1>3, <1>4, <1>5, <1>6, <1>7, <1>8, <1>9, <1>10, <1>11, <1>12, <1>13, <1>14,
     <1>15
     DEF Next, QueueStep, CliStep

LEMMA Inductive == Spec => []IInv
<1>1. Init => IInv
  BY InitTypeOK, InitCursorsCovered DEF IInv
<1>2. IInv /\ [Next]_vars => IInv'
  BY StepTypeOK, StepCursorsCovered DEF IInv
<1>3. QED
  BY <1>1, <1>2, PTL DEF Spec

\* The cursor in sync_state is never ahead of the documents in the database,
\* unless a page that continues from a cursor older than a reset was stored.
THEOREM NeverAhead == Spec => []NoGaps
<1>1. IInv => NoGaps
  BY DEF IInv, CursorsCovered, NoGaps
<1>2. QED
  BY <1>1, Inductive, PTL

-----------------------------------------------------------------------------
(* No job is lost or doubled.                                              *)

\* A job that is pushed back joins those that are due.
LEMMA PushedBack ==
  ASSUME TypeOK, OneHome, NEW s \in Sources, s \notin Ready, ready' = Append(ready, s)
  PROVE  /\ Ready' = Ready \cup {s}
         /\ \A i, j \in DOMAIN ready' : ready'[i] = ready'[j] => i = j
<1>1. ready \in Seq(Sources) /\ Len(ready) \in Nat /\ DOMAIN ready = 1..Len(ready)
  BY DEF TypeOK
<1>2. /\ DOMAIN ready' = 1..Len(ready) + 1
      /\ ready'[Len(ready) + 1] = s
      /\ \A i \in 1..Len(ready) : ready'[i] = ready[i]
  BY <1>1
<1>3. Ready' = Ready \cup {s}
  <2>1. Ready' = {ready'[i] : i \in 1..Len(ready) + 1} /\ Ready = {ready[i] : i \in 1..Len(ready)}
    BY <1>1, <1>2 DEF Ready
  <2>2. \A x \in Ready' : x \in Ready \cup {s}
    <3> SUFFICES ASSUME NEW i \in 1..Len(ready) + 1 PROVE ready'[i] \in Ready \cup {s}
      BY <2>1
    <3>1. CASE i = Len(ready) + 1
      BY <1>2, <3>1
    <3>2. CASE i # Len(ready) + 1
      BY <1>1, <1>2, <2>1, <3>2
    <3> QED
      BY <3>1, <3>2
  <2>3. s \in Ready'
    BY <1>1, <1>2, <2>1
  <2>4. \A x \in Ready : x \in Ready'
    <3> SUFFICES ASSUME NEW i \in 1..Len(ready) PROVE ready[i] \in Ready'
      BY <2>1
    <3> QED
      BY <1>1, <1>2, <2>1
  <2> QED
    BY <2>2, <2>3, <2>4
<1>4. \A i \in 1..Len(ready) : ready[i] # s
  BY <1>1 DEF Ready
<1>5. ASSUME NEW i \in 1..Len(ready) + 1, NEW j \in 1..Len(ready) + 1, ready'[i] = ready'[j]
      PROVE  i = j
  <2>1. CASE i \in 1..Len(ready) /\ j \in 1..Len(ready)
    BY <1>1, <1>2, <1>5, <2>1 DEF OneHome
  <2>2. CASE i = Len(ready) + 1 \/ j = Len(ready) + 1
    BY <1>1, <1>2, <1>4, <1>5, <2>2
  <2> QED
    BY <1>1, <2>1, <2>2
<1> QED
  BY <1>2, <1>3, <1>5

\* The job that is popped is no longer among those that are due.
LEMMA Popped ==
  ASSUME TypeOK, OneHome, ready # <<>>, ready' = Tail(ready)
  PROVE  /\ Head(ready) \in Ready
         /\ Ready' = Ready \ {Head(ready)}
         /\ \A i, j \in DOMAIN ready' : ready'[i] = ready'[j] => i = j
<1>1. ready \in Seq(Sources) /\ Len(ready) \in Nat \ {0} /\ DOMAIN ready = 1..Len(ready)
  BY DEF TypeOK
<1>2. /\ DOMAIN ready' = 1..Len(ready) - 1
      /\ Head(ready) = ready[1]
      /\ \A i \in 1..Len(ready) - 1 : ready'[i] = ready[i + 1]
  BY <1>1
<1>3. Ready' = {ready'[i] : i \in 1..Len(ready) - 1} /\ Ready = {ready[i] : i \in 1..Len(ready)}
  BY <1>1, <1>2 DEF Ready
<1>4. Head(ready) \in Ready
  BY <1>1, <1>2, <1>3
<1>5. Ready' = Ready \ {Head(ready)}
  <2>1. \A x \in Ready' : x \in Ready \ {Head(ready)}
    <3> SUFFICES ASSUME NEW i \in 1..Len(ready) - 1 PROVE ready'[i] \in Ready \ {Head(ready)}
      BY <1>3
    <3>1. i + 1 \in 1..Len(ready) /\ i + 1 # 1 /\ 1 \in 1..Len(ready)
      BY <1>1
    <3>2. ready'[i] = ready[i + 1] /\ ready[i + 1] # ready[1]
      BY <1>1, <1>2, <3>1 DEF OneHome
    <3> QED
      BY <1>2, <1>3, <3>1, <3>2
  <2>2. \A x \in Ready \ {Head(ready)} : x \in Ready'
    <3> SUFFICES ASSUME NEW i \in 1..Len(ready), ready[i] # Head(ready) PROVE ready[i] \in Ready'
      BY <1>3
    <3>1. i - 1 \in 1..Len(ready) - 1 /\ (i - 1) + 1 = i
      BY <1>1, <1>2
    <3> QED
      BY <1>2, <1>3, <3>1
  <2> QED
    BY <2>1, <2>2
<1>6. ASSUME NEW i \in 1..Len(ready) - 1, NEW j \in 1..Len(ready) - 1, ready'[i] = ready'[j]
      PROVE  i = j
  <2>1. i + 1 \in 1..Len(ready) /\ j + 1 \in 1..Len(ready)
    BY <1>1
  <2>2. i + 1 = j + 1
    BY <1>1, <1>2, <1>6, <2>1 DEF OneHome
  <2> QED
    BY <2>2
<1> QED
  BY <1>2, <1>4, <1>5, <1>6

LEMMA InitOneHome == Init => OneHome
<1> SUFFICES ASSUME Init PROVE OneHome
  OBVIOUS
<1>1. Ready = {} /\ DOMAIN ready = {}
  BY DEF Init, Ready
<1> QED
  BY <1>1, SourcesAssumption DEF Init, OneHome

LEMMA StepOneHome == TypeOK /\ OneHome /\ [Next]_vars => OneHome'
<1> SUFFICES ASSUME TypeOK, OneHome, [Next]_vars PROVE OneHome'
  OBVIOUS
<1>1. ASSUME NEW s \in Sources, AddJob(s) PROVE OneHome'
  <2>1. s \notin Ready /\ s \notin asleep /\ s # running
    BY <1>1 DEF AddJob, OneHome
  <2>2. /\ Ready' = Ready \cup {s}
        /\ \A i, j \in DOMAIN ready' : ready'[i] = ready'[j] => i = j
    BY <1>1, <2>1, PushedBack DEF AddJob
  <2> QED
    BY <1>1, <2>1, <2>2, SourcesAssumption DEF AddJob, OneHome
<1>2. ASSUME NEW s \in Sources, Wake(s) PROVE OneHome'
  <2>1. s \notin Ready /\ s \notin toAdd /\ s # running
    BY <1>2 DEF Wake, OneHome
  <2>2. /\ Ready' = Ready \cup {s}
        /\ \A i, j \in DOMAIN ready' : ready'[i] = ready'[j] => i = j
    BY <1>2, <2>1, PushedBack DEF Wake
  <2> QED
    BY <1>2, <2>1, <2>2, SourcesAssumption DEF Wake, OneHome
<1>3. ASSUME NEW readable \in RowReads, StartJob(readable) PROVE OneHome'
  <2>1. /\ Head(ready) \in Ready /\ Ready' = Ready \ {Head(ready)}
        /\ \A i, j \in DOMAIN ready' : ready'[i] = ready'[j] => i = j
    BY <1>3, Popped DEF StartJob
  <2>2. Head(ready) \in Sources
    BY <2>1 DEF OneHome
  <2>3. running = Nobody /\ running' = Head(ready) /\ UNCHANGED <<toAdd, asleep>>
    BY <1>3 DEF StartJob
  <2> QED
    BY <2>1, <2>2, <2>3, SourcesAssumption DEF OneHome
<1>4. ASSUME FetchOk PROVE OneHome'
  BY <1>4 DEF FetchOk, OneHome, Ready
<1>5. ASSUME GiveUp PROVE OneHome'
  BY <1>5, SourcesAssumption DEF GiveUp, OneHome, Ready, TypeOK
<1>6. ASSUME StoreOk PROVE OneHome'
  <2>1. running \in Sources /\ running \notin Ready /\ running' = Nobody /\ toAdd' = toAdd
    BY <1>6 DEF StoreOk, OneHome, TypeOK
  <2>2. CASE ready' = Append(ready, running) /\ asleep' = asleep
    <3>1. /\ Ready' = Ready \cup {running}
          /\ \A i, j \in DOMAIN ready' : ready'[i] = ready'[j] => i = j
      BY <2>1, <2>2, PushedBack
    <3> QED
      BY <2>1, <2>2, <3>1, SourcesAssumption DEF OneHome
  <2>3. CASE ready' = ready /\ asleep' = asleep \cup {running}
    BY <2>1, <2>3, SourcesAssumption DEF OneHome, Ready
  <2> QED
    BY <1>6, <2>2, <2>3 DEF StoreOk, Requeue
<1>7. ASSUME Crash PROVE OneHome'
  <2>1. Ready' = {} /\ DOMAIN ready' = {}
    BY <1>7 DEF Crash, Ready
  <2> QED
    BY <1>7, <2>1, SourcesAssumption DEF Crash, OneHome
<1>8. CASE UNCHANGED queue
  BY <1>8 DEF queue, OneHome, Ready
<1>9. ASSUME NEW t \in Types, Reset(t) PROVE OneHome'
  BY <1>9 DEF Reset, OneHome, Ready
<1>10. ASSUME CliStep PROVE UNCHANGED queue
  BY <1>10 DEF CliStep, CliStart, CliFetch, CliExit, CliStore
<1>11. ASSUME NEW s \in Sources, Publish(s) PROVE UNCHANGED queue
  BY <1>11 DEF Publish
<1>12. ASSUME NEW t \in Types, ResetFails(t) PROVE UNCHANGED queue
  BY <1>12 DEF ResetFails
<1> QED
  BY <1>1, <1>2, <1>3, <1>4, <1>5, <1>6, <1>7, <1>8, <1>9, <1>10, <1>11, <1>12
     DEF Next, QueueStep, vars

\* No path through execute_job, no failure, crash or reset loses a job or runs
\* it twice: each one is in exactly one place, once.
THEOREM NoJobLost == Spec => []OneHome
<1>1. QED
  BY InitOneHome, StepOneHome, TypeCorrect, PTL DEF Spec

-----------------------------------------------------------------------------
(* Resets and the check before each run.                                   *)

\* Rows that can be read, and no second process.  Resets come at any time.
Orderly == RowReads = {TRUE} /\ CliSources = {}

\* A cursor that a reset has made obsolete has lost its row, so the check
\* before the job's next run drops it; a running job has one only when the
\* reset came after its check.
ObsoleteIsHit ==
  /\ \A s \in Sources : stale[s] => synced[s] = NoCursor /\ (running = s => hit)
  /\ cli.source = Nobody

LEMMA InitObsoleteIsHit == Init => ObsoleteIsHit
BY DEF Init, ObsoleteIsHit

LEMMA StepObsoleteIsHit ==
  ASSUME Orderly, TypeOK, ObsoleteIsHit, [Next]_vars
  PROVE  ObsoleteIsHit'
<1>1. ASSUME NEW s \in Sources, Publish(s) \/ AddJob(s) \/ Wake(s) PROVE ObsoleteIsHit'
  BY <1>1 DEF Publish, AddJob, Wake, ObsoleteIsHit, TypeOK, durable, queue
<1>2. ASSUME NEW readable \in RowReads, StartJob(readable) PROVE ObsoleteIsHit'
  <2> DEFINE s == Head(ready)
  <2>1. s \in Sources /\ running' = s
    BY <1>2, HeadTailProperties DEF StartJob, TypeOK
  <2>2. PICK row \in Rows(s) :
          stale' = [stale EXCEPT ![s] = stale[s] /\ CheckedCursor(s, readable, row) # NoCursor]
    BY <1>2 DEF StartJob
  <2>3. stale[s] => CheckedCursor(s, readable, row) = NoCursor
    <3>1. stale[s] => row = NoCursor
      BY <2>1, RowsOK DEF ObsoleteIsHit
    <3> QED
      BY <3>1 DEF Orderly, CheckedCursor
  <2>4. \A q \in Sources : stale'[q] => stale[q] /\ q # s
    BY <2>1, <2>2, <2>3 DEF TypeOK
  <2>5. UNCHANGED <<synced, cli>>
    BY <1>2 DEF StartJob, durable
  <2> QED
    BY <2>1, <2>4, <2>5 DEF ObsoleteIsHit
<1>3. CASE FetchOk \/ GiveUp
  <2>1. running' \in {running, Nobody} /\ UNCHANGED <<synced, stale, hit, cli>>
    BY <1>3 DEF FetchOk, GiveUp, durable
  <2> QED
    BY <2>1, SourcesAssumption DEF ObsoleteIsHit
<1>4. CASE StoreOk
  <2>1. running \in Sources
    BY <1>4 DEF StoreOk, TypeOK
  <2>2. \A s \in Sources : s # running => synced'[s] = synced[s] /\ stale'[s] = stale[s]
    BY <1>4 DEF StoreOk, StorePage, TypeOK
  <2>3. ~stale'[running] /\ running' = Nobody /\ cli' = cli
    BY <1>4, <2>1 DEF StoreOk, TypeOK
  <2> QED
    BY <2>2, <2>3, SourcesAssumption DEF ObsoleteIsHit
<1>5. CASE Crash
  BY <1>5 DEF Crash, ObsoleteIsHit, durable
<1>6. ASSUME NEW t \in Types, Reset(t) PROVE ObsoleteIsHit'
  <2>1. hit' = (hit \/ running \in SyncPatterns(t)) /\ UNCHANGED <<running, cli>>
    BY <1>6 DEF Reset
  <2>2. ASSUME NEW s \in Sources, stale'[s] PROVE synced'[s] = NoCursor /\ (running = s => hit')
    <3>1. CASE s \in SyncPatterns(t)
      BY <1>6, <2>1, <3>1 DEF Reset, DeleteType
    <3>2. CASE s \notin SyncPatterns(t)
      <4>1. synced'[s] = synced[s] /\ stale'[s] = stale[s]
        BY <1>6, <3>2 DEF Reset, DeleteType
      <4> QED
        BY <2>1, <2>2, <4>1 DEF ObsoleteIsHit, TypeOK
    <3> QED
      BY <3>1, <3>2
  <2> QED
    BY <2>1, <2>2 DEF ObsoleteIsHit
<1>7. ASSUME NEW t \in Types, ResetFails(t) PROVE ObsoleteIsHit'
  BY <1>7 DEF ResetFails, ObsoleteIsHit, durable, queue
<1>8. ASSUME CliStep PROVE FALSE
  BY <1>8 DEF CliStep, CliStart, CliFetch, CliExit, CliStore, Orderly, ObsoleteIsHit, TypeOK
<1>9. CASE UNCHANGED vars
  BY <1>9 DEF vars, ObsoleteIsHit, durable, queue
<1> QED
  BY <1>1, <1>2, <1>3, <1>4, <1>5, <1>6, <1>7, <1>8, <1>9 DEF Next, QueueStep

\* Only a commit tears a cursor, and only one of a job whose cursor is stale.
LEMMA OnlyStaleCommitsTear ==
  ASSUME Orderly, TypeOK, ObsoleteIsHit, [Next]_vars,
         NEW s \in Sources, torn'[s], ~torn[s]
  PROVE  running = s /\ stale[s]
<1>1. CASE StoreOk
  <2>1. running \in Sources /\ torn' = [torn EXCEPT ![running] = @ \/ stale[running]]
    BY <1>1 DEF StoreOk, StorePage, TypeOK
  <2> QED
    BY <2>1 DEF TypeOK
<1>2. ASSUME NEW t \in Types, Reset(t) PROVE FALSE
  BY <1>2 DEF Reset, TypeOK
<1>3. ASSUME NEW t \in Types, ResetFails(t) PROVE FALSE
  BY <1>3 DEF ResetFails, durable
<1>4. ASSUME (\E q \in Sources : Publish(q) \/ AddJob(q) \/ Wake(q)) \/ Crash PROVE FALSE
  BY <1>4 DEF Publish, AddJob, Wake, Crash, durable
<1>5. ASSUME (\E readable \in RowReads : StartJob(readable)) \/ FetchOk \/ GiveUp PROVE FALSE
  BY <1>5 DEF StartJob, FetchOk, GiveUp, durable
<1>6. ASSUME CliStep PROVE FALSE
  BY <1>6 DEF CliStep, CliStart, CliFetch, CliExit, CliStore, Orderly, ObsoleteIsHit, TypeOK
<1>7. ASSUME UNCHANGED vars PROVE FALSE
  BY <1>7 DEF vars, durable
<1> QED
  BY <1>1, <1>2, <1>3, <1>4, <1>5, <1>6, <1>7 DEF Next, QueueStep

\* What execute_job's check is worth, whenever the resets come: while rows can
\* be read and no second process ingests, a cursor is torn from its documents
\* only by a job that a reset has hit between that check and its commit.
THEOREM OnlyHitJobsTear == ASSUME Orderly PROVE Spec => TornOnlyInFlight
<1>1. Init => ObsoleteIsHit
  BY InitObsoleteIsHit
<1>2. TypeOK /\ ObsoleteIsHit /\ [Next]_vars => ObsoleteIsHit'
  BY StepObsoleteIsHit
<1>3. TypeOK /\ ObsoleteIsHit /\ [Next]_vars
        => [\A s \in Sources : torn'[s] /\ ~torn[s] => running = s /\ hit]_vars
  BY OnlyStaleCommitsTear DEF ObsoleteIsHit
<1>4. QED
  BY <1>1, <1>2, <1>3, TypeCorrect, PTL DEF Spec, TornOnlyInFlight

-----------------------------------------------------------------------------
(* The queue implements atomic page commits and resets.                    *)

\* A page stored by the queue or by the command line is a commit of the
\* abstract feed, of an obsolete page when its cursor is older than a reset.
LEMMA StorePageRefines ==
  ASSUME TypeOK, NEW s \in Sources, NEW p, PageOK(s, p), NEW obsolete \in BOOLEAN,
         StorePage(s, p, obsolete),
         torn[s] \/ obsolete \/ Covered(s, Position(p.from))
  PROVE  Durable!Next
<1> DEFINE from == Position(p.from)
<1>1. /\ from \in 0..Len(Feed[s]) /\ p.upto \in 0..Len(Feed[s]) /\ from <= p.upto
      /\ CursorAfter(p) \in {p.upto, from, NoCursor}
  <2>1. Len(Feed[s]) \in Nat
    BY SourcesAssumption
  <2> QED
    BY <2>1, CursorAfterOK DEF PageOK, Published, Cursors, Position
<1>2. Durable!WritePage(s, from, p.upto)
  BY <1>1 DEF Durable!WritePage, StorePage
<1>3. CASE obsolete
  <2>1. torn' = [torn EXCEPT ![s] = TRUE]
    BY <1>3 DEF StorePage
  <2>2. Durable!CommitObsoletePage(s)
    BY <1>1, <1>2, <2>1 DEF Durable!CommitObsoletePage
  <2> QED
    BY <2>2 DEF Durable!Next
<1>4. CASE ~obsolete
  <2>1. torn' = torn
    BY <1>4 DEF StorePage, TypeOK
  <2>2. torn[s] \/ Durable!Covered(s, from)
    BY <1>4 DEF Covered, Durable!Covered
  <2>3. Durable!CommitPage(s)
    BY <1>1, <1>2, <2>1, <2>2 DEF Durable!CommitPage
  <2> QED
    BY <2>3 DEF Durable!Next
<1> QED
  BY <1>3, <1>4

LEMMA StepRefines == IInv /\ [Next]_vars => [Durable!Next]_(Durable!vars)
<1> SUFFICES ASSUME TypeOK, CursorsCovered, [Next]_vars
             PROVE  Durable!Next \/ UNCHANGED durable
  BY DEF IInv, Durable!vars, durable
<1>1. CASE StoreOk
  <2>1. /\ running \in Sources /\ PageOK(running, page) /\ page.from = cursor[running]
        /\ stale[running] \in BOOLEAN
        /\ StorePage(running, page, stale[running])
    BY <1>1 DEF TypeOK, StoreOk
  <2>2. torn[running] \/ stale[running] \/ Covered(running, Position(page.from))
    BY <2>1 DEF CursorsCovered
  <2> QED
    BY <2>1, <2>2, StorePageRefines
<1>2. CASE CliStore
  <2>1. /\ cli.source \in Sources /\ PageOK(cli.source, cli.page)
        /\ cli.page.from = cli.cursor /\ cliStale \in BOOLEAN
        /\ StorePage(cli.source, cli.page, cliStale)
    BY <1>2 DEF TypeOK, CliStore
  <2>2. torn[cli.source] \/ cliStale \/ Covered(cli.source, Position(cli.page.from))
    BY <2>1 DEF CursorsCovered
  <2> QED
    BY <2>1, <2>2, StorePageRefines
<1>3. ASSUME NEW t \in Types, Reset(t) PROVE Durable!Next
  <2>1. /\ SyncPatterns(t) \in SUBSET Sources
        /\ {s \in Sources : Durable!Produces(s, t)} \subseteq SyncPatterns(t)
    BY ResetReachesProducers DEF SyncPatterns, Durable!Produces
  <2>2. Durable!Forget(t)
    BY <1>3, <2>1 DEF Reset, DeleteType, Durable!Forget
  <2> QED
    BY <2>2 DEF Durable!Next
<1>4. CASE (\E s \in Sources : Publish(s) \/ AddJob(s) \/ Wake(s)) \/ Crash
  BY <1>4 DEF Publish, AddJob, Wake, Crash, durable
<1>5. CASE (\E readable \in RowReads : StartJob(readable)) \/ FetchOk \/ GiveUp
  BY <1>5 DEF StartJob, FetchOk, GiveUp, durable
<1>6. CASE (\E s \in CliSources : CliStart(s)) \/ CliFetch \/ CliExit
  BY <1>6 DEF CliStart, CliFetch, CliExit, durable
<1>7. ASSUME NEW t \in Types, ResetFails(t) PROVE UNCHANGED durable
  BY <1>7 DEF ResetFails, durable
<1>8. CASE UNCHANGED vars
  BY <1>8 DEF vars
<1>9. QED
  BY <1>1, <1>2, <1>3, <1>4, <1>5, <1>6, <1>7, <1>8 DEF Next, QueueStep, CliStep

\* Every behaviour of the scheduler, with its crashes, resets and the second
\* process, is on the database a sequence of atomic page commits and resets.
THEOREM ImplementsCheckpointedFeed == Spec => DurableSpec
<1>1. Init => Durable!Init
  BY DEF Init, Durable!Init
<1>2. QED
  BY <1>1, Inductive, StepRefines, PTL DEF Spec, DurableSpec, Durable!Spec

-----------------------------------------------------------------------------
(* Pacing.                                                                 *)


\* A job whose last deferral was for the window the limiter knows waits until
\* after its end.
DeferralsReach ==
  \A j \in GitHubJobs :
    /\ deferredFor[j] <= limiter.reset
    /\ deferredFor[j] > 0 /\ deferredFor[j] = limiter.reset =>
         nextRun[j] > limiter.reset \/ now >= limiter.reset

\* The silence asked for is over when next_request arrives, and next_request
\* is never far away.
SilenceKept ==
  /\ paced
  /\ quietUntil <= nextRequest
  /\ \E w \in LongestWait : nextRequest <= now + w

\* The inductive invariant.
PacingInv ==
  /\ PacingTypeOK
  /\ QuotaKnown
  /\ RefusedOnlyAhead
  /\ DeferralsReach
  /\ SilenceKept
  /\ WaitsBounded

USE JobsAssumption, TimesAssumption, MarginAssumption DEF Jobs

\* The waits are natural numbers no longer than the longest one.
LEMMA LongestWaitIsNat == LongestWait \subseteq Nat
BY DEF LongestWait

LEMMA BackoffBounded ==
  ASSUME NEW n \in 0..BackoffDoublings
  PROVE  Backoff(n) \in Nat /\ Backoff(n) <= BackoffCap
<1>1. BackoffUnit * 2^n \in Nat
  OBVIOUS
<1> DEFINE b == BackoffUnit * 2^n
<1>2. Backoff(n) = IF b <= BackoffCap THEN b ELSE BackoffCap
  BY DEF Backoff, Least
<1>3. b \in Nat
  BY <1>1
<1> HIDE DEF b
<1> QED
  BY <1>2, <1>3

\* A wait of d leaves every job within the bound, and only moves job j.
LEMMA WaitIsBounded ==
  ASSUME NEW j \in Jobs, NEW d \in Nat, NEW w \in LongestWait, d <= w,
         PacingTypeOK, WaitsBounded, Wait(j, d)
  PROVE  /\ nextRun' \in [Jobs -> Nat]
         /\ nextRun'[j] = now + d
         /\ \A k \in Jobs : k # j => nextRun'[k] = nextRun[k]
         /\ \A k \in Jobs : \E v \in LongestWait : nextRun'[k] <= now + v
BY LongestWaitIsNat DEF Wait, PacingTypeOK, WaitsBounded

\* Each way a run can end moves the job's next_run within the bound.
LEMMA EndOfRun ==
  ASSUME NEW j \in Jobs, PacingTypeOK, WaitsBounded,
         \/ Succeed(j)
         \/ Fail(j)
         \/ \E d \in RetryAfter : Defer(j, d)
  PROVE  /\ nextRun' \in [Jobs -> Nat]
         /\ retries' \in [Jobs -> 0..BackoffDoublings]
         /\ \A k \in Jobs : k # j => nextRun'[k] = nextRun[k]
         /\ \A k \in Jobs : \E v \in LongestWait : nextRun'[k] <= now + v
<1>1. CASE Succeed(j)
  <2>1. PICK d \in PageWaits : Wait(j, d)
    BY <1>1 DEF Succeed
  <2>2. 2 * PollInterval \in LongestWait
    BY DEF LongestWait
  <2>3. d \in Nat /\ d <= 2 * PollInterval
    BY DEF PageWaits
  <2>4. retries' \in [Jobs -> 0..BackoffDoublings]
    BY <1>1 DEF Succeed, PacingTypeOK
  <2> QED
    BY <2>1, <2>2, <2>3, <2>4, WaitIsBounded
<1>2. CASE Fail(j)
  <2> DEFINE n == Least(retries[j] + 1, BackoffDoublings)
  <2>1. n \in 0..BackoffDoublings
    BY DEF Least, PacingTypeOK
  <2>2. retries' = [retries EXCEPT ![j] = n] /\ Wait(j, Backoff(n))
    BY <1>2 DEF Fail
  <2>3. BackoffCap \in LongestWait
    BY DEF LongestWait
  <2>4. Backoff(n) \in Nat /\ Backoff(n) <= BackoffCap
    BY <2>1, BackoffBounded
  <2>5. retries' \in [Jobs -> 0..BackoffDoublings]
    BY <2>1, <2>2 DEF PacingTypeOK
  <2> HIDE DEF n
  <2> QED
    BY <2>2, <2>3, <2>4, <2>5, WaitIsBounded
<1>3. CASE \E d \in RetryAfter : Defer(j, d)
  <2>1. PICK d \in RetryAfter : Defer(j, d)
    BY <1>3
  <2>2. d \in LongestWait /\ d \in Nat
    BY DEF LongestWait
  <2> QED
    BY <2>1, <2>2, WaitIsBounded DEF Defer, PacingTypeOK
<1> QED
  BY <1>1, <1>2, <1>3

\* A request that acquire grants while the window is not over by the host's
\* clock finds the quota not used up.
LEMMA GrantedIsWithinQuota ==
  ASSUME PacingTypeOK, QuotaKnown, ~Denied, UsedBefore = Quota
  PROVE  windowEnd <= now /\ lead < 0
<1>0. UsedBefore = used /\ ~NewWindow
  BY DEF UsedBefore
<1>1. windowEnd <= now => lead < 0
  BY <1>0 DEF NewWindow, PacingTypeOK
<1>2. limiter.reset = windowEnd /\ windowEnd > 0
  BY <1>0 DEF NewWindow, QuotaKnown, PacingTypeOK
<1>3. ~(limiter.reset > now)
  <2> SUFFICES ASSUME limiter.reset > now PROVE FALSE
    OBVIOUS
  <2>1. limiter.limit = Quota /\ limiter.remaining = Quota - used + unheard
    BY <1>2 DEF QuotaKnown
  <2> DEFINE m == Least(SafetyMargin, Quota \div MarginShare)
  <2>2. MaxUnheard <= m /\ m \in Int
    BY DEF Least
  <2>3. ~(limiter.remaining <= m)
    BY <2>1 DEF Denied
  <2> HIDE DEF m
  <2>4. limiter.remaining = unheard /\ unheard \in 0..MaxUnheard
    <3>1. used = Quota /\ Quota \in Nat
      BY <1>0
    <3>2. unheard \in 0..MaxUnheard
      BY DEF PacingTypeOK
    <3> QED
      BY <2>1, <3>1, <3>2
  <2> QED
    BY <2>2, <2>3, <2>4
<1> QED
  BY <1>1, <1>2, <1>3 DEF PacingTypeOK

\* So a refusal, if it comes, comes after the window by the host's clock.
LEMMA RefusalIsLate ==
  ASSUME PacingTypeOK, QuotaKnown, RefusedOnlyAhead, ~Denied, UNCHANGED clocks,
         IF UsedBefore = Quota THEN Refuse ELSE UNCHANGED refused
  PROVE  RefusedOnlyAhead' /\ refused' \subseteq {"within", "after"}
<1>1. CASE UsedBefore = Quota
  <2>1. windowEnd <= now /\ lead < 0
    BY <1>1, GrantedIsWithinQuota
  <2>2. refused' = refused \cup {"after"}
    BY <1>1, <2>1 DEF Refuse, PacingTypeOK
  <2> QED
    BY <2>1, <2>2 DEF RefusedOnlyAhead, PacingTypeOK, clocks
<1>2. CASE UsedBefore # Quota
  BY <1>2 DEF RefusedOnlyAhead, PacingTypeOK, clocks
<1> QED
  BY <1>1, <1>2

\* Counting a request keeps what is known of the quota, when its response is
\* heard and when it is not.
LEMMA HeardKeepsQuota ==
  ASSUME NEW j \in GitHubJobs, PacingTypeOK, QuotaKnown, HeardGitHub(j)
  PROVE  /\ QuotaKnown'
         /\ used' \in 0..Quota /\ windowEnd' \in Nat /\ unheard' \in 0..MaxUnheard
         /\ limiter' \in [limit : {Quota, InitialQuota}, remaining : Nat, reset : Nat]
         /\ limiter'.reset = windowEnd' /\ windowEnd' >= windowEnd
BY DEF HeardGitHub, Count, UsedBefore, NewWindow, QuotaKnown, PacingTypeOK, clocks

LEMMA UnheardKeepsQuota ==
  ASSUME PacingTypeOK, QuotaKnown, UsedBefore = Quota => windowEnd <= now,
         UnheardBefore < MaxUnheard, Count,
         unheard' = UnheardBefore + 1, limiter' = limiter \/ limiter' = Acquired,
         UNCHANGED clocks
  PROVE  /\ QuotaKnown'
         /\ used' \in 0..Quota /\ windowEnd' \in Nat /\ unheard' \in 0..MaxUnheard
         /\ limiter' \in [limit : {Quota, InitialQuota}, remaining : Nat, reset : Nat]
         /\ limiter'.reset = limiter.reset
<1>1. /\ limiter' \in [limit : {Quota, InitialQuota}, remaining : Nat, reset : Nat]
      /\ limiter'.reset = limiter.reset /\ limiter'.limit = limiter.limit
      /\ limiter.reset > now => limiter'.remaining = limiter.remaining
  BY DEF Acquired, PacingTypeOK
<1>2. UsedBefore \in 0..Quota /\ UnheardBefore \in 0..MaxUnheard
  BY DEF UsedBefore, UnheardBefore, PacingTypeOK
<1>3. /\ used' = IF UsedBefore < Quota THEN UsedBefore + 1 ELSE UsedBefore
      /\ unheard' = UnheardBefore + 1 /\ now' = now /\ lead' = lead
      /\ windowEnd' = IF NewWindow THEN now + lead + Window ELSE windowEnd
  BY DEF Count, clocks
<1>4. used' \in 0..Quota /\ windowEnd' \in Nat /\ unheard' \in 0..MaxUnheard
  BY <1>2, <1>3 DEF PacingTypeOK
<1>5. CASE NewWindow
  <2>1. used' = 1 /\ unheard' = 1 /\ windowEnd' = now + lead + Window
    BY <1>3, <1>5 DEF UsedBefore, UnheardBefore
  <2>2. limiter.reset < windowEnd'
    BY <1>5, <2>1 DEF NewWindow, QuotaKnown, PacingTypeOK
  <2> QED
    BY <1>1, <1>3, <1>4, <2>1, <2>2 DEF QuotaKnown, PacingTypeOK
<1>6. CASE ~NewWindow /\ UsedBefore < Quota
  <2>1. used' = used + 1 /\ unheard' = unheard + 1 /\ windowEnd' = windowEnd
    BY <1>3, <1>6 DEF UsedBefore, UnheardBefore
  <2> QED
    BY <1>1, <1>3, <1>4, <2>1 DEF QuotaKnown, PacingTypeOK
<1>7. CASE ~NewWindow /\ UsedBefore = Quota
  <2>1. used' = Quota /\ used = Quota /\ windowEnd' = windowEnd /\ windowEnd <= now
    BY <1>3, <1>7 DEF UsedBefore
  <2> QED
    BY <1>1, <1>3, <1>4, <2>1 DEF QuotaKnown, PacingTypeOK
<1> QED
  BY <1>2, <1>5, <1>6, <1>7

-----------------------------------------------------------------------------
LEMMA InitIInv == PacingInit => PacingInv
<1> SUFFICES ASSUME PacingInit PROVE PacingInv
  OBVIOUS
<1>1. PacingTypeOK
  <2>1. /\ now \in Nat /\ used \in 0..Quota /\ windowEnd \in Nat /\ unheard \in 0..MaxUnheard
        /\ nextRequest \in Nat /\ quietUntil \in Nat
        /\ limiter \in [limit : {Quota, InitialQuota}, remaining : Nat, reset : Nat]
    BY DEF PacingInit
  <2>2. /\ nextRun \in [Jobs -> Nat] /\ deferredFor \in [Jobs -> Nat]
        /\ retries \in [Jobs -> 0..BackoffDoublings]
    BY DEF PacingInit
  <2>3. refused = {} /\ paced \in BOOLEAN /\ lead \in Leads /\ now + lead >= 0
    BY DEF PacingInit
  <2> QED
    BY <2>1, <2>2, <2>3 DEF PacingTypeOK
<1>2. QuotaKnown
  BY DEF PacingInit, QuotaKnown
<1>3. RefusedOnlyAhead /\ DeferralsReach
  BY DEF PacingInit, RefusedOnlyAhead, DeferralsReach
<1>4. SilenceKept /\ WaitsBounded
  <2>1. 2 * PollInterval \in LongestWait
    BY DEF LongestWait
  <2> QED
    BY <2>1 DEF PacingInit, SilenceKept, WaitsBounded
<1> QED
  BY <1>1, <1>2, <1>3, <1>4 DEF PacingInv

LEMMA TickKeeps == PacingInv /\ Tick => PacingInv'
<1> SUFFICES ASSUME PacingInv, Tick PROVE PacingInv'
  OBVIOUS
<1> USE DEF PacingInv
<1>1. PacingTypeOK' /\ QuotaKnown' /\ RefusedOnlyAhead' /\ DeferralsReach'
  BY DEF Tick, clocks, PacingTypeOK, QuotaKnown, RefusedOnlyAhead, DeferralsReach, github, forge, clocks
<1>2. LongestWait' = LongestWait
  BY DEF LongestWait
<1>3. SilenceKept'
  BY <1>2, LongestWaitIsNat DEF Tick, clocks, PacingTypeOK, SilenceKept, github, forge, clocks
<1>4. WaitsBounded'
  <2> SUFFICES ASSUME NEW j \in Jobs PROVE \E w \in LongestWait : nextRun'[j] <= now' + w
    BY <1>2 DEF WaitsBounded
  <2>1. PICK w \in LongestWait : nextRun[j] <= now + w
    BY DEF WaitsBounded
  <2>2. w \in Nat /\ nextRun[j] \in Nat
    BY LongestWaitIsNat DEF PacingTypeOK
  <2>3. nextRun'[j] <= now' + w
    BY <2>1, <2>2 DEF Tick, clocks, PacingTypeOK
  <2> QED
    BY <2>3
<1> QED
  BY <1>1, <1>3, <1>4

LEMMA DeferGitHubKeeps ==
  ASSUME NEW j \in GitHubJobs, PacingInv, DeferGitHub(j)
  PROVE  PacingInv'
<1> USE DEF PacingInv
<1>1. limiter.reset > now /\ Wait(j, Deferral) /\ UNCHANGED <<retries, clocks, github, forge>>
  BY DEF DeferGitHub, Denied, Defer
<1>2. Deferral \in Nat /\ Deferral <= Window + MaxLead + 1
  BY <1>1 DEF Deferral, PacingTypeOK, QuotaKnown
<1>3. Window + MaxLead + 1 \in LongestWait
  BY DEF LongestWait
<1>4. /\ nextRun' \in [Jobs -> Nat]
      /\ nextRun'[j] = now + Deferral
      /\ \A k \in Jobs : k # j => nextRun'[k] = nextRun[k]
      /\ \A k \in Jobs : \E v \in LongestWait : nextRun'[k] <= now + v
  BY <1>1, <1>2, <1>3, WaitIsBounded
<1>5. nextRun'[j] = limiter.reset + 1
  BY <1>4 DEF Deferral, PacingTypeOK
<1>6. PacingTypeOK' /\ QuotaKnown' /\ RefusedOnlyAhead'
  BY <1>1, <1>4 DEF DeferGitHub, PacingTypeOK, QuotaKnown, RefusedOnlyAhead, github, forge, clocks
<1>7. DeferralsReach'
  BY <1>1, <1>4, <1>5 DEF DeferGitHub, DeferralsReach, PacingTypeOK, github, clocks
<1>8. SilenceKept' /\ WaitsBounded'
  BY <1>1, <1>4 DEF SilenceKept, WaitsBounded, forge, clocks, LongestWait
<1> QED
  BY <1>6, <1>7, <1>8

\* A job that runs is past the end of the window it was last deferred for.
LEMMA DueIsPast ==
  ASSUME NEW j \in GitHubJobs, PacingTypeOK, DeferralsReach, Due(j),
         deferredFor[j] > 0, deferredFor[j] = limiter.reset
  PROVE  now >= limiter.reset
BY DEF DeferralsReach, Due, PacingTypeOK

\* What a request that was sent does to the rest of the invariant.
LEMMA SentKeeps ==
  ASSUME NEW j \in GitHubJobs, PacingInv, Due(j), QuotaKnown',
         Succeed(j) \/ Fail(j) \/ \E d \in RetryAfter : Defer(j, d),
         used' \in 0..Quota, windowEnd' \in Nat, unheard' \in 0..MaxUnheard,
         limiter' \in [limit : {Quota, InitialQuota}, remaining : Nat, reset : Nat],
         limiter'.reset >= limiter.reset,
         RefusedOnlyAhead', refused' \subseteq {"within", "after"},
         UNCHANGED <<clocks, forge, deferredFor>>
  PROVE  PacingInv'
<1> USE DEF PacingInv
<1>1. /\ nextRun' \in [Jobs -> Nat]
      /\ retries' \in [Jobs -> 0..BackoffDoublings]
      /\ \A k \in Jobs : k # j => nextRun'[k] = nextRun[k]
      /\ \A k \in Jobs : \E v \in LongestWait : nextRun'[k] <= now + v
  BY EndOfRun
<1>2. PacingTypeOK' /\ RefusedOnlyAhead'
  BY <1>1 DEF PacingTypeOK, RefusedOnlyAhead, forge, clocks
<1>3. DeferralsReach'
  <2> SUFFICES ASSUME NEW k \in GitHubJobs
               PROVE  /\ deferredFor[k] <= limiter'.reset
                      /\ deferredFor[k] > 0 /\ deferredFor[k] = limiter'.reset =>
                           nextRun'[k] > limiter'.reset \/ now >= limiter'.reset
    BY DEF DeferralsReach, clocks
  <2>1. deferredFor[k] <= limiter.reset /\ deferredFor[k] \in Nat
    BY DEF DeferralsReach, PacingTypeOK
  <2>2. deferredFor[k] <= limiter'.reset
    BY <2>1 DEF PacingTypeOK
  <2>3. deferredFor[k] = limiter'.reset => limiter'.reset = limiter.reset
    BY <2>1 DEF PacingTypeOK
  <2>4. CASE k = j
    BY <2>2, <2>3, <2>4, DueIsPast
  <2>5. CASE k # j
    BY <1>1, <2>2, <2>3, <2>5 DEF DeferralsReach
  <2> QED
    BY <2>4, <2>5
<1>4. SilenceKept' /\ WaitsBounded'
  BY <1>1 DEF SilenceKept, WaitsBounded, forge, clocks, LongestWait
<1> QED
  BY <1>2, <1>3, <1>4

LEMMA HeardGitHubKeeps ==
  ASSUME NEW j \in GitHubJobs, PacingInv, HeardGitHub(j)
  PROVE  PacingInv'
<1>1. /\ QuotaKnown'
      /\ used' \in 0..Quota /\ windowEnd' \in Nat /\ unheard' \in 0..MaxUnheard
      /\ limiter' \in [limit : {Quota, InitialQuota}, remaining : Nat, reset : Nat]
      /\ limiter'.reset = windowEnd' /\ windowEnd' >= windowEnd
  BY HeardKeepsQuota DEF PacingInv
<1>2. limiter'.reset >= limiter.reset
  BY <1>1 DEF PacingInv, QuotaKnown, PacingTypeOK
<1>3. /\ Due(j) /\ ~Denied /\ UNCHANGED clocks /\ UNCHANGED <<clocks, forge, deferredFor>>
      /\ Succeed(j) \/ Fail(j) \/ \E d \in RetryAfter : Defer(j, d)
      /\ IF UsedBefore = Quota THEN Refuse ELSE UNCHANGED refused
  BY DEF HeardGitHub
<1>4. RefusedOnlyAhead' /\ refused' \subseteq {"within", "after"}
  BY <1>3, RefusalIsLate DEF PacingInv
<1> QED
  BY <1>1, <1>2, <1>3, <1>4, SentKeeps

LEMMA LostGitHubKeeps ==
  ASSUME NEW j \in GitHubJobs, PacingInv, LostGitHub(j)
  PROVE  PacingInv'
<1>1. /\ Due(j) /\ ~Denied /\ UNCHANGED clocks /\ UNCHANGED <<clocks, forge, deferredFor>>
      /\ Fail(j)
      /\ IF UsedBefore = Quota THEN Refuse ELSE UNCHANGED refused
  BY DEF LostGitHub
<1>2. UsedBefore = Quota => windowEnd <= now
  BY <1>1, GrantedIsWithinQuota DEF PacingInv
<1>3. /\ QuotaKnown'
      /\ used' \in 0..Quota /\ windowEnd' \in Nat /\ unheard' \in 0..MaxUnheard
      /\ limiter' \in [limit : {Quota, InitialQuota}, remaining : Nat, reset : Nat]
      /\ limiter'.reset = limiter.reset
  BY <1>1, <1>2, UnheardKeepsQuota DEF PacingInv, LostGitHub
<1>4. limiter'.reset >= limiter.reset
  BY <1>3 DEF PacingInv, PacingTypeOK
<1>5. RefusedOnlyAhead' /\ refused' \subseteq {"within", "after"}
  BY <1>1, RefusalIsLate DEF PacingInv
<1> QED
  BY <1>1, <1>3, <1>4, <1>5, SentKeeps

LEMMA OtherProcessKeeps == PacingInv /\ OtherProcess => PacingInv'
<1> SUFFICES ASSUME PacingInv, OtherProcess PROVE PacingInv'
  OBVIOUS
<1> USE DEF PacingInv
<1>1. /\ QuotaKnown'
      /\ used' \in 0..Quota /\ windowEnd' \in Nat /\ unheard' \in 0..MaxUnheard
      /\ limiter' \in [limit : {Quota, InitialQuota}, remaining : Nat, reset : Nat]
      /\ limiter'.reset = limiter.reset
  BY UnheardKeepsQuota DEF OtherProcess
<1>2. PacingTypeOK' /\ RefusedOnlyAhead' /\ DeferralsReach'
  BY <1>1 DEF OtherProcess, PacingTypeOK, RefusedOnlyAhead, DeferralsReach, forge, clocks
<1>3. SilenceKept' /\ WaitsBounded'
  BY DEF OtherProcess, SilenceKept, WaitsBounded, forge, clocks, LongestWait
<1> QED
  BY <1>1, <1>2, <1>3

\* A step that leaves GitHub and the clock alone and moves one Forgejo job.
LEMMA ForgejoKeepsRest ==
  ASSUME NEW j \in ForgejoJobs, PacingInv, UNCHANGED <<clocks, github, deferredFor>>,
         \A k \in Jobs : k # j => nextRun'[k] = nextRun[k]
  PROVE  QuotaKnown' /\ RefusedOnlyAhead' /\ DeferralsReach'
BY DEF PacingInv, QuotaKnown, RefusedOnlyAhead, DeferralsReach, github, clocks

LEMMA DeferForgejoKeeps ==
  ASSUME NEW j \in ForgejoJobs, PacingInv, DeferForgejo(j)
  PROVE  PacingInv'
<1> USE DEF PacingInv
<1>1. PICK w \in LongestWait : nextRequest <= now + w
  BY DEF SilenceKept
<1>2. w \in Nat
  BY LongestWaitIsNat
<1>3. nextRequest - now \in Nat /\ nextRequest - now <= w
  BY <1>1, <1>2 DEF DeferForgejo, PacingTypeOK
<1>4. /\ nextRun' \in [Jobs -> Nat]
      /\ \A k \in Jobs : k # j => nextRun'[k] = nextRun[k]
      /\ \A k \in Jobs : \E v \in LongestWait : nextRun'[k] <= now + v
  BY <1>3, WaitIsBounded DEF DeferForgejo, Defer
<1>5. QuotaKnown' /\ RefusedOnlyAhead' /\ DeferralsReach'
  BY <1>4, ForgejoKeepsRest DEF DeferForgejo
<1>6. PacingTypeOK'
  BY <1>4 DEF DeferForgejo, Defer, PacingTypeOK, github, forge, clocks
<1>7. SilenceKept' /\ WaitsBounded'
  BY <1>4 DEF DeferForgejo, SilenceKept, WaitsBounded, forge, clocks, LongestWait
<1> QED
  BY <1>5, <1>6, <1>7

LEMMA SendForgejoKeeps ==
  ASSUME NEW j \in ForgejoJobs, PacingInv, SendForgejo(j)
  PROVE  PacingInv'
<1> USE DEF PacingInv
<1>1. Succeed(j) \/ Fail(j) \/ \E d \in RetryAfter : Defer(j, d)
  BY DEF SendForgejo
<1>2. /\ nextRun' \in [Jobs -> Nat]
      /\ retries' \in [Jobs -> 0..BackoffDoublings]
      /\ \A k \in Jobs : k # j => nextRun'[k] = nextRun[k]
      /\ \A k \in Jobs : \E v \in LongestWait : nextRun'[k] <= now + v
  BY <1>1, EndOfRun
<1>3. QuotaKnown' /\ RefusedOnlyAhead' /\ DeferralsReach'
  BY <1>2, ForgejoKeepsRest DEF SendForgejo
<1>4. paced'
  <2>1. now >= quietUntil
    BY DEF SendForgejo, SilenceKept, PacingTypeOK
  <2> QED
    BY <2>1 DEF SendForgejo, SilenceKept
<1>5. \E d \in LongestWait : nextRequest' = now + d /\ quietUntil' = now + d
  BY DEF SendForgejo, Silence, LongestWait
<1>6. nextRequest' \in Nat /\ quietUntil' \in Nat
  BY <1>5, LongestWaitIsNat DEF PacingTypeOK
<1>7. PacingTypeOK'
  BY <1>2, <1>4, <1>6 DEF SendForgejo, PacingTypeOK, github, clocks
<1>8. SilenceKept'
  BY <1>4, <1>5, <1>6 DEF SendForgejo, SilenceKept, LongestWait, PacingTypeOK, clocks
<1>9. WaitsBounded'
  BY <1>2 DEF SendForgejo, WaitsBounded, LongestWait, clocks
<1> QED
  BY <1>3, <1>7, <1>8, <1>9

LEMMA StutterKeeps == PacingInv /\ UNCHANGED pacingVars => PacingInv'
<1> SUFFICES ASSUME PacingInv, UNCHANGED pacingVars PROVE PacingInv'
  OBVIOUS
<1>1. PacingTypeOK' /\ QuotaKnown' /\ RefusedOnlyAhead' /\ DeferralsReach'
  BY DEF PacingInv, pacingVars, clocks, github, forge, PacingTypeOK, QuotaKnown, RefusedOnlyAhead, DeferralsReach
<1>2. SilenceKept' /\ WaitsBounded'
  BY DEF PacingInv, pacingVars, clocks, github, forge, SilenceKept, WaitsBounded, LongestWait
<1> QED
  BY <1>1, <1>2 DEF PacingInv

THEOREM PacingInductive == PacingSpec => []PacingInv
<1>1. PacingInv /\ [PacingNext]_pacingVars => PacingInv'
  <2> SUFFICES ASSUME PacingInv, [PacingNext]_pacingVars PROVE PacingInv'
    OBVIOUS
  <2>1. CASE Tick
    BY <2>1, TickKeeps
  <2>2. CASE \E j \in GitHubJobs : GitHubStep(j)
    BY <2>2, DeferGitHubKeeps, HeardGitHubKeeps, LostGitHubKeeps DEF GitHubStep
  <2>3. CASE \E j \in ForgejoJobs : ForgejoStep(j)
    BY <2>3, DeferForgejoKeeps, SendForgejoKeeps DEF ForgejoStep
  <2>4. CASE OtherProcess
    BY <2>4, OtherProcessKeeps
  <2>5. CASE UNCHANGED pacingVars
    BY <2>5, StutterKeeps
  <2> QED
    BY <2>1, <2>2, <2>3, <2>4, <2>5 DEF PacingNext
<1> QED
  BY <1>1, InitIInv, PTL DEF PacingSpec

\* However the two clocks differ, and as long as what is spent unheard in a
\* window fits into the margin, GitHub refuses a request of the scheduler for
\* want of quota only when the window is over by the host's clock and not by
\* its own: never, when the host is not ahead.
THEOREM QuotaIsKept == PacingSpec => [](RefusedOnlyAhead /\ QuotaKnown)
<1>1. PacingInv => RefusedOnlyAhead /\ QuotaKnown
  BY DEF PacingInv
<1> QED
  BY <1>1, PacingInductive, PTL

\* No job is deferred twice for the same window.
THEOREM OneDeferralPerWindow == PacingSpec => []DeferralSuffices
<1>1. PacingInv => DeferralSuffices
  BY DueIsPast DEF PacingInv, DeferralSuffices, Denied, PacingTypeOK
<1> QED
  BY <1>1, PacingInductive, PTL

\* A silence the Forgejo host asks for binds every one of its feeds.
THEOREM SilenceBindsAllFeeds == PacingSpec => []HostIsPaced
<1>1. PacingInv => HostIsPaced
  BY DEF PacingInv, SilenceKept, HostIsPaced
<1> QED
  BY <1>1, PacingInductive, PTL

\* No job waits longer than the longest of the waits the code can compute.
THEOREM NoJobForgotten == PacingSpec => []WaitsBounded
<1>1. PacingInv => WaitsBounded
  BY DEF PacingInv
<1> QED
  BY <1>1, PacingInductive, PTL
=============================================================================
