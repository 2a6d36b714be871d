--------------------------- MODULE Archives_proofs ---------------------------
(***************************************************************************)
(* Proofs about Archives: whatever fills, grows or fails while an archive  *)
(* is read, what the cursor has passed is stored but for what it was told  *)
(* it could not read, and the tail begins only after a run of misses.      *)
(***************************************************************************)
EXTENDS Archives, WellFoundedInduction, TLAPS

TopicSet == [mode : {"topic", "tail"}, id : Nat, misses : Nat]

\* The log of a day that is not over has not been read.
NoDayTooSoon == adapter = "irc" => \A p \in Places : p >= end => stored[p] = 0

\* A topic that was missing, or showed no board, when it was asked for.
Missed(p) == behind[p] = 0 \/ p \in boardless

\* The topics counted as misses were misses when they were asked for, those of
\* the run that is still going on as well.
MissesWereMisses ==
  adapter = "bitcointalk" /\ cursor # NoCursor =>
    /\ cursor \in TopicSet
    /\ cursor.mode = "topic" =>
         \A p \in Places : p \in cursor.id - cursor.misses..cursor.id - 1 => Missed(p)

IInv == ReadsWhatItPasses /\ NoDayTooSoon /\ MissesWereMisses /\ TailAfterGap

-----------------------------------------------------------------------------
(* Reading and passing.                                                    *)

LEMMA PlacesAreNumbers == Places \subseteq Nat \ {0} /\ Last \in Nat
BY BoundsAssumption DEF Places

\* The highest of a bounded set of numbers.
LEMMA MaxIsHighest ==
  ASSUME NEW n \in Nat, NEW S \in SUBSET (0..n), S # {}
  PROVE  Max(S) \in S /\ \A x \in S : Max(S) >= x
<1> DEFINE T == {k \in Nat : n - k \in S}
<1>1. T \subseteq Nat /\ T # {}
  <2>1. PICK x \in S : TRUE
    OBVIOUS
  <2>2. n - x \in Nat /\ n - (n - x) = x
    OBVIOUS
  <2>3. n - x \in T
    BY <2>1, <2>2
  <2> QED
    BY <2>3
<1>2. PICK k \in T : \A j \in T : ~(<<j, k>> \in OpToRel(<, Nat))
  BY <1>1, NatLessThanWellFounded, WFMin
<1>3. \A j \in T : ~(j < k)
  BY <1>1, <1>2 DEF OpToRel
<1>4. \A x \in S : n - k >= x
  <2> SUFFICES ASSUME NEW x \in S PROVE n - k >= x
    OBVIOUS
  <2>1. n - x \in Nat /\ n - (n - x) = x
    OBVIOUS
  <2>2. n - x \in T /\ k \in Nat
    BY <2>1
  <2>3. ~(n - x < k)
    BY <1>3, <2>2
  <2> QED
    BY <2>1, <2>2, <2>3
<1>5. n - k \in S
  OBVIOUS
<1> HIDE DEF T
<1> QED
  BY <1>4, <1>5 DEF Max

\* What is read is stored as it is, and nothing is stored in an older state.
LEMMA ReadStores ==
  ASSUME TypeOK, NEW S, Read(S)
  PROVE  /\ stored' \in [Places -> 0..MaxPosts]
         /\ \A p \in Places : /\ stored'[p] <= posts[p]
                              /\ stored'[p] >= stored[p]
                              /\ p \in S => stored'[p] = posts[p]
                              /\ p \notin S => stored'[p] = stored[p]
BY BoundsAssumption DEF TypeOK, Read

LEMMA PassMarks ==
  ASSUME TypeOK, NEW S, Pass(S)
  PROVE  /\ behind' \in [Places -> {NotPassed} \cup 0..MaxPosts]
         /\ \A p \in Places : /\ p \in S => behind'[p] = posts[p]
                              /\ p \notin S => behind'[p] = behind[p]
BY DEF TypeOK, Pass

\* So it is with topics, which are read as far as their pages are there.
LEMMA TopicsStored ==
  ASSUME TypeOK, NEW T \in SUBSET Places, NEW got \in [T -> 0..MaxPosts],
         \A p \in T : got[p] <= posts[p], StoreTopics(got)
  PROVE  /\ stored' \in [Places -> 0..MaxPosts]
         /\ \A p \in Places : /\ stored'[p] <= posts[p]
                              /\ stored'[p] >= stored[p]
                              /\ p \in T \ OffBoard => stored'[p] >= got[p]
BY BoundsAssumption DEF TypeOK, StoreTopics

\* A feed that passes what it stores, skips, or may not store, has stored what
\* it has passed.
LEMMA PassedStays ==
  ASSUME TypeOK, PassedIsStored,
         stored' \in [Places -> 0..MaxPosts],
         \A p \in Places : stored'[p] >= stored[p],
         lost \subseteq lost', boardless \subseteq boardless', cut \subseteq cut',
         \A p \in Places :
           behind'[p] = behind[p] \/ ~(behind'[p] > 0) \/ stored'[p] >= behind'[p]
           \/ p \in lost' \cup boardless' \cup OffBoard \/ (p \in cut' /\ stored'[p] > 0)
  PROVE  PassedIsStored'
<1> SUFFICES ASSUME NEW p \in Places, behind'[p] > 0
             PROVE  \/ stored'[p] >= behind'[p] \/ p \in lost' \cup boardless' \cup OffBoard
                    \/ p \in cut' /\ stored'[p] > 0
  BY DEF PassedIsStored
<1>1. CASE behind'[p] = behind[p]
  <2>1. \/ stored[p] >= behind[p] \/ p \in lost \cup boardless \cup OffBoard
        \/ p \in cut /\ stored[p] > 0
    BY <1>1 DEF PassedIsStored
  <2>2. stored[p] \in Nat /\ stored'[p] \in Nat /\ behind[p] \in Int
    BY BoundsAssumption DEF TypeOK, NotPassed
  <2> QED
    BY <1>1, <2>1, <2>2
<1> QED
  BY <1>1

-----------------------------------------------------------------------------
(* The steps.                                                              *)

LEMMA InitIInv == Init => IInv
<1> SUFFICES ASSUME Init PROVE IInv
  OBVIOUS
<1>1. TypeOK
  <2>1. /\ posts \in [Places -> 0..MaxPosts] /\ stored \in [Places -> 0..MaxPosts]
        /\ \A p \in Places : stored[p] = 0 /\ posts[p] \in {0, 1}
    BY BoundsAssumption DEF Init
  <2>2. behind \in [Places -> {NotPassed} \cup 0..MaxPosts]
    BY DEF Init
  <2>3. \A p \in Places : stored[p] <= posts[p]
    BY <2>1
  <2>4. /\ adapter \in Adapters /\ end \in Places /\ resting \in BOOLEAN
        /\ lost = {} /\ boardless = {} /\ cut = {} /\ cursor = NoCursor
    BY DEF Init
  <2> QED
    BY <2>1, <2>2, <2>3, <2>4 DEF TypeOK
<1>2. PassedIsStored
  BY DEF Init, PassedIsStored, NotPassed
<1> QED
  BY <1>1, <1>2 DEF Init, IInv, ReadsWhatItPasses, CursorAtMessage, OnlyWholeLogs,
                    NoDayTooSoon, MissesWereMisses, TailAfterGap

LEMMA FetchLogIInv == IInv /\ FetchLog => IInv'
<1> SUFFICES ASSUME TypeOK, PassedIsStored, OnlyWholeLogs, NoDayTooSoon, FetchLog PROVE IInv'
  BY DEF IInv, ReadsWhatItPasses
<1> DEFINE day == IF cursor = NoCursor THEN 1 ELSE cursor
<1>1. /\ adapter = "irc" /\ adapter' = adapter
      /\ end' = end /\ posts' = posts
      /\ lost' = lost /\ boardless' = boardless /\ cut' = cut
  BY DEF FetchLog, archive, faults
<1>2. day \in Nat \ {0} /\ end \in Places /\ end \in Nat
  BY <1>1, PlacesAreNumbers DEF TypeOK
<1>3. CASE DayOver(day)
  <2>1. Read({day}) /\ Pass({day}) /\ cursor' = day + 1 /\ resting' = FALSE
    BY <1>3 DEF FetchLog, Continue
  <2>2. day < end /\ day \in Places
    <3> HIDE DEF day
    <3> QED
      BY <1>2, <1>3, BoundsAssumption DEF DayOver, Places
  <2> HIDE DEF day
  <2>3. TypeOK'
    <3>1. cursor' \in 2..end
      BY <1>2, <2>1, <2>2
    <3> QED
      BY <1>1, <2>1, <3>1, ReadStores, PassMarks DEF TypeOK
  <2>4. PassedIsStored'
    <3>1. \A p \in Places : behind'[p] = behind[p] \/ stored'[p] >= behind'[p]
      BY <2>1, <2>2, ReadStores, PassMarks, BoundsAssumption DEF TypeOK
    <3> QED
      BY <1>1, <2>1, <3>1, ReadStores, PassedStays
  <2>5. OnlyWholeLogs' /\ NoDayTooSoon'
    <3>1. \A p \in Places : stored'[p] \in {0, posts[p]}
      BY <1>1, <2>1, ReadStores DEF OnlyWholeLogs
    <3>2. ASSUME NEW p \in Places, p >= end PROVE stored'[p] = 0
      <4>1. p \notin {day}
        BY <1>2, <2>2, <3>2, PlacesAreNumbers
      <4> QED
        BY <1>1, <2>1, <3>2, <4>1, ReadStores DEF NoDayTooSoon
    <3> QED
      BY <1>1, <3>1, <3>2 DEF OnlyWholeLogs, NoDayTooSoon
  <2> QED
    BY <1>1, <2>3, <2>4, <2>5
       DEF IInv, ReadsWhatItPasses, CursorAtMessage, MissesWereMisses, TailAfterGap
<1>4. CASE ~DayOver(day)
  <2>1. UNCHANGED <<stored, behind, cursor>> /\ resting' = TRUE
    BY <1>4 DEF FetchLog, Rest
  <2> QED
    BY <1>1, <2>1 DEF IInv, ReadsWhatItPasses, TypeOK, PassedIsStored, CursorAtMessage,
       OnlyWholeLogs, NoDayTooSoon, MissesWereMisses, TailAfterGap
<1> QED
  BY <1>3, <1>4

LEMMA FetchMessagesIInv == IInv /\ FetchMessages => IInv'
<1> SUFFICES ASSUME TypeOK, PassedIsStored, CursorAtMessage, FetchMessages PROVE IInv'
  BY DEF IInv, ReadsWhatItPasses
<1> DEFINE start == IF cursor = NoCursor THEN 1 ELSE cursor + 1
<1>1. /\ adapter = "mail_archive" /\ adapter' = adapter
      /\ end' = end /\ posts' = posts /\ boardless' = boardless /\ cut' = cut
  BY DEF FetchMessages, archive
<1>2. start \in Nat
  <2>1. cursor # NoCursor => cursor \in Nat
    BY <1>1, PlacesAreNumbers DEF CursorAtMessage
  <2> QED
    BY <2>1
<1>3. PICK failing \in SUBSET (Places \cap start..start + PageSize - 1) :
        LET visited == Visited(start, failing)
            read == {n \in visited : Found(n, failing)}
            upto == UpTo(start, read)
            skipped == {n \in failing \cap visited : n < upto}
        IN  /\ failing \subseteq visited
            /\ Read(read)
            /\ IF read = {} THEN Rest /\ UNCHANGED <<behind, lost>>
               ELSE /\ Continue(upto)
                    /\ Pass(Places \cap start..upto)
                    /\ lost' = lost \cup skipped
                    /\ Cardinality(lost') <= MaxLosses
  BY DEF FetchMessages
<1> HIDE DEF start
<1> DEFINE visited == Visited(start, failing)
           read == {n \in visited : Found(n, failing)}
           upto == UpTo(start, read)
           skipped == {n \in failing \cap visited : n < upto}
<1>4. Read(read)
  BY <1>3
<1>5. \A n \in read : n \in Places /\ n \in visited /\ posts[n] > 0 /\ n \notin failing
  BY DEF Found
<1>6. \A n \in visited, k \in start..start + PageSize - 1 : k <= n => k \in visited
  <2> SUFFICES ASSUME NEW n \in visited, NEW k \in start..start + PageSize - 1, k <= n
               PROVE  k \in visited
    OBVIOUS
  <2>1. /\ n \in start..start + PageSize - 1
        /\ \A j \in start..n - 1 : MissingRun(start, j, failing) < MaxMissing
    BY DEF Visited
  <2>2. \A j \in start..k - 1 : j \in start..n - 1
    BY <1>2, <2>1, BoundsAssumption
  <2> QED
    BY <2>1, <2>2 DEF Visited
<1>7. CASE read = {}
  <2>1. UNCHANGED <<behind, lost, cursor>> /\ resting' = TRUE
    BY <1>3, <1>7 DEF Rest
  <2>2. stored' = stored
    BY <1>4, <1>7 DEF Read, TypeOK
  <2> QED
    BY <1>1, <2>1, <2>2 DEF IInv, ReadsWhatItPasses, TypeOK, PassedIsStored, CursorAtMessage,
       OnlyWholeLogs, NoDayTooSoon, MissesWereMisses, TailAfterGap
<1>8. CASE read # {}
  <2>1. /\ cursor' = upto /\ resting' = FALSE
        /\ Pass(Places \cap start..upto)
        /\ lost' = lost \cup skipped
    BY <1>3, <1>8 DEF Continue
  <2>2. upto \in read
    <3>1. read \subseteq 0..Last
      BY <1>5, PlacesAreNumbers DEF Places
    <3> HIDE DEF read
    <3> QED
      BY <1>8, <3>1, MaxIsHighest, PlacesAreNumbers DEF UpTo
  <2>3. upto \in Places /\ upto \in visited /\ posts[upto] > 0 /\ upto \in Nat
    BY <1>5, <2>2, PlacesAreNumbers
  <2>4. upto \in start..start + PageSize - 1
    BY <2>3 DEF Visited
  <2> HIDE DEF upto
  <2>5. skipped \subseteq Places
    OBVIOUS
  <2>6. ASSUME NEW p \in Places \cap start..upto, posts[p] > 0
        PROVE  p \in read \/ p \in skipped
    <3>1. p \in Nat /\ p <= upto /\ p \in start..start + PageSize - 1
      BY <1>2, <2>4, <2>6, PlacesAreNumbers, BoundsAssumption
    <3>2. p \in visited
      BY <1>6, <2>3, <3>1
    <3>3. CASE p \in failing
      BY <1>5, <2>2, <2>3, <3>1, <3>2, <3>3
    <3>4. CASE p \notin failing
      BY <2>6, <3>2, <3>4 DEF Found
    <3> QED
      BY <3>3, <3>4
  <2> HIDE DEF skipped, read, visited
  <2>7. TypeOK'
    BY <1>1, <1>4, <2>1, <2>5, ReadStores, PassMarks DEF TypeOK
  <2>8. PassedIsStored'
    <3>1. ASSUME NEW p \in Places
          PROVE  behind'[p] = behind[p] \/ ~(behind'[p] > 0) \/ stored'[p] >= behind'[p]
                 \/ p \in lost' \cup boardless' \cup OffBoard
      <4>1. CASE p \notin start..upto
        BY <2>1, <4>1, PassMarks
      <4>2. CASE p \in start..upto
        <5>1. behind'[p] = posts[p] /\ posts[p] \in Nat
          BY <2>1, <4>2, PassMarks, BoundsAssumption DEF TypeOK
        <5>2. p \in read => stored'[p] = posts[p]
          BY <1>4, ReadStores
        <5> QED
          BY <2>1, <2>6, <4>2, <5>1, <5>2
      <4> QED
        BY <4>1, <4>2
    <3> QED
      BY <1>1, <1>4, <2>1, <3>1, ReadStores, PassedStays
  <2>9. CursorAtMessage'
    BY <1>1, <1>4, <2>1, <2>2, <2>3, ReadStores DEF CursorAtMessage
  <2> QED
    BY <1>1, <2>7, <2>8, <2>9
       DEF IInv, ReadsWhatItPasses, OnlyWholeLogs, NoDayTooSoon, MissesWereMisses, TailAfterGap
<1> QED
  BY <1>7, <1>8

\* A bitcointalk step that leaves the archive alone.
LEMMA TopicStep ==
  ASSUME IInv, adapter = "bitcointalk", UNCHANGED <<adapter, end, posts>>,
         TypeOK', PassedIsStored', MissesWereMisses', TailAfterGap'
  PROVE  IInv'
BY DEF IInv, ReadsWhatItPasses, CursorAtMessage, OnlyWholeLogs, NoDayTooSoon

LEMMA TopicCursorType ==
  ASSUME MissesWereMisses, adapter = "bitcointalk"
  PROVE  /\ TopicCursor \in TopicSet
         /\ TopicCursor.mode = "topic" =>
              \A p \in Places : p \in TopicCursor.id - TopicCursor.misses..TopicCursor.id - 1
                                  => Missed(p)
BY PlacesAreNumbers DEF MissesWereMisses, TopicCursor, Topic, TopicSet

LEMMA FetchTopicIInv == IInv /\ FetchTopic => IInv'
<1> SUFFICES ASSUME IInv, FetchTopic PROVE IInv'
  OBVIOUS
<1> DEFINE c == TopicCursor
<1>1. /\ adapter = "bitcointalk" /\ UNCHANGED <<adapter, end, posts, lost, boardless>>
      /\ Pass({c.id}) /\ cut \subseteq cut'
      /\ cursor' = Topic(c.id + 1, 0) /\ resting' = FALSE
      /\ c.id \in Places
  BY DEF FetchTopic, archive, Continue, AfterTopic, Exists
<1>2. TypeOK /\ PassedIsStored /\ c.id \in Nat
  BY <1>1, TopicCursorType DEF IInv, ReadsWhatItPasses, TopicSet
<1>3. PICK n \in 1..posts[c.id] :
        /\ StoreTopics([p \in {c.id} |-> n])
        /\ cut' = IF n < posts[c.id] THEN cut \cup {c.id} ELSE cut
  BY DEF FetchTopic
<1> HIDE DEF c
<1> DEFINE got == [p \in {c.id} |-> n]
<1>4. posts[c.id] \in 0..MaxPosts /\ n \in 1..MaxPosts /\ n <= posts[c.id]
  BY <1>1, <1>2, BoundsAssumption DEF TypeOK
<1>a. /\ stored' \in [Places -> 0..MaxPosts]
      /\ \A p \in Places : stored'[p] <= posts[p] /\ stored'[p] >= stored[p]
      /\ c.id \notin OffBoard => stored'[c.id] >= n
  <2>1. got \in [{c.id} -> 0..MaxPosts] /\ {c.id} \in SUBSET Places /\ got[c.id] = n
    BY <1>1, <1>4, BoundsAssumption
  <2>2. \A p \in {c.id} : got[p] <= posts[p]
    BY <1>4
  <2>3. StoreTopics(got)
    BY <1>3
  <2> HIDE DEF got
  <2> QED
    BY <1>1, <1>2, <2>1, <2>2, <2>3, TopicsStored
<1>b. TypeOK'
  <2>1. cut' \subseteq Places
    BY <1>1, <1>2, <1>3 DEF TypeOK
  <2> QED
    BY <1>1, <1>2, <1>a, <2>1, PassMarks DEF TypeOK
<1>c. PassedIsStored'
  <2>1. ASSUME NEW p \in Places
        PROVE  \/ behind'[p] = behind[p] \/ stored'[p] >= behind'[p] \/ p \in OffBoard
               \/ p \in cut' /\ stored'[p] > 0
    <3>1. p # c.id => behind'[p] = behind[p]
      BY <1>1, <1>2, PassMarks
    <3>2. p = c.id => behind'[p] = posts[p]
      BY <1>1, <1>2, PassMarks
    <3>3. p = c.id /\ p \notin OffBoard => stored'[p] >= n /\ stored'[p] \in Nat
      BY <1>1, <1>a, BoundsAssumption
    <3>4. n < posts[c.id] => c.id \in cut'
      BY <1>3
    <3>5. CASE n < posts[c.id]
      BY <1>4, <3>1, <3>3, <3>4, <3>5
    <3>6. CASE ~(n < posts[c.id])
      BY <1>4, <3>1, <3>2, <3>3, <3>6
    <3> QED
      BY <3>5, <3>6
  <2> QED
    BY <1>1, <1>2, <1>a, <2>1, PassedStays
<1>5. /\ cursor' \in TopicSet /\ cursor'.mode = "topic"
      /\ cursor'.id = c.id + 1 /\ cursor'.misses = 0
  BY <1>1, <1>2 DEF Topic, TopicSet
<1>6. MissesWereMisses' /\ TailAfterGap'
  BY <1>2, <1>5 DEF MissesWereMisses, TailAfterGap
<1> QED
  BY <1>1, <1>b, <1>c, <1>6, TopicStep

LEMMA MissTopicIInv == IInv /\ MissTopic => IInv'
<1> SUFFICES ASSUME IInv, MissTopic PROVE IInv'
  OBVIOUS
<1> DEFINE c == TopicCursor
<1>1. /\ adapter = "bitcointalk" /\ UNCHANGED <<adapter, end, posts, lost, cut, stored>>
      /\ c.mode = "topic"
      /\ boardless' = IF Exists(c.id) THEN boardless \cup {c.id} ELSE boardless
      /\ Pass({c.id} \cap Places)
      /\ cursor' = AfterMiss(c) /\ resting' = FALSE
  BY DEF MissTopic, archive, Continue
<1>2. /\ TypeOK /\ PassedIsStored /\ c.id \in Nat /\ c.misses \in Nat
      /\ \A p \in Places : p \in c.id - c.misses..c.id - 1 => Missed(p)
  BY <1>1, TopicCursorType DEF IInv, ReadsWhatItPasses, TopicSet
<1> HIDE DEF c
<1>3. \A p \in Places : p # c.id => behind'[p] = behind[p]
  BY <1>1, <1>2, PassMarks
<1>4. c.id \in Places => behind'[c.id] = 0 \/ c.id \in boardless'
  <2> SUFFICES ASSUME c.id \in Places, ~Exists(c.id) PROVE behind'[c.id] = 0
    BY <1>1
  <2>1. posts[c.id] \in Nat /\ ~(posts[c.id] > 0)
    BY <1>2, BoundsAssumption DEF Exists, TypeOK
  <2> QED
    BY <1>1, <1>2, <2>1, PassMarks
<1>5. \A p \in Places : p \in c.id - c.misses..c.id => Missed(p)'
  <2> SUFFICES ASSUME NEW p \in Places, p \in c.id - c.misses..c.id, p # c.id PROVE Missed(p)'
    BY <1>4 DEF Missed
  <2>1. p \in c.id - c.misses..c.id - 1
    BY <1>2, PlacesAreNumbers
  <2> QED
    BY <1>1, <1>2, <1>3, <2>1 DEF Missed
<1>a. TypeOK'
  <2>1. boardless' \subseteq Places
    BY <1>1, <1>2 DEF TypeOK, Exists
  <2> QED
    BY <1>1, <1>2, <2>1, PassMarks DEF TypeOK
<1>b. PassedIsStored'
  <2>1. ASSUME NEW p \in Places
        PROVE  behind'[p] = behind[p] \/ ~(behind'[p] > 0) \/ p \in boardless'
    BY <1>3, <1>4
  <2>2. \A p \in Places : stored'[p] >= stored[p]
    BY <1>1, <1>2, BoundsAssumption DEF TypeOK
  <2>3. boardless \subseteq boardless'
    BY <1>1
  <2> QED
    BY <1>1, <1>2, <1>a, <2>1, <2>2, <2>3, PassedStays DEF TypeOK
<1>6. CASE c.misses + 1 >= MaxMisses
  <2>1. /\ cursor' \in TopicSet /\ cursor'.mode = "tail" /\ cursor'.id = c.id
    BY <1>1, <1>2, <1>6 DEF AfterMiss, TailFrom, TopicSet
  <2>2. \A p \in Places : p \in c.id - MaxMisses + 1..c.id => p \in c.id - c.misses..c.id
    BY <1>2, <1>6, PlacesAreNumbers, BoundsAssumption
  <2>3. MissesWereMisses' /\ TailAfterGap'
    BY <1>5, <2>1, <2>2 DEF MissesWereMisses, TailAfterGap, Missed
  <2> QED
    BY <1>1, <1>a, <1>b, <2>3, TopicStep
<1>7. CASE ~(c.misses + 1 >= MaxMisses)
  <2>1. /\ cursor' \in TopicSet /\ cursor'.mode = "topic"
        /\ cursor'.id = c.id + 1 /\ cursor'.misses = c.misses + 1
    BY <1>1, <1>2, <1>7 DEF AfterMiss, Topic, TopicSet
  <2>2. (c.id + 1) - (c.misses + 1) = c.id - c.misses /\ (c.id + 1) - 1 = c.id
    BY <1>2
  <2>3. MissesWereMisses' /\ TailAfterGap'
    BY <1>5, <2>1, <2>2 DEF MissesWereMisses, TailAfterGap, Missed
  <2> QED
    BY <1>1, <1>a, <1>b, <2>3, TopicStep
<1> QED
  BY <1>6, <1>7

LEMMA FetchRecentIInv == IInv /\ FetchRecent => IInv'
<1> SUFFICES ASSUME IInv, FetchRecent PROVE IInv'
  OBVIOUS
<1>1. PICK got \in [Recent -> 0..MaxPosts] :
        /\ \A p \in Recent : got[p] <= posts[p]
        /\ StoreTopics(got)
  BY DEF FetchRecent
<1>2. /\ adapter = "bitcointalk"
      /\ UNCHANGED <<adapter, end, posts, lost, boardless, cut, behind, cursor>>
      /\ resting' = TRUE
  BY DEF FetchRecent, archive, faults, Rest
<1>3. TypeOK /\ PassedIsStored /\ MissesWereMisses /\ TailAfterGap
  BY DEF IInv, ReadsWhatItPasses
<1>a. /\ stored' \in [Places -> 0..MaxPosts]
      /\ \A p \in Places : stored'[p] <= posts[p] /\ stored'[p] >= stored[p]
  BY <1>1, <1>3, BoundsAssumption DEF TypeOK, StoreTopics
<1>4. TypeOK'
  BY <1>2, <1>3, <1>a DEF TypeOK
<1>5. PassedIsStored'
  BY <1>2, <1>3, <1>a, PassedStays
<1>6. MissesWereMisses' /\ TailAfterGap'
  BY <1>2, <1>3 DEF MissesWereMisses, TailAfterGap, Missed
<1> QED
  BY <1>2, <1>4, <1>5, <1>6, TopicStep

LEMMA StepIInv == IInv /\ [Next]_vars => IInv'
<1> SUFFICES ASSUME IInv, [Next]_vars PROVE IInv'
  OBVIOUS
<1> USE DEF IInv, ReadsWhatItPasses
<1>1. CASE Fetch
  BY <1>1, FetchLogIInv, FetchMessagesIInv, FetchTopicIInv, MissTopicIInv, FetchRecentIInv DEF Fetch
<1>2. CASE Wake
  BY <1>2 DEF Wake, archive, TypeOK, PassedIsStored, CursorAtMessage, OnlyWholeLogs,
              NoDayTooSoon, MissesWereMisses, TailAfterGap, Missed, faults
<1>3. CASE Extend
  <2>1. end' = end + 1 /\ end' \in Places /\ end \in Places
    BY <1>3, PlacesAreNumbers DEF Extend, TypeOK, Places
  <2>2. UNCHANGED <<adapter, posts, cursor, resting, stored, faults, behind>>
    BY <1>3 DEF Extend
  <2>3. TypeOK'
    BY <2>1, <2>2, PlacesAreNumbers DEF TypeOK, faults
  <2>4. NoDayTooSoon'
    BY <2>1, <2>2, PlacesAreNumbers DEF NoDayTooSoon
  <2> QED
    BY <2>2, <2>3, <2>4 DEF PassedIsStored, CursorAtMessage, OnlyWholeLogs,
                            MissesWereMisses, TailAfterGap, Missed, faults
<1>4. ASSUME NEW p \in Places, Post(p) PROVE IInv'
  <2>1. /\ UNCHANGED <<adapter, end, cursor, resting, stored, faults, behind>>
        /\ posts' = [posts EXCEPT ![p] = posts[p] + 1] /\ posts[p] < MaxPosts
        /\ adapter = "irc" => p = end \/ posts[p] = 0
    BY <1>4 DEF Post
  <2>2. posts' \in [Places -> 0..MaxPosts] /\ \A q \in Places : posts'[q] >= posts[q]
    BY <2>1, BoundsAssumption DEF TypeOK
  <2>3. TypeOK'
    BY <2>1, <2>2, BoundsAssumption DEF TypeOK, faults
  <2>4. OnlyWholeLogs'
    <3> SUFFICES ASSUME adapter = "irc", NEW q \in Places PROVE stored[q] \in {0, posts'[q]}
      BY <2>1 DEF OnlyWholeLogs
    <3>1. CASE q # p
      BY <2>1, <3>1 DEF OnlyWholeLogs, TypeOK
    <3>2. CASE q = p
      <4>1. p = end => stored[p] = 0
        BY PlacesAreNumbers DEF NoDayTooSoon
      <4>2. posts[p] = 0 => stored[p] = 0
        BY DEF OnlyWholeLogs
      <4> QED
        BY <2>1, <3>2, <4>1, <4>2
    <3> QED
      BY <3>1, <3>2
  <2> QED
    BY <2>1, <2>3, <2>4 DEF PassedIsStored, CursorAtMessage, NoDayTooSoon,
                            MissesWereMisses, TailAfterGap, Missed, faults
<1>5. CASE UNCHANGED vars
  BY <1>5 DEF vars, archive, TypeOK, PassedIsStored, CursorAtMessage, OnlyWholeLogs,
              NoDayTooSoon, MissesWereMisses, TailAfterGap, Missed, faults
<1> QED
  BY <1>1, <1>2, <1>3, <1>4, <1>5 DEF Next

\* What a feed's cursor has passed is stored as it was then, for every archive
\* and page size, but for the messages whose error was skipped, the topics of
\* other boards or without a board on their page, and the later pages of a topic
\* that were a 404; no log or message is passed that may still grow.
THEOREM PassedIsRead == Spec => []ReadsWhatItPasses
<1>1. IInv => ReadsWhatItPasses
  BY DEF IInv
<1>2. QED
  BY <1>1, InitIInv, StepIInv, PTL DEF Spec

\* The walk over topics ends only after MaxMisses topics in a row that were
\* missing or showed no board when they were asked for (fetch_topic).
THEOREM TailBeginsAtGap == Spec => []TailAfterGap
<1>1. IInv => TailAfterGap
  BY DEF IInv
<1>2. QED
  BY <1>1, InitIInv, StepIInv, PTL DEF Spec
=============================================================================
