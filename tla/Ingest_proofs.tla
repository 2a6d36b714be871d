---------------------------- MODULE Ingest_proofs ----------------------------
(***************************************************************************)
(* Proofs about two parts that keep the documents up to date beside the    *)
(* queue: re-enrichment (Reenrich, for every finite set of documents,      *)
(* every set of concurrent requests, and every bound on versions and       *)
(* crashes), and then the feeds that page through a listing (Listings, for *)
(* every set of items, page size and bound).                               *)
(***************************************************************************)
EXTENDS Reenrich, Listings, FiniteSetTheorems, TLAPS

\* Counting a document takes it off the task's list.
LEMMA CountOne ==
  ASSUME NEW T \in SUBSET Docs, NEW d \in T
  PROVE  /\ T \ {d} \in SUBSET Docs
         /\ Cardinality(T) \in Nat /\ Cardinality(T \ {d}) \in Nat
         /\ Cardinality(T \ {d}) + 1 = Cardinality(T)
<1>1. IsFiniteSet(T)
  BY ReenrichAssumption, FS_Subset
<1>2. Cardinality(T) \in Nat /\ Cardinality(T \ {d}) = Cardinality(T) - 1
  BY <1>1, FS_CardinalityType, FS_RemoveElement
<1>3. Cardinality(T \ {d}) \in Nat
  BY <1>1, FS_RemoveElement, FS_CardinalityType
<1>4. QED
  BY <1>2, <1>3

LEMMA CardinalityOfDocs ==
  ASSUME NEW T \in SUBSET Docs
  PROVE  Cardinality(T) \in Nat /\ (Cardinality(T) = 0 <=> T = {})
BY ReenrichAssumption, FS_Subset, FS_CardinalityType, FS_EmptySet

-----------------------------------------------------------------------------
(* Type correctness.                                                       *)

LEMMA InitTypeOK == Init => TypeOK
BY ReenrichAssumption DEF Init, TypeOK, Phases, Running, Patience

\* Count changes the task's own fields only, and the sum stays.
LEMMA CountTypeOK ==
  ASSUME TypeOK, NEW c \in Calls, NEW d \in todo[c], Running(c),
         doing[c] \in {d, NoDoc}, Count(c, d)
  PROVE  /\ phase' = phase /\ jobs' = jobs /\ crashes' = crashes
         /\ todo' \in [Calls -> SUBSET Docs]
         /\ doing' \in [Calls -> Docs \cup {NoDoc}] /\ seen' \in [Calls -> 0..MaxVersions]
         /\ progress' \in [Calls -> [total : Nat, done : Nat]] /\ raced' \in [Calls -> BOOLEAN]
         /\ \A o \in Calls :
              /\ doing'[o] # NoDoc => o # c /\ doing'[o] = doing[o]
              /\ o # c => todo'[o] = todo[o] /\ seen'[o] = seen[o] /\ progress'[o] = progress[o]
              /\ Running(o) =>
                   progress'[o].done + Cardinality(todo'[o]) = progress'[o].total
<1>1. todo[c] \in SUBSET Docs /\ d \in todo[c]
  BY DEF TypeOK
<1>2. /\ Cardinality(todo[c]) \in Nat /\ Cardinality(todo[c] \ {d}) \in Nat
      /\ Cardinality(todo[c] \ {d}) + 1 = Cardinality(todo[c])
  BY <1>1, CountOne
<1>3. /\ progress[c].done \in Nat /\ progress[c].total \in Nat
      /\ progress[c].done + Cardinality(todo[c]) = progress[c].total
  BY DEF TypeOK
<1>4. /\ progress' \in [Calls -> [total : Nat, done : Nat]]
      /\ progress'[c].done = progress[c].done + 1 /\ progress'[c].total = progress[c].total
      /\ \A o \in Calls : o # c => progress'[o] = progress[o]
  BY <1>3 DEF TypeOK, Count
<1>5. /\ todo' \in [Calls -> SUBSET Docs] /\ todo'[c] = todo[c] \ {d}
      /\ \A o \in Calls : o # c => todo'[o] = todo[o]
  BY DEF TypeOK, Count
<1>6. progress'[c].done + Cardinality(todo'[c]) = progress'[c].total
  BY <1>2, <1>3, <1>4, <1>5
<1>7. \A o \in Calls : o # c /\ Running(o) =>
        progress'[o].done + Cardinality(todo'[o]) = progress'[o].total
  BY <1>4, <1>5 DEF TypeOK
<1>8. /\ doing' \in [Calls -> Docs \cup {NoDoc}] /\ seen' \in [Calls -> 0..MaxVersions]
      /\ raced' \in [Calls -> BOOLEAN] /\ phase' = phase /\ jobs' = jobs /\ crashes' = crashes
      /\ doing'[c] = NoDoc
      /\ \A o \in Calls : o # c => doing'[o] = doing[o] /\ seen'[o] = seen[o]
  BY ReenrichAssumption DEF TypeOK, Count
<1>9. QED
  BY <1>4, <1>5, <1>6, <1>7, <1>8

LEMMA TaskTypeOK ==
  ASSUME TypeOK, NEW c \in Calls, Task(c)
  PROVE  TypeOK'
<1>0. patience' = patience
  BY DEF Task
<1> USE <1>0
<1>1. ASSUME NEW d \in Docs, Read(c, d) PROVE TypeOK'
  <2>1. body[d] \in 0..MaxVersions /\ body[d] # 0
    BY <1>1 DEF TypeOK, Read
  <2> QED
    BY <1>1, <2>1 DEF TypeOK, Read, store, Running
<1>2. ASSUME NEW d \in Docs, ReadGoneOrFailed(c, d) PROVE TypeOK'
  <2>1. d \in todo[c] /\ Running(c) /\ doing[c] = NoDoc /\ Count(c, d)
    BY <1>2 DEF ReadGoneOrFailed, Running, Skip
  <2> QED
    BY <1>2, <2>1, CountTypeOK DEF TypeOK, ReadGoneOrFailed, store, Running
<1>3. ASSUME Replace(c) PROVE TypeOK'
  <2>1. /\ doing[c] \in todo[c] /\ doing[c] \in Docs /\ Running(c) /\ Count(c, doing[c])
    BY <1>3 DEF TypeOK, Replace
  <2>2. /\ edges' \in [Docs -> 0..MaxVersions] /\ own' \in [Docs -> 0..MaxVersions]
        /\ overtaken' \in [Docs -> BOOLEAN] /\ reenriched' \in [Docs -> BOOLEAN]
    <3>1. CASE body[doing[c]] = 0
      BY <1>3, <3>1 DEF TypeOK, Replace
    <3>2. CASE body[doing[c]] # 0
      <4>1. /\ edges' = [edges EXCEPT ![doing[c]] = seen[c]]
            /\ own' = [own EXCEPT ![doing[c]] = 0]
            /\ overtaken' = [overtaken EXCEPT ![doing[c]] = raced[c]]
            /\ reenriched' = [reenriched EXCEPT ![doing[c]] = TRUE]
        BY <1>3, <3>2 DEF Replace, Rewrite
      <4>2. seen[c] \in 0..MaxVersions /\ raced[c] \in BOOLEAN /\ 0 \in 0..MaxVersions
        BY ReenrichAssumption DEF TypeOK
      <4> QED
        BY <2>1, <4>1, <4>2 DEF TypeOK
    <3> QED
      BY <3>1, <3>2
  <2> QED
    BY <1>3, <2>1, <2>2, CountTypeOK DEF TypeOK, Replace, Running
<1>4. ASSUME ReplaceFailed(c) PROVE TypeOK'
  <2>1. /\ doing[c] \in todo[c] /\ doing[c] \in Docs /\ Running(c) /\ Count(c, doing[c])
    BY <1>4 DEF TypeOK, ReplaceFailed, Skip
  <2> QED
    BY <1>4, <2>1, CountTypeOK DEF TypeOK, ReplaceFailed, store, Running
<1>5. ASSUME Finish(c) PROVE TypeOK'
  BY <1>5 DEF TypeOK, Finish, Enter, store, Running, Phases
<1>6. ASSUME CleanUp(c) PROVE TypeOK'
  BY <1>6 DEF TypeOK, CleanUp, Enter, store, Running, Phases
<1>7. QED
  BY <1>1, <1>2, <1>3, <1>4, <1>5, <1>6 DEF Task

LEMMA RequestTypeOK ==
  ASSUME TypeOK, NEW c \in Calls, Request(c), UNCHANGED patience
  PROVE  TypeOK'
<1>1. ASSUME AskReenrich(c) PROVE TypeOK'
  BY <1>1 DEF TypeOK, AskReenrich, MayAsk, Enter, store, Running, Phases
<1>2. ASSUME ListDocs(c) PROVE TypeOK'
  BY <1>2 DEF TypeOK, ListDocs, Enter, store, Running, Phases
<1>3. ASSUME Register(c) PROVE TypeOK'
  <2>1. Cardinality(todo[c]) \in Nat
    BY CardinalityOfDocs DEF TypeOK
  <2>2. /\ progress' \in [Calls -> [total : Nat, done : Nat]]
        /\ progress'[c] = [total |-> Cardinality(todo[c]), done |-> 0]
        /\ \A o \in Calls : o # c => progress'[o] = progress[o]
    BY <1>3, <2>1 DEF TypeOK, Register
  <2>3. /\ phase' \in [Calls -> Phases] /\ todo' = todo
        /\ \A o \in Calls : o # c => phase'[o] = phase[o]
    BY <1>3 DEF TypeOK, Register, Enter, Phases
  <2>4. \A o \in Calls : Running(o)' =>
          progress'[o].done + Cardinality(todo'[o]) = progress'[o].total
    BY <2>1, <2>2, <2>3 DEF TypeOK, Running
  <2>5. \A o \in Calls : doing'[o] # NoDoc => Running(o)' /\ doing'[o] \in todo'[o] /\ seen'[o] # 0
    BY <1>3 DEF TypeOK, Register, Enter, Running
  <2> QED
    BY <1>3, <2>2, <2>3, <2>4, <2>5 DEF TypeOK, Register, store
<1>4. ASSUME AskReset(c) PROVE TypeOK'
  BY <1>4 DEF TypeOK, AskReset, MayAsk, Enter, store, Running, Phases
<1>5. ASSUME Reset(c) PROVE TypeOK'
  BY <1>5, ReenrichAssumption DEF TypeOK, Reset, Enter, Running, Phases
<1>6. ASSUME Abandon(c) PROVE TypeOK'
  BY <1>6 DEF TypeOK, Abandon, Answering, Enter, store, Running, Phases
<1>7. QED
  BY <1>1, <1>2, <1>3, <1>4, <1>5, <1>6 DEF Request

LEMMA StepTypeOK == TypeOK /\ [Next]_vars => TypeOK'
<1> SUFFICES ASSUME TypeOK, [Next]_vars PROVE TypeOK'
  OBVIOUS
<1>0. patience' = patience
  BY DEF Next, Task, vars
<1> USE <1>0
<1>1. ASSUME NEW d \in Docs, NEW v \in 1..MaxVersions, Ingest(d, v) PROVE TypeOK'
  <2>1. v \in 0..MaxVersions /\ Sent(d, v) \in 0..MaxVersions
    BY ReenrichAssumption DEF Sent
  <2> QED
    BY <1>1, <2>1 DEF TypeOK, Ingest, Running
<1>2. CASE Crash
  BY <1>2, ReenrichAssumption DEF TypeOK, Crash, store, Running, Phases
<1>3. CASE UNCHANGED vars
  BY <1>3 DEF TypeOK, vars, store, tasks, Running
<1>4. QED
  BY <1>1, <1>2, <1>3, TaskTypeOK, RequestTypeOK DEF Next

\* The database and the tasks' bookkeeping are well formed in every reachable
\* state; a task's count and its list always add up to what it was started for.
THEOREM TypeCorrect == Spec => []TypeOK
<1>1. QED
  BY InitTypeOK, StepTypeOK, PTL DEF Spec

-----------------------------------------------------------------------------
(* Edges follow bodies.                                                    *)

Fresh == TypeOK /\ ReadsCurrent /\ EdgesFollowBody

LEMMA InitFresh == Init => Fresh
BY InitTypeOK DEF Init, Fresh, ReadsCurrent, EdgesFollowBody, DerivedFollow, OwnFollow, Sent

\* A task changes the edges of the document it holds, to what it has read.
LEMMA TaskFresh ==
  ASSUME Fresh, NEW c \in Calls, Task(c)
  PROVE  ReadsCurrent' /\ EdgesFollowBody'
<1>1. ASSUME NEW d \in Docs, Read(c, d) PROVE ReadsCurrent' /\ EdgesFollowBody'
  BY <1>1 DEF Fresh, TypeOK, ReadsCurrent, EdgesFollowBody, DerivedFollow, OwnFollow, Read, store
<1>2. ASSUME NEW d \in Docs, ReadGoneOrFailed(c, d) PROVE ReadsCurrent' /\ EdgesFollowBody'
  BY <1>2 DEF Fresh, TypeOK, ReadsCurrent, EdgesFollowBody, DerivedFollow, OwnFollow,
              ReadGoneOrFailed, Skip, Count, store
<1>3. ASSUME Replace(c) PROVE ReadsCurrent' /\ EdgesFollowBody'
  <2>1. doing[c] \in Docs /\ (raced[c] \/ seen[c] = body[doing[c]])
    BY <1>3 DEF Fresh, TypeOK, ReadsCurrent, Replace
  <2>2. ReadsCurrent'
    BY <1>3 DEF Fresh, TypeOK, ReadsCurrent, Replace, Count
  <2>3. ASSUME body[doing[c]] = 0 PROVE EdgesFollowBody'
    <3>1. /\ body' = body /\ edges' = edges /\ own' = own
          /\ overtaken' = overtaken /\ reenriched' = reenriched
      BY <1>3, <2>3 DEF Replace
    <3> QED
      BY <3>1 DEF Fresh, EdgesFollowBody, DerivedFollow, OwnFollow
  <2>4. ASSUME body[doing[c]] # 0 PROVE EdgesFollowBody'
    <3>1. /\ body' = body /\ edges' = [edges EXCEPT ![doing[c]] = seen[c]]
          /\ own' = [own EXCEPT ![doing[c]] = 0]
          /\ overtaken' = [overtaken EXCEPT ![doing[c]] = raced[c]]
          /\ reenriched' = [reenriched EXCEPT ![doing[c]] = TRUE]
      BY <1>3, <2>4 DEF Replace, Rewrite
    <3>2. /\ edges'[doing[c]] = seen[c] /\ (raced[c] => overtaken'[doing[c]])
          /\ own'[doing[c]] = 0 /\ reenriched'[doing[c]]
      BY <2>1, <3>1 DEF Fresh, TypeOK
    <3>3. \A d \in Docs \ {doing[c]} :
            /\ edges'[d] = edges[d] /\ overtaken'[d] = overtaken[d]
            /\ own'[d] = own[d] /\ reenriched'[d] = reenriched[d]
      BY <3>1 DEF Fresh, TypeOK
    <3> QED
      BY <2>1, <2>4, <3>1, <3>2, <3>3 DEF Fresh, EdgesFollowBody, DerivedFollow, OwnFollow
  <2> QED
    BY <2>2, <2>3, <2>4
<1>4. ASSUME ReplaceFailed(c) PROVE ReadsCurrent' /\ EdgesFollowBody'
  BY <1>4 DEF Fresh, TypeOK, ReadsCurrent, EdgesFollowBody, DerivedFollow, OwnFollow,
              ReplaceFailed, Skip, Count, store
<1>5. ASSUME Finish(c) \/ CleanUp(c) PROVE ReadsCurrent' /\ EdgesFollowBody'
  BY <1>5 DEF Fresh, ReadsCurrent, EdgesFollowBody, DerivedFollow, OwnFollow, Finish, CleanUp, store
<1>6. QED
  BY <1>1, <1>2, <1>3, <1>4, <1>5 DEF Task

LEMMA StepFresh == Fresh /\ [Next]_vars => Fresh'
<1> SUFFICES ASSUME Fresh, [Next]_vars PROVE ReadsCurrent' /\ EdgesFollowBody'
  BY StepTypeOK DEF Fresh
<1>1. ASSUME NEW d \in Docs, NEW v \in 1..MaxVersions, Ingest(d, v)
      PROVE  ReadsCurrent' /\ EdgesFollowBody'
  <2>1. /\ body' = [body EXCEPT ![d] = v] /\ edges' = [edges EXCEPT ![d] = v]
        /\ own' = [own EXCEPT ![d] = Sent(d, v)]
        /\ overtaken' = [overtaken EXCEPT ![d] = FALSE]
        /\ reenriched' = [reenriched EXCEPT ![d] = FALSE] /\ doing' = doing /\ seen' = seen
        /\ \A c \in Calls : raced'[c] = (raced[c] \/ doing[c] = d)
    BY <1>1 DEF Ingest
  <2>2. ReadsCurrent'
    BY <2>1 DEF Fresh, TypeOK, ReadsCurrent
  <2>3. EdgesFollowBody'
    <3>1. /\ edges'[d] = v /\ body'[d] = v /\ own'[d] = Sent(d, v)
          /\ ~overtaken'[d] /\ ~reenriched'[d]
      BY <2>1 DEF Fresh, TypeOK
    <3>2. \A e \in Docs \ {d} :
            /\ edges'[e] = edges[e] /\ body'[e] = body[e] /\ own'[e] = own[e]
            /\ overtaken'[e] = overtaken[e] /\ reenriched'[e] = reenriched[e]
      BY <2>1 DEF Fresh, TypeOK
    <3> QED
      BY <3>1, <3>2 DEF Fresh, EdgesFollowBody, DerivedFollow, OwnFollow
  <2> QED
    BY <2>2, <2>3
<1>2. ASSUME NEW c \in Calls, Reset(c) PROVE ReadsCurrent' /\ EdgesFollowBody'
  BY <1>2 DEF Fresh, TypeOK, ReadsCurrent, EdgesFollowBody, DerivedFollow, OwnFollow, Sent, Reset
<1>3. ASSUME NEW c \in Calls, AskReenrich(c) \/ ListDocs(c) \/ Register(c) \/ AskReset(c) \/ Abandon(c)
      PROVE  ReadsCurrent' /\ EdgesFollowBody'
  BY <1>3 DEF Fresh, ReadsCurrent, EdgesFollowBody, DerivedFollow, OwnFollow, AskReenrich,
              ListDocs, Register, AskReset, Abandon, store
<1>4. CASE Crash
  BY <1>4 DEF Fresh, ReadsCurrent, EdgesFollowBody, DerivedFollow, OwnFollow, Crash, store
<1>5. CASE UNCHANGED vars
  BY <1>5 DEF Fresh, ReadsCurrent, EdgesFollowBody, DerivedFollow, OwnFollow, vars, store, tasks
<1>6. QED
  BY <1>1, <1>2, <1>3, <1>4, <1>5, TaskFresh DEF Next, Request

\* Whatever ingestion, resets, crashes and re-enrichments do at once, a
\* document has the edges derived from its body and those its adapter sent with
\* it (store_page, replace_enrichment), but for two cases, which the theorem
\* delimits: a page commit between a re-enrichment's read and write of the
\* document leaves derived edges of an older body, and a re-enrichment, raced or
\* not, leaves none of the adapter's; a page commit repairs both.
THEOREM EdgesTrackBodies == Spec => []EdgesFollowBody
<1>1. Spec => []Fresh
  BY InitFresh, StepFresh, PTL DEF Spec
<1>2. Fresh => EdgesFollowBody
  BY DEF Fresh
<1>3. QED
  BY <1>1, <1>2, PTL

-----------------------------------------------------------------------------
(* The map of running jobs.                                                *)

LEMMA StepNoPhantomJob == TypeOK /\ NoPhantomJob /\ [Next]_vars => NoPhantomJob'
<1> SUFFICES ASSUME TypeOK, NoPhantomJob, [Next]_vars, Conflict' PROVE Running(jobs)'
  BY DEF NoPhantomJob
<1> USE DEF NoPhantomJob, Conflict, Running, Unfinished
<1>1. ASSUME NEW d \in Docs, NEW v \in 1..MaxVersions, Ingest(d, v) PROVE Running(jobs)'
  BY <1>1 DEF Ingest
<1>2. ASSUME NEW c \in Calls, Register(c) PROVE Running(jobs)'
  BY <1>2 DEF TypeOK, Register, Enter
<1>3. ASSUME NEW c \in Calls,
             AskReenrich(c) \/ ListDocs(c) \/ AskReset(c) \/ Reset(c) \/ Abandon(c)
      PROVE  Running(jobs)'
  <2>1. phase[c] # "running" /\ jobs' = jobs /\ progress' = progress
        /\ \E p : phase' = [phase EXCEPT ![c] = p]
    BY <1>3 DEF AskReenrich, ListDocs, AskReset, Reset, Abandon, MayAsk, Answering, Enter
  <2> QED
    BY <2>1 DEF TypeOK
<1>4. ASSUME NEW c \in Calls, NEW d \in Docs, Read(c, d) PROVE Running(jobs)'
  BY <1>4 DEF Read
<1>5. ASSUME NEW c \in Calls, NEW d \in Docs, Count(c, d) PROVE Running(jobs)'
  <2>1. phase' = phase /\ jobs' = jobs /\ progress' = [progress EXCEPT ![c].done = @ + 1]
    BY <1>5 DEF Count
  <2>2. jobs \in Calls /\ progress'[jobs].done < progress'[jobs].total
    BY <2>1 DEF TypeOK
  <2>3. /\ progress[jobs].done \in Nat /\ progress[jobs].total \in Nat
        /\ progress'[jobs].total = progress[jobs].total
        /\ progress'[jobs].done \in {progress[jobs].done, progress[jobs].done + 1}
    BY <2>1, <2>2 DEF TypeOK
  <2> QED
    BY <2>1, <2>2, <2>3
<1>6. ASSUME NEW c \in Calls, Finish(c) PROVE Running(jobs)'
  <2>1. progress[c].done + Cardinality(todo[c]) = progress[c].total /\ Cardinality(todo[c]) = 0
        /\ progress[c].done \in Nat /\ progress[c].total \in Nat
    BY <1>6, CardinalityOfDocs DEF TypeOK, Finish
  <2>2. jobs' = jobs /\ progress' = progress /\ phase' = [phase EXCEPT ![c] = "lingering"]
    BY <1>6 DEF Finish, Enter
  <2> QED
    BY <2>1, <2>2 DEF TypeOK
<1>7. ASSUME NEW c \in Calls, CleanUp(c) PROVE Running(jobs)'
  BY <1>7 DEF CleanUp
<1>8. CASE Crash
  BY <1>8 DEF Crash
<1>9. CASE UNCHANGED vars
  BY <1>9 DEF vars, tasks
<1>10. \A c \in Calls : \A d \in Docs : ReadGoneOrFailed(c, d) => Count(c, d)
  BY DEF ReadGoneOrFailed, Skip
<1>11. \A c \in Calls : Replace(c) \/ ReplaceFailed(c) => \E d \in Docs : Count(c, d)
  BY DEF TypeOK, Replace, ReplaceFailed, Skip
<1>12. QED
  BY <1>1, <1>2, <1>3, <1>4, <1>5, <1>6, <1>7, <1>8, <1>9, <1>10, <1>11 DEF Next, Request, Task

\* No request is refused on account of a job that no longer runs (the 409 test
\* of both handlers reads counters that the task keeps).
THEOREM NoPhantom == Spec => []NoPhantomJob
<1>1. Init => TypeOK /\ NoPhantomJob
  BY InitTypeOK DEF Init, NoPhantomJob, Conflict
<1>2. TypeOK /\ NoPhantomJob /\ [Next]_vars => TypeOK' /\ NoPhantomJob'
  BY StepTypeOK, StepNoPhantomJob
<1>3. QED
  BY <1>1, <1>2, PTL DEF Spec

-----------------------------------------------------------------------------
(* A calm administrator.                                                   *)

OrderlyIfPatient == patience = "entry" => Orderly

LEMMA InitOrderly == Init => OrderlyIfPatient
BY DEF Init, Orderly, OrderlyIfPatient, Answering

\* A task's steps leave nobody answering and keep the map's entry, or end it.
LEMMA TaskOrderly ==
  ASSUME TypeOK, Orderly, NEW c \in Calls, Task(c)
  PROVE  Orderly'
<1> USE DEF Orderly, Answering, Conflict, Unfinished
<1>1. ASSUME NEW d \in Docs, Read(c, d) PROVE Orderly'
  BY <1>1 DEF Read
<1>2. ASSUME NEW d \in Docs, Count(c, d), Running(c) PROVE Orderly'
  <2>1. phase' = phase /\ jobs' = jobs /\ progress' = [progress EXCEPT ![c].done = @ + 1]
    BY <1>2 DEF Count
  <2>2. jobs = c
    BY <1>2 DEF Running
  <2>3. /\ progress[c].done \in Nat /\ progress[c].total \in Nat
        /\ progress'[c].done = progress[c].done + 1 /\ progress'[c].total = progress[c].total
    BY <2>1 DEF TypeOK
  <2>4. (progress'[c].done < progress'[c].total) => (progress[c].done < progress[c].total)
    BY <2>3
  <2> QED
    BY <2>1, <2>2, <2>4
<1>3. ASSUME Finish(c) PROVE Orderly'
  BY <1>3 DEF TypeOK, Finish, Enter
<1>4. ASSUME CleanUp(c) PROVE Orderly'
  BY <1>4, ReenrichAssumption DEF TypeOK, CleanUp, Enter
<1>5. \A d \in Docs : ReadGoneOrFailed(c, d) => Count(c, d) /\ Running(c)
  BY DEF ReadGoneOrFailed, Skip, Running
<1>6. Replace(c) \/ ReplaceFailed(c) => \E d \in Docs : Count(c, d) /\ Running(c)
  BY DEF TypeOK, Replace, ReplaceFailed, Skip
<1>7. QED
  BY <1>1, <1>2, <1>3, <1>4, <1>5, <1>6 DEF Task

LEMMA RequestOrderly ==
  ASSUME patience = "entry", TypeOK, Orderly, NEW c \in Calls, Request(c)
  PROVE  Orderly'
<1> USE DEF Orderly, Answering, Conflict, Unfinished
<1>1. ASSUME AskReenrich(c) PROVE Orderly'
  <2>1. jobs = NoJob /\ jobs' = jobs /\ phase[c] = "idle"
        /\ phase' = [phase EXCEPT ![c] = "admitted"]
        /\ \A o \in Calls : ~Answering(o)
    BY <1>1 DEF AskReenrich, MayAsk, Enter
  <2> QED
    BY <2>1 DEF TypeOK
<1>2. ASSUME ListDocs(c) PROVE Orderly'
  BY <1>2 DEF TypeOK, ListDocs, Enter
<1>3. ASSUME Register(c) PROVE Orderly'
  <2>1. jobs = NoJob /\ jobs' = c /\ phase[c] = "listed"
        /\ phase' = [phase EXCEPT ![c] = "running"]
    BY <1>3 DEF Register, Enter
  <2>2. \A o \in Calls : o # c => phase[o] = "idle"
    BY <2>1, ReenrichAssumption DEF TypeOK, Phases
  <2> QED
    BY <2>1, <2>2 DEF TypeOK
<1>4. ASSUME AskReset(c) PROVE Orderly'
  <2>1. ~Conflict /\ jobs' = jobs /\ progress' = progress /\ phase[c] = "idle"
        /\ phase' = [phase EXCEPT ![c] = "resetting"]
        /\ \A o \in Calls : ~Answering(o)
    BY <1>4 DEF AskReset, MayAsk, Enter
  <2> QED
    BY <2>1 DEF TypeOK
<1>5. ASSUME Reset(c) PROVE Orderly'
  BY <1>5 DEF TypeOK, Reset, Enter
<1>6. ASSUME Abandon(c) PROVE Orderly'
  BY <1>6 DEF TypeOK, Abandon, Enter
<1>7. QED
  BY <1>1, <1>2, <1>3, <1>4, <1>5, <1>6 DEF Request

LEMMA StepOrderly == TypeOK /\ OrderlyIfPatient /\ [Next]_vars => OrderlyIfPatient'
<1>0. [Next]_vars => patience' = patience
  BY DEF Next, Task, vars
<1> SUFFICES ASSUME TypeOK, Orderly, patience = "entry", [Next]_vars PROVE Orderly'
  BY <1>0 DEF OrderlyIfPatient
<1> USE DEF Orderly, Answering, Conflict, Unfinished
<1>1. ASSUME NEW d \in Docs, NEW v \in 1..MaxVersions, Ingest(d, v) PROVE Orderly'
  BY <1>1 DEF Ingest
<1>2. CASE Crash
  BY <1>2 DEF Crash
<1>3. CASE UNCHANGED vars
  BY <1>3 DEF vars, tasks
<1>4. QED
  BY <1>1, <1>2, <1>3, TaskOrderly, RequestOrderly DEF Next

\* An administrator who waits for each answer, and for a finished job's entry
\* to leave the dashboard, never gets a reset past a running re-enrichment:
\* for that use the 409 test of admin_reset_source_type is enough.
THEOREM CalmResetRefused == Spec => ResetRefused
<1>1. TypeOK /\ OrderlyIfPatient /\ [Next]_vars => TypeOK' /\ OrderlyIfPatient'
  BY StepTypeOK, StepOrderly
<1>2. ASSUME Orderly, NEW c \in Calls, Reset(c)
      PROVE  ~\E o \in Calls : Running(o) /\ Unfinished(o)
  BY <1>2, ReenrichAssumption DEF Orderly, Reset, Conflict, Running
<1>3. OrderlyIfPatient => [patience = "entry" => \A c \in Calls : ~Overruns(c)]_vars
  BY <1>2 DEF OrderlyIfPatient, Overruns
<1>4. QED
  BY InitTypeOK, InitOrderly, <1>1, <1>3, PTL DEF Spec, ResetRefused

\* For the same administrator no two tasks re-enrich one type at once.
THEOREM CalmOneTask == Spec => []OneTask
<1>1. TypeOK /\ OrderlyIfPatient /\ [Next]_vars => TypeOK' /\ OrderlyIfPatient'
  BY StepTypeOK, StepOrderly
<1>2. OrderlyIfPatient => OneTask
  BY DEF Orderly, OrderlyIfPatient, OneTask, Running
<1>3. QED
  BY InitTypeOK, InitOrderly, <1>1, <1>2, PTL DEF Spec

-----------------------------------------------------------------------------
(* Listings: what a pass over a listing, or a month, promises when it is   *)
(* over, and when a spec source's slice can panic.                         *)

\* The inductive invariant.
TablesOK ==
  /\ adapter \in Adapters /\ month \in 1..LastMonth
  /\ there \subseteq Items /\ posted \in [Items -> 1..LastMonth]
  /\ \A i \in there : posted[i] <= month
  /\ version \in [Items -> Nat \ {0}] /\ stored \in [Items -> Nat]
  /\ \A i \in Items : stored[i] <= version[i]
  /\ active \in [Items -> Nat] /\ edits \in Nat
  /\ gone \subseteq Items /\ there \cap gone = {}
  /\ adapter = "delving" =>
       \A i \in Items : active[i] <= Cardinality(Items) + Cardinality(there \cup gone) + edits
  /\ \A i, k \in Items : active[i] = active[k] => i = k
  /\ resting \in BOOLEAN
  /\ skipped \subseteq Items /\ known \subseteq Items /\ moved \subseteq Items
  /\ adapter \notin Specs => known \subseteq there
  /\ discovered # None => discovered \subseteq Items
  /\ cursor # None => cursor \in [month : 1..month, offset : Nat]

\* What a pass has still before it.
Ahead(k) == Rank(Where.month, k) > Where.offset

PassSound ==
  adapter \in {"optech", "delving"} =>
    \A k \in known :
      \/ stored[k] > 0 \/ k \in skipped \/ k \in moved
      \/ ~resting /\ Ahead(k)

MonthSound ==
  adapter = "mailing_list" =>
    \A k \in known :
      /\ posted[k] <= Where.month
      /\ \/ stored[k] > 0 \/ k \in skipped \/ k \in moved
         \/ posted[k] = Where.month /\ Ahead(k)

\* Every file that has gone accounts for one that a list, or a cursor made
\* from a list, is too long by.
ListSound ==
  adapter = "bips" =>
    /\ discovered # None => Cardinality(discovered) <= Cardinality(there) + Cardinality(gone)
    /\ cursor # None => cursor.offset + 1 <= Cardinality(there) + Cardinality(gone)
    /\ discovered # None /\ Cardinality(gone) < 2 => InList

ListingsInv == TablesOK /\ PassSound /\ MonthSound /\ ListSound

-----------------------------------------------------------------------------
(* Places and pages.                                                       *)

\* A strict total order on S, as a set of pairs.
IsStrictOrder(S, R) ==
  /\ \A a \in S : <<a, a>> \notin R
  /\ \A a, b \in S : a # b => <<a, b>> \in R \/ <<b, a>> \in R
  /\ \A a, b, c \in S : <<a, b>> \in R /\ <<b, c>> \in R => <<a, c>> \in R

\* How many elements come before d.
Place(S, R, d) == Cardinality({e \in S : <<e, d>> \in R})

\* What comes earlier has fewer predecessors.
LEMMA PlacesDiffer ==
  ASSUME NEW S, IsFiniteSet(S), NEW R, IsStrictOrder(S, R),
         NEW a \in S, NEW b \in S, <<a, b>> \in R
  PROVE  /\ Place(S, R, a) \in Nat /\ Place(S, R, b) \in Nat
         /\ Place(S, R, a) < Place(S, R, b)
         /\ Place(S, R, b) < Cardinality(S)
<1> DEFINE A == {e \in S : <<e, a>> \in R}
           B == {e \in S : <<e, b>> \in R}
<1>1. A \subseteq B /\ a \in B /\ a \notin A /\ B \subseteq S /\ b \notin B
  BY DEF IsStrictOrder
<1>2. IsFiniteSet(A) /\ IsFiniteSet(B)
  BY <1>1, FS_Subset
<1>3. Cardinality(A) \in Nat /\ Cardinality(B) \in Nat /\ Cardinality(S) \in Nat
  BY <1>2, FS_CardinalityType
<1>4. /\ Cardinality(A) <= Cardinality(B) /\ Cardinality(A) # Cardinality(B)
      /\ Cardinality(B) <= Cardinality(S) /\ Cardinality(B) # Cardinality(S)
  BY <1>1, <1>2, FS_Subset
<1>5. Place(S, R, a) = Cardinality(A) /\ Place(S, R, b) = Cardinality(B)
  BY DEF Place
<1> HIDE DEF A, B
<1> QED
  BY <1>3, <1>4, <1>5

\* The places are numbered without a gap.
LEMMA Placing ==
  ASSUME NEW S, IsFiniteSet(S), NEW R, IsStrictOrder(S, R)
  PROVE  /\ Cardinality(S) \in Nat
         /\ [d \in S |-> Place(S, R, d) + 1] \in Injection(S, 1..Cardinality(S))
         /\ [d \in S |-> Place(S, R, d) + 1] \in Surjection(S, 1..Cardinality(S))
<1> DEFINE n == Cardinality(S)
           f == [d \in S |-> Place(S, R, d) + 1]
<1>1. n \in Nat
  BY FS_CardinalityType
<1>2. IsFiniteSet(1..n) /\ Cardinality(1..n) = n
  BY <1>1, FS_Interval
<1>3. f \in [S -> 1..n]
  <2>1. ASSUME NEW d \in S PROVE Place(S, R, d) + 1 \in 1..n
    <3> DEFINE D == {e \in S : <<e, d>> \in R}
    <3>1. D \subseteq S /\ d \notin D
      BY DEF IsStrictOrder
    <3>2. IsFiniteSet(D) /\ Cardinality(D) <= n /\ n # Cardinality(D)
      BY <3>1, FS_Subset
    <3>3. Cardinality(D) \in Nat
      BY <3>2, FS_CardinalityType
    <3>4. Place(S, R, d) = Cardinality(D)
      BY DEF Place
    <3> HIDE DEF D, n
    <3> QED
      BY <1>1, <3>2, <3>3, <3>4
  <2> QED
    BY <2>1
<1>4. \A d, e \in S : <<d, e>> \in R => f[d] < f[e]
  <2> SUFFICES ASSUME NEW d \in S, NEW e \in S, <<d, e>> \in R PROVE f[d] < f[e]
    OBVIOUS
  <2>1. Place(S, R, d) \in Nat /\ Place(S, R, e) \in Nat /\ Place(S, R, d) < Place(S, R, e)
    BY PlacesDiffer
  <2> QED
    BY <2>1
<1>5. \A d, e \in S : f[d] = f[e] => d = e
  <2> SUFFICES ASSUME NEW d \in S, NEW e \in S, f[d] = f[e], d # e PROVE FALSE
    OBVIOUS
  <2>1. f[d] < f[e] \/ f[e] < f[d]
    BY <1>4 DEF IsStrictOrder
  <2>2. f[d] \in Int /\ f[e] \in Int
    <3> HIDE DEF f
    <3> QED
      BY <1>1, <1>3
  <2> HIDE DEF f
  <2> QED
    BY <2>1, <2>2
<1>6. f \in Injection(S, 1..n)
  BY <1>3, <1>5 DEF Injection, IsInjective
<1>7. f \in Surjection(S, 1..n)
  <2> HIDE DEF f
  <2> QED
    BY <1>2, <1>6, FS_Injection
<1> QED
  BY <1>1, <1>6, <1>7

LEMMA PlaceType ==
  ASSUME NEW S, IsFiniteSet(S), NEW R, NEW d
  PROVE  Place(S, R, d) \in Nat
<1>1. {e \in S : <<e, d>> \in R} \subseteq S
  OBVIOUS
<1> QED
  BY <1>1, FS_Subset, FS_CardinalityType DEF Place

\* A page with something behind it is full.
LEMMA PagesAreFull ==
  ASSUME NEW S, IsFiniteSet(S), NEW R, IsStrictOrder(S, R), NEW o \in Nat, NEW s \in Nat,
         NEW d \in S, Place(S, R, d) + 1 > o + s
  PROVE  Cardinality({e \in S : Place(S, R, e) + 1 - o \in 1..s}) = s
<1>1. PICK f : f = [e \in S |-> Place(S, R, e) + 1]
  OBVIOUS
<1>2. PICK n \in Nat : n = Cardinality(S)
  BY Placing
<1>3. f \in Injection(S, 1..n) /\ f \in Surjection(S, 1..n)
  BY <1>1, <1>2, Placing
<1>4. PICK P : P = {e \in S : f[e] - o \in 1..s}
  OBVIOUS
<1>5. P = {e \in S : Place(S, R, e) + 1 - o \in 1..s}
  <2>1. \A e \in S : f[e] = Place(S, R, e) + 1
    BY <1>1
  <2>2. PICK Q : Q = {e \in S : Place(S, R, e) + 1 - o \in 1..s}
    OBVIOUS
  <2>3. \A e \in S : Place(S, R, e) \in Nat
    BY PlaceType
  <2>4. ASSUME NEW e \in S PROVE e \in P <=> e \in Q
    <3>1. PICK a \in Nat : a = Place(S, R, e)
      BY <2>3
    <3>2. f[e] = a + 1
      BY <2>1, <3>1
    <3>3. e \in P <=> a + 1 - o \in 1..s
      BY <1>4, <3>2
    <3>4. e \in Q <=> a + 1 - o \in 1..s
      BY <2>2, <3>1
    <3> QED
      BY <3>3, <3>4
  <2> QED
    BY <1>4, <2>2, <2>4
<1>6. f \in [S -> 1..n] /\ \A a, b \in S : f[a] = f[b] => a = b
  BY <1>3 DEF Injection, IsInjective
<1>7. \A a \in 1..n : \E e \in S : f[e] = a
  BY <1>3 DEF Surjection
<1>8. o + s < n
  BY <1>1, <1>6
<1>9. PICK g : g = [e \in P |-> f[e] - o]
  OBVIOUS
<1>10. g \in [P -> 1..s]
  BY <1>4, <1>9
<1>11. \A a, b \in P : g[a] = g[b] => a = b
  BY <1>4, <1>6, <1>9
<1>12. \A b \in 1..s : \E e \in P : g[e] = b
  <2> SUFFICES ASSUME NEW b \in 1..s PROVE \E e \in P : g[e] = b
    OBVIOUS
  <2>1. o + b \in 1..n
    BY <1>8
  <2>2. PICK e \in S : f[e] = o + b
    BY <1>7, <2>1
  <2> QED
    BY <1>4, <1>9, <2>2
<1>13. g \in Injection(P, 1..s)
  BY <1>10, <1>11 DEF Injection, IsInjective
<1>14. g \in Surjection(P, 1..s)
  BY <1>10, <1>12 DEF Surjection
<1>15. IsFiniteSet(1..s) /\ Cardinality(1..s) = s
  BY FS_Interval
<1> QED
  BY <1>5, <1>13, <1>14, <1>15, FS_Injection

-----------------------------------------------------------------------------
(* Places in a listing.                                                    *)

\* The listing is a finite set of items.
LEMMA ListedType ==
  ASSUME TablesOK, adapter \in Specs => discovered # None, NEW m
  PROVE  /\ Listed(m) \subseteq Items /\ IsFiniteSet(Listed(m)) /\ Cardinality(Listed(m)) \in Nat
         /\ adapter \notin Specs => Listed(m) \subseteq there
<1>1. Listed(m) \subseteq Items /\ (adapter \notin Specs => Listed(m) \subseteq there)
  BY DEF Listed, TablesOK
<1> QED
  BY <1>1, ListingsAssumption, FS_Subset, FS_CardinalityType

LEMMA ItemsAreNumbers == Items \subseteq Nat /\ Cardinality(Items) \in Nat /\ IsFiniteSet(Items)
BY ListingsAssumption, FS_CardinalityType

LEMMA GoneType == TablesOK => IsFiniteSet(gone) /\ Cardinality(gone) \in Nat
BY ItemsAreNumbers, FS_Subset, FS_CardinalityType DEF TablesOK

\* Places begin at 1, also after a step.
LEMMA RankType ==
  ASSUME TablesOK, adapter \in Specs => discovered # None, NEW m, NEW k
  PROVE  Rank(m, k) \in Nat \ {0}
<1>1. PICK B : B = {e \in Listed(m) : Before(e, k)}
  OBVIOUS
<1>2. Cardinality(B) \in Nat
  BY <1>1, ListedType, FS_Subset, FS_CardinalityType
<1> QED
  BY <1>1, <1>2 DEF Rank

\* What is listed from an offset on is on the page or behind it, and then the
\* page is full.
LEMMA PageReadsOn ==
  ASSUME TablesOK, adapter \in Specs => discovered # None, NEW at, at.offset \in Nat,
         NEW k \in Listed(at.month), Rank(at.month, k) > at.offset
  PROVE  \/ k \in PageAt(at)
         \/ Rank(at.month, k) > at.offset + PageSize /\ Cardinality(PageAt(at)) = PageSize
<1>1. PICK S : S = Listed(at.month)
  OBVIOUS
<1>2. PICK R : R = {p \in S \X S : Before(p[1], p[2])}
  OBVIOUS
<1>3. S \subseteq Items /\ IsFiniteSet(S)
  BY <1>1, ListedType
<1>4. IsStrictOrder(S, R)
  <2>1. \A a, b \in S : <<a, b>> \in R <=> Before(a, b)
    BY <1>2
  <2>2. \A a, b \in S : a \in Nat /\ active[a] \in Nat /\ (active[a] = active[b] => a = b)
    BY <1>3, ItemsAreNumbers DEF TablesOK
  <2>3. CASE adapter = "delving"
    BY <2>1, <2>2, <2>3 DEF IsStrictOrder, Before
  <2>4. CASE adapter # "delving" /\ adapter = "mailing_list"
    BY <2>1, <2>2, <2>4 DEF IsStrictOrder, Before
  <2>5. CASE adapter # "delving" /\ adapter # "mailing_list"
    BY <2>1, <2>2, <2>5 DEF IsStrictOrder, Before
  <2> QED
    BY <2>3, <2>4, <2>5
<1>5. \A e \in S : Rank(at.month, e) = Place(S, R, e) + 1
  <2> SUFFICES ASSUME NEW e \in S PROVE Rank(at.month, e) = Place(S, R, e) + 1
    OBVIOUS
  <2>1. {a \in Listed(at.month) : Before(a, e)} = {a \in S : <<a, e>> \in R}
    BY <1>1, <1>2
  <2> QED
    BY <2>1 DEF Rank, Place
<1>6. PageSize \in Nat \ {0} /\ Rank(at.month, k) \in Nat
  BY ListingsAssumption, RankType
<1>7. CASE Rank(at.month, k) <= at.offset + PageSize
  <2>1. Rank(at.month, k) - at.offset \in 1..PageSize
    BY <1>6, <1>7
  <2> QED
    BY <2>1 DEF PageAt
<1>8. CASE Rank(at.month, k) > at.offset + PageSize
  <2>1. PageAt(at) = {e \in S : Place(S, R, e) + 1 - at.offset \in 1..PageSize}
    <3>1. PageAt(at) = {e \in S : Rank(at.month, e) - at.offset \in 1..PageSize}
      BY <1>1 DEF PageAt
    <3>2. PICK Q : Q = {e \in S : Place(S, R, e) + 1 - at.offset \in 1..PageSize}
      OBVIOUS
    <3>3. ASSUME NEW e \in S PROVE e \in PageAt(at) <=> e \in Q
      <4>1. PICK a \in Nat : a = Place(S, R, e)
        BY <1>3, PlaceType
      <4>2. Rank(at.month, e) = a + 1
        BY <1>5, <4>1
      <4>3. e \in PageAt(at) <=> a + 1 - at.offset \in 1..PageSize
        BY <3>1, <4>2
      <4>4. e \in Q <=> a + 1 - at.offset \in 1..PageSize
        BY <3>2, <4>1
      <4> QED
        BY <4>3, <4>4
    <3> QED
      BY <3>1, <3>2, <3>3
  <2>2. Place(S, R, k) + 1 > at.offset + PageSize
    BY <1>1, <1>5, <1>8
  <2>3. Cardinality(PageAt(at)) = PageSize
    BY <1>1, <1>3, <1>4, <1>6, <2>1, <2>2, PagesAreFull
  <2> QED
    BY <1>8, <2>3
<1> QED
  BY <1>6, <1>7, <1>8

\* A step that lets nothing out from before k leaves k where it was or later.
LEMMA RanksGrow ==
  ASSUME TablesOK', NEW m, NEW k,
         (adapter \in Specs => discovered # None)',
         {e \in Listed(m) : Before(e, k)} \subseteq {e \in Listed(m) : Before(e, k)}'
  PROVE  Rank(m, k)' \in Nat /\ Rank(m, k) \in Nat /\ Rank(m, k)' >= Rank(m, k)
<1>1. PICK A : A = {e \in Listed(m) : Before(e, k)}
  OBVIOUS
<1>2. PICK B : B = {e \in Listed(m) : Before(e, k)}'
  OBVIOUS
<1>3. B \subseteq Items /\ A \subseteq B
  BY <1>1, <1>2 DEF Listed, TablesOK
<1>4. IsFiniteSet(B)
  BY <1>3, ItemsAreNumbers, FS_Subset
<1>5. IsFiniteSet(A) /\ Cardinality(A) <= Cardinality(B)
  BY <1>3, <1>4, FS_Subset
<1>6. Cardinality(A) \in Nat /\ Cardinality(B) \in Nat
  BY <1>4, <1>5, FS_CardinalityType
<1>7. Rank(m, k) = Cardinality(A) + 1 /\ Rank(m, k)' = Cardinality(B) + 1
  BY <1>1, <1>2 DEF Rank
<1> QED
  BY <1>5, <1>6, <1>7

-----------------------------------------------------------------------------
(* Reading a page.                                                         *)

\* An entry that a pass no longer has to look for.
Found(k) == stored[k] > 0 \/ k \in skipped \/ k \in moved

\* A page that is read stores its entries or skips them, and takes nothing back.
LEMMA FetchedEffect ==
  ASSUME TablesOK, NEW page, page \subseteq Items, Fetched(page)
  PROVE  /\ stored' \in [Items -> Nat] /\ skipped' \subseteq Items
         /\ \A i \in Items : stored'[i] \in {stored[i], version[i]}
         /\ \A k \in Items : stored[k] > 0 \/ k \in skipped => stored'[k] > 0 \/ k \in skipped'
         /\ \A k \in page \cap there : stored'[k] > 0 \/ k \in skipped'
<1>1. PICK failing \in SUBSET page :
        LET read == (page \cap there) \ failing
        IN  /\ stored' = [i \in Items |-> IF i \in read THEN version[i] ELSE stored[i]]
            /\ skipped' = (skipped \ read) \cup failing
  BY DEF Fetched
<1>2. PICK read : read = (page \cap there) \ failing
  OBVIOUS
<1>3. /\ stored' = [i \in Items |-> IF i \in read THEN version[i] ELSE stored[i]]
      /\ skipped' = (skipped \ read) \cup failing
  BY <1>1, <1>2
<1>4. \A i \in Items : version[i] > 0 /\ version[i] \in Nat /\ stored[i] \in Nat
  BY DEF TablesOK
<1>5. \A i \in Items : stored'[i] = IF i \in read THEN version[i] ELSE stored[i]
  BY <1>3
<1>6. stored' \in [Items -> Nat] /\ skipped' \subseteq Items
  BY <1>2, <1>3, <1>4 DEF TablesOK
<1> QED
  BY <1>2, <1>3, <1>4, <1>5, <1>6

\* The tables after a page has been read.
LEMMA TablesAfterPage ==
  ASSUME TablesOK, NEW page, page \subseteq Items, Fetched(page),
         UNCHANGED <<adapter, listing, restarts, discovered>>,
         resting' \in BOOLEAN, known' \subseteq Items, moved' \subseteq Items,
         adapter \notin Specs => known' \subseteq there,
         cursor' # None => cursor' \in [month : 1..month, offset : Nat]
  PROVE  TablesOK'
<1>1. UNCHANGED <<adapter, month, there, version, posted, active, edits, gone, discovered>>
  BY DEF listing
<1>2. /\ stored' \in [Items -> Nat] /\ skipped' \subseteq Items
      /\ \A i \in Items : stored'[i] <= version[i]
  <2>1. \A i \in Items : version[i] \in Nat /\ stored[i] <= version[i]
    BY DEF TablesOK
  <2> QED
    BY <2>1, FetchedEffect
<1> QED
  BY <1>1, <1>2 DEF TablesOK

\* Nothing moves while a page is read.
LEMMA NothingMoves ==
  ASSUME UNCHANGED <<adapter, listing, discovered>>
  PROVE  \A m, k : Listed(m)' = Listed(m) /\ Rank(m, k)' = Rank(m, k)
BY DEF listing, Listed, Rank, Before

\* Where the next page begins.
LEMMA WhereType ==
  ASSUME TablesOK
  PROVE  /\ Where.offset \in Nat /\ Where.month \in 1..month
         /\ cursor # None => Where = cursor
         /\ cursor = None => Where.month = 1 /\ Where.offset = 0
BY DEF TablesOK, Where, At

LEMMA PageItems ==
  ASSUME TablesOK, adapter \in Specs => discovered # None, NEW at
  PROVE  /\ PageAt(at) \subseteq Items
         /\ adapter \notin Specs => PageAt(at) \subseteq there
BY ListedType DEF PageAt

\* What a page of a numbered listing leaves is behind a full page.
LEMMA NumberedSound ==
  ASSUME ListingsInv, NEW a \in {"optech", "delving"}, FetchNumberedPage(a)
  PROVE  ListingsInv'
<1>1. PICK at : at = Where
  OBVIOUS
<1>2. PICK page : page = PageAt(at)
  OBVIOUS
<1>3. /\ adapter = a /\ Fetched(page) /\ Pass(at)
      /\ IF FullPage(page) THEN Continue(At(1, at.offset + PageSize)) ELSE Rest
      /\ UNCHANGED <<adapter, listing, restarts, discovered>>
  BY <1>1, <1>2 DEF FetchNumberedPage
<1>4. TablesOK /\ adapter \notin Specs /\ adapter # "mailing_list" /\ adapter # "bips"
  BY <1>3 DEF ListingsInv, Specs, WholeLists
<1>5. at.offset \in Nat /\ PageSize \in Nat \ {0}
  BY <1>1, <1>4, WhereType, ListingsAssumption
<1>6. page \subseteq Items /\ page \subseteq there
  BY <1>2, <1>4, PageItems
<1>7. known' \subseteq there /\ moved' \subseteq Items /\ there \subseteq Items
  BY <1>3, <1>4 DEF Pass, TablesOK
<1>8. resting' \in BOOLEAN /\ (cursor' # None => cursor' \in [month : 1..month, offset : Nat])
  <2>1. CASE FullPage(page)
    <3>1. cursor' = At(1, at.offset + PageSize) /\ resting' = FALSE
      BY <1>3, <2>1 DEF Continue
    <3>2. 1 \in 1..month
      BY <1>4, ListingsAssumption DEF TablesOK
    <3>3. at.offset + PageSize \in Nat
      BY <1>5
    <3>4. At(1, at.offset + PageSize) \in [month : 1..month, offset : Nat]
      BY <3>2, <3>3 DEF At
    <3> QED
      BY <3>1, <3>4
  <2>2. CASE ~FullPage(page)
    BY <1>3, <1>4, <2>2 DEF Rest, TablesOK
  <2> QED
    BY <2>1, <2>2
<1>9. TablesOK'
  BY <1>3, <1>4, <1>6, <1>7, <1>8, TablesAfterPage
<1>10. ASSUME NEW k \in known'
       PROVE  Found(k)' \/ (~resting' /\ Ahead(k)')
  <2>1. k \in Items /\ k \in there
    BY <1>7
  <2>2. Found(k)' \/ Rank(at.month, k) > at.offset
    <3>1. CASE at.offset > 0
      <4>1. known' = known /\ moved' = moved
        BY <1>3, <3>1 DEF Pass
      <4>2. Found(k) \/ Ahead(k)
        BY <1>3, <1>10, <4>1 DEF ListingsInv, PassSound, Found
      <4>3. Found(k) => Found(k)'
        BY <1>3, <1>4, <1>6, <2>1, <4>1, FetchedEffect DEF Found
      <4> QED
        BY <1>1, <4>2, <4>3 DEF Ahead
    <3>2. CASE at.offset = 0
      BY <1>4, <3>2, RankType
    <3> QED
      BY <1>5, <3>1, <3>2
  <2>3. ASSUME Rank(at.month, k) > at.offset, k \notin page
        PROVE  ~resting' /\ Ahead(k)'
    <3>1. k \in Listed(at.month)
      BY <1>4, <2>1 DEF Listed
    <3>2. Rank(at.month, k) > at.offset + PageSize /\ Cardinality(page) = PageSize
      BY <1>2, <1>4, <1>5, <2>3, <3>1, PageReadsOn
    <3>3. FullPage(page)
      BY <1>5, <3>2 DEF FullPage
    <3>4. resting' = FALSE /\ cursor' = At(1, at.offset + PageSize)
      BY <1>3, <3>3 DEF Continue
    <3>5. cursor' # None => Where'.month = 1 /\ Where'.offset = at.offset + PageSize
      BY <3>4 DEF Where, At
    <3>6. cursor' = None => Where'.month = 1 /\ Where'.offset = 0
      BY DEF Where, At
    <3>7. Rank(1, k)' = Rank(at.month, k)
      <4>1. Rank(1, k)' = Rank(1, k)
        BY <1>3, NothingMoves
      <4>2. Listed(1) = Listed(at.month)
        BY <1>4 DEF Listed
      <4> QED
        BY <4>1, <4>2 DEF Rank
    <3>8. Rank(at.month, k) \in Nat
      BY <1>4, RankType
    <3>9. Where'.month = 1 /\ Rank(1, k)' > Where'.offset
      BY <1>5, <3>2, <3>5, <3>6, <3>7, <3>8
    <3>10. Ahead(k)'
      BY <3>9 DEF Ahead
    <3> QED
      BY <3>4, <3>10
  <2>4. k \in page => Found(k)'
    BY <1>3, <1>4, <1>6, <2>1, FetchedEffect DEF Found
  <2> QED
    BY <2>2, <2>3, <2>4
<1>11. adapter' = adapter
  BY <1>3
<1> QED
  BY <1>4, <1>9, <1>10, <1>11 DEF ListingsInv, PassSound, MonthSound, ListSound, Found

\* A month's messages: what is read leaves nothing unread before the offset.
LEMMA MonthlySound ==
  ASSUME ListingsInv, FetchMonth \/ FetchEmptyMonth
  PROVE  ListingsInv'
<1>1. PICK at : at = Where
  OBVIOUS
<1>2. PICK page : page = PageAt(at)
  OBVIOUS
<1>3. /\ adapter = "mailing_list" /\ Pass(at)
      /\ UNCHANGED <<adapter, listing, restarts, discovered>>
  BY <1>1 DEF FetchMonth, FetchEmptyMonth
<1>4. TablesOK /\ adapter \notin Specs /\ adapter # "bips" /\ adapter \notin {"optech", "delving"}
  BY <1>3 DEF ListingsInv, Specs, WholeLists
<1>5. at.offset \in Nat /\ at.month \in 1..month /\ PageSize \in Nat \ {0} /\ SmallPage \in 1..PageSize
      /\ month \in Nat
  BY <1>1, <1>4, WhereType, ListingsAssumption DEF TablesOK
<1>6. page \subseteq Items /\ page \subseteq there /\ IsFiniteSet(page) /\ Cardinality(page) \in Nat
  BY <1>2, <1>4, PageItems, ItemsAreNumbers, FS_Subset, FS_CardinalityType
<1>7. known' \subseteq there /\ moved' = moved /\ moved \subseteq Items /\ there \subseteq Items
  BY <1>3, <1>4 DEF Pass, TablesOK
<1>8. /\ \A k \in Items : stored[k] > 0 \/ k \in skipped => stored'[k] > 0 \/ k \in skipped'
      /\ \A k \in page : stored'[k] > 0 \/ k \in skipped'
  <2>1. CASE FetchMonth
    <3>1. Fetched(page)
      BY <1>1, <1>2, <2>1 DEF FetchMonth
    <3> QED
      BY <1>4, <1>6, <3>1, FetchedEffect
  <2>2. CASE FetchEmptyMonth
    BY <1>1, <1>2, <2>2 DEF FetchEmptyMonth
  <2> QED
    BY <2>1, <2>2
\* Where the cursor goes: on in the month, to its head again, to the next
\* month, or nowhere.
<1>9. \/ /\ cursor' = At(at.month, at.offset + Cardinality(page)) /\ FullFeed(page)
      \/ /\ cursor' = At(at.month, 0) /\ ~FullFeed(page)
      \/ /\ cursor' = At(at.month + 1, 0) /\ ~FullFeed(page) /\ at.month < month
      \/ /\ cursor' = cursor /\ ~FullFeed(page)
  <2>1. CASE FetchMonth
    BY <1>1, <1>2, <2>1 DEF FetchMonth, Continue, AfterSmallPage, NextMonth
  <2>2. CASE FetchEmptyMonth
    <3>1. ~FullFeed(page)
      BY <1>1, <1>2, <1>5, <2>2, FS_EmptySet DEF FetchEmptyMonth, FullFeed
    <3> QED
      BY <1>1, <2>2, <3>1 DEF FetchEmptyMonth, Continue, Rest, NextMonth
  <2> QED
    BY <2>1, <2>2
<1>10. TablesOK'
  <2>1. cursor' # None => cursor' \in [month : 1..month, offset : Nat]
    <3>1. at.offset + Cardinality(page) \in Nat /\ (at.month < month => at.month + 1 \in 1..month)
      BY <1>5, <1>6
    <3>2. At(at.month, at.offset + Cardinality(page)) \in [month : 1..month, offset : Nat]
      BY <1>5, <3>1 DEF At
    <3>3. At(at.month, 0) \in [month : 1..month, offset : Nat]
      BY <1>5 DEF At
    <3>4. at.month < month => At(at.month + 1, 0) \in [month : 1..month, offset : Nat]
      BY <1>5, <3>1 DEF At
    <3>5. cursor # None => cursor \in [month : 1..month, offset : Nat]
      BY <1>4 DEF TablesOK
    <3> QED
      BY <1>9, <3>2, <3>3, <3>4, <3>5
  <2>2. resting' \in BOOLEAN
    BY DEF FetchMonth, FetchEmptyMonth, Continue, Rest
  <2>3. CASE FetchMonth
    <3>1. Fetched(page)
      BY <1>1, <1>2, <2>3 DEF FetchMonth
    <3> QED
      BY <1>3, <1>4, <1>6, <1>7, <2>1, <2>2, <3>1, TablesAfterPage
  <2>4. CASE FetchEmptyMonth
    <3>1. stored' = stored /\ skipped' = skipped
      BY <2>4 DEF FetchEmptyMonth
    <3> QED
      BY <1>3, <1>4, <1>7, <2>1, <2>2, <3>1 DEF TablesOK, listing
  <2> QED
    BY <2>3, <2>4
<1>11. month' = month /\ there' = there /\ posted' = posted
  BY <1>3 DEF listing
<1>12. ASSUME NEW k \in known'
       PROVE  /\ posted[k] <= at.month
              /\ \/ stored'[k] > 0 \/ k \in skipped' \/ k \in moved'
                 \/ posted[k] = at.month /\ Rank(at.month, k) > at.offset /\ k \notin page
  <2>1. k \in Items /\ posted[k] \in Nat
    BY <1>4, <1>7, ListingsAssumption DEF TablesOK
  <2>2. CASE k \in known
    <3>1. /\ posted[k] <= at.month
          /\ \/ stored[k] > 0 \/ k \in skipped \/ k \in moved
             \/ posted[k] = at.month /\ Rank(at.month, k) > at.offset
      BY <1>1, <1>3, <2>2 DEF ListingsInv, MonthSound, Ahead
    <3> QED
      BY <1>7, <1>8, <2>1, <3>1
  <2>3. CASE k \notin known
    <3>1. at.offset = 0 /\ posted[k] = at.month
      <4>1. ~(at.offset > 0)
        BY <1>3, <1>12, <2>3 DEF Pass
      <4> QED
        BY <1>3, <1>5, <1>12, <2>3, <4>1 DEF Pass
    <3>2. Rank(at.month, k) > at.offset
      BY <1>4, <3>1, RankType
    <3> QED
      BY <1>5, <1>8, <3>1, <3>2
  <2> QED
    BY <2>2, <2>3
<1>13. ASSUME NEW k \in known', posted[k] = at.month, Rank(at.month, k) > at.offset, k \notin page
       PROVE  Rank(at.month, k) > at.offset + PageSize /\ Cardinality(page) = PageSize /\ FullFeed(page)
  <2>1. k \in Listed(at.month)
    BY <1>3, <1>4, <1>7, <1>13 DEF Listed
  <2>2. Rank(at.month, k) > at.offset + PageSize /\ Cardinality(page) = PageSize
    BY <1>2, <1>4, <1>5, <1>13, <2>1, PageReadsOn
  <2> QED
    BY <1>5, <2>2 DEF FullFeed
<1>14. ASSUME NEW k \in known'
       PROVE  /\ posted'[k] <= Where'.month
              /\ \/ stored'[k] > 0 \/ k \in skipped' \/ k \in moved'
                 \/ posted'[k] = Where'.month /\ Ahead(k)'
  <2>1. posted[k] \in Nat /\ posted'[k] = posted[k]
    BY <1>4, <1>7, <1>11, ListingsAssumption DEF TablesOK
  <2>2. Rank(at.month, k)' = Rank(at.month, k) /\ Rank(at.month, k) \in Nat
    BY <1>3, <1>4, NothingMoves, RankType
  <2>3. At(at.month, 0) # None /\ At(at.month + 1, 0) # None
        /\ At(at.month, at.offset + Cardinality(page)) # None
    <3>1. at.month \in Nat /\ at.month + 1 \in Nat /\ at.offset + Cardinality(page) \in Nat
      BY <1>5, <1>6
    <3> QED
      BY <3>1, ListingsAssumption DEF At
  <2>4. cursor' # None => Where' = cursor'
    BY DEF Where
  <2>5. CASE cursor' = At(at.month, at.offset + Cardinality(page)) /\ FullFeed(page)
    <3>1. Where'.month = at.month /\ Where'.offset = at.offset + Cardinality(page)
      BY <2>3, <2>4, <2>5 DEF At
    <3>2. CASE posted[k] = at.month /\ Rank(at.month, k) > at.offset /\ k \notin page
      <4>1. Rank(at.month, k) > at.offset + Cardinality(page)
        BY <1>13, <1>14, <3>2
      <4>2. Ahead(k)'
        BY <2>2, <3>1, <4>1 DEF Ahead
      <4> QED
        BY <1>5, <2>1, <3>1, <3>2, <4>2
    <3> QED
      BY <1>12, <1>14, <2>1, <3>1, <3>2
  <2>6. CASE ~FullFeed(page)
    <3>1. posted[k] <= at.month /\ (stored'[k] > 0 \/ k \in skipped' \/ k \in moved')
      BY <1>12, <1>13, <1>14, <2>6
    <3>2. Where'.month \in Nat /\ Where'.month >= at.month
      <4>1. CASE cursor' = At(at.month, 0)
        BY <1>5, <2>3, <2>4, <4>1 DEF At
      <4>2. CASE cursor' = At(at.month + 1, 0)
        BY <1>5, <2>3, <2>4, <4>2 DEF At
      <4>3. CASE cursor' = cursor
        BY <1>1, <1>5, <4>3 DEF Where
      <4> QED
        BY <1>9, <2>6, <4>1, <4>2, <4>3
    <3> QED
      BY <1>5, <2>1, <3>1, <3>2
  <2> QED
    BY <1>9, <2>5, <2>6
<1> QED
  BY <1>3, <1>4, <1>10, <1>14 DEF ListingsInv, PassSound, MonthSound, ListSound

\* A page of BIPs: the next one begins within the list.
LEMMA BipsSound ==
  ASSUME ListingsInv, FetchBips
  PROVE  ListingsInv'
<1>1. PICK at : at = Where
  OBVIOUS
<1>2. PICK page : page = PageAt(at)
  OBVIOUS
<1>3. /\ adapter = "bips" /\ discovered # None /\ Fetched(page) /\ Pass(at)
      /\ IF MoreFiles(at, discovered) THEN Continue(At(1, at.offset + PageSize)) ELSE Rest
      /\ UNCHANGED <<adapter, listing, restarts, discovered>>
  BY <1>1, <1>2 DEF FetchBips
<1>4. TablesOK /\ adapter \in Specs /\ ListSound
  BY <1>3 DEF ListingsInv, Specs
<1>5. at.offset \in Nat /\ PageSize \in Nat \ {0}
  BY <1>1, <1>4, WhereType, ListingsAssumption
<1>6. page \subseteq Items
  BY <1>2, <1>3, <1>4, PageItems
<1>7. known' \subseteq Items /\ moved' \subseteq Items
  BY <1>3, <1>4 DEF Pass, TablesOK
<1>8. there' = there /\ gone' = gone /\ discovered' = discovered /\ adapter' = adapter
  BY <1>3 DEF listing
<1>9. CASE MoreFiles(at, discovered)
  <2>1. cursor' = At(1, at.offset + PageSize) /\ resting' = FALSE
    BY <1>3, <1>9 DEF Continue
  <2>2. 1 \in 1..month /\ at.offset + PageSize \in Nat
    BY <1>4, <1>5, ListingsAssumption DEF TablesOK
  <2>3. cursor' \in [month : 1..month, offset : Nat] /\ cursor'.offset = at.offset + PageSize
    BY <2>1, <2>2 DEF At
  <2>4. cursor' # None
    <3>1. At(1, at.offset + PageSize) \in [month : Nat, offset : Nat]
      BY <2>2 DEF At
    <3> QED
      BY <2>1, <3>1, ListingsAssumption
  <2>5. TablesOK'
    BY <1>3, <1>4, <1>6, <1>7, <2>1, <2>3, TablesAfterPage
  <2>6. at.offset + PageSize < Cardinality(discovered)
        /\ Cardinality(discovered) <= Cardinality(there) + Cardinality(gone)
    BY <1>3, <1>4, <1>9 DEF MoreFiles, ListSound
  <2>7. Cardinality(discovered) \in Nat /\ Cardinality(there) \in Nat /\ Cardinality(gone) \in Nat
    BY <1>3, <1>4, GoneType, ItemsAreNumbers, FS_Subset, FS_CardinalityType DEF TablesOK
  <2>8. Where' = cursor'
    BY <2>4 DEF Where
  <2>9. /\ at.offset + PageSize + 1 <= Cardinality(there) + Cardinality(gone)
        /\ at.offset + PageSize <= Cardinality(discovered)
    BY <1>5, <2>6, <2>7
  <2>10. ListSound'
    BY <1>8, <2>3, <2>6, <2>8, <2>9 DEF ListSound, InList
  <2> QED
    BY <1>3, <2>5, <2>10 DEF ListingsInv, PassSound, MonthSound
<1>10. CASE ~MoreFiles(at, discovered)
  <2>1. cursor' = cursor /\ resting' = TRUE
    BY <1>3, <1>10 DEF Rest
  <2>2. TablesOK'
    BY <1>3, <1>4, <1>6, <1>7, <2>1, TablesAfterPage DEF TablesOK
  <2>3. ListSound'
    BY <1>4, <1>8, <2>1 DEF ListSound, InList, Where
  <2> QED
    BY <1>3, <2>2, <2>3 DEF ListingsInv, PassSound, MonthSound
<1> QED
  BY <1>9, <1>10

\* A whole list leaves the cursor alone.
LEMMA WholeListSound ==
  ASSUME ListingsInv, NEW a \in WholeLists, FetchWholeList(a)
  PROVE  ListingsInv'
<1>1. /\ adapter = a /\ discovered # None /\ Fetched(discovered) /\ Pass(At(1, 0))
      /\ cursor' = cursor /\ resting' = TRUE
      /\ UNCHANGED <<adapter, listing, restarts, discovered>>
  BY DEF FetchWholeList, Rest
<1>2. TablesOK /\ adapter \in Specs /\ adapter \notin {"bips", "optech", "delving", "mailing_list"}
  BY <1>1 DEF ListingsInv, Specs, WholeLists
<1>3. known' \subseteq Items /\ moved' \subseteq Items /\ discovered \subseteq Items
  BY <1>1, <1>2 DEF Pass, TablesOK
<1>4. cursor' # None => cursor' \in [month : 1..month, offset : Nat]
  BY <1>1, <1>2 DEF TablesOK
<1>5. TablesOK'
  BY <1>1, <1>2, <1>3, <1>4, TablesAfterPage
<1> QED
  BY <1>1, <1>2, <1>5 DEF ListingsInv, PassSound, MonthSound, ListSound

\* The list is as long as the repository then is.
LEMMA DiscoverSound ==
  ASSUME ListingsInv, Discover
  PROVE  ListingsInv'
<1>1. TablesOK /\ adapter \in Specs /\ ListSound
  BY DEF ListingsInv, Discover
<1>2. TablesOK'
  BY <1>1 DEF TablesOK, Discover, listing, history
<1>3. Cardinality(there) \in Nat /\ Cardinality(gone) \in Nat
  BY <1>1, GoneType, ItemsAreNumbers, FS_Subset, FS_CardinalityType DEF TablesOK
<1>4. ASSUME adapter = "bips" PROVE ListSound'
  <2>1. discovered' = there /\ there' = there /\ gone' = gone /\ cursor' = cursor /\ Where' = Where
    BY DEF Discover, listing, Where
  <2>2. cursor # None => cursor.offset + 1 <= Cardinality(there) + Cardinality(gone)
    BY <1>1, <1>4 DEF ListSound
  <2>3. Cardinality(there) <= Cardinality(there) + Cardinality(gone)
    BY <1>3
  <2>4. Cardinality(gone) < 2 => Where.offset <= Cardinality(there)
    BY <1>1, <1>3, <2>2, WhereType
  <2> QED
    BY <2>1, <2>2, <2>3, <2>4 DEF ListSound, InList
<1>5. adapter' = adapter
  BY DEF Discover
<1> QED
  BY <1>1, <1>2, <1>4, <1>5 DEF ListingsInv, PassSound, MonthSound, ListSound, Specs, WholeLists

-----------------------------------------------------------------------------
(* The listing changes between two pages.                                  *)

\* A step that puts nothing unread before the place where the next page begins.
LEMMA LaterIsSound ==
  ASSUME TablesOK, PassSound, MonthSound, adapter \notin Specs,
         UNCHANGED <<adapter, stored, skipped, cursor>>,
         known' \subseteq known, moved \subseteq moved', resting' => resting,
         \A k \in known' : posted'[k] = posted[k],
         \A k \in known' :
           \/ k \in moved' \/ k \notin Listed(Where.month)
           \/ Ahead(k) => Ahead(k)'
  PROVE  PassSound' /\ MonthSound'
<1>1. Where' = Where /\ Where.offset \in Nat /\ Where.month \in Nat
  <2>1. month \in Nat
    BY ListingsAssumption DEF TablesOK
  <2>2. Where.offset \in Nat /\ Where.month \in 1..month
    BY WhereType
  <2>3. Where' = Where
    BY DEF Where
  <2> QED
    BY <2>1, <2>2, <2>3
<1>2. known \subseteq there
  BY DEF TablesOK
<1>3. ASSUME adapter \in {"optech", "delving"} PROVE PassSound'
  <2>1. \A k \in known : k \in Listed(Where.month)
    BY <1>2, <1>3 DEF Listed
  <2> QED
    BY <1>3, <2>1 DEF PassSound
<1>4. ASSUME adapter = "mailing_list" PROVE MonthSound'
  <2>1. \A k \in known : posted[k] = Where.month => k \in Listed(Where.month)
    BY <1>2, <1>4 DEF Listed
  <2> QED
    BY <1>1, <1>4, <2>1 DEF MonthSound
<1> QED
  BY <1>3, <1>4 DEF PassSound, MonthSound

\* One that lets nothing out from before k.
LEMMA StaysAhead ==
  ASSUME TablesOK, TablesOK', adapter \notin Specs, UNCHANGED <<adapter, cursor>>,
         NEW k, Ahead(k),
         \A m \in Nat : {e \in Listed(m) : Before(e, k)} \subseteq {e \in Listed(m) : Before(e, k)}'
  PROVE  Ahead(k)'
<1>1. Where' = Where /\ Where.offset \in Nat /\ Where.month \in Nat
  <2>1. month \in Nat
    BY ListingsAssumption DEF TablesOK
  <2>2. Where.offset \in Nat /\ Where.month \in 1..month
    BY WhereType
  <2>3. Where' = Where
    BY DEF Where
  <2> QED
    BY <2>1, <2>2, <2>3
<1>2. Rank(Where.month, k) \in Nat /\ Rank(Where.month, k) > Where.offset
  BY RankType DEF Ahead
<1>3. PICK m \in Nat : m = Where.month
  BY <1>1
<1>4. {e \in Listed(m) : Before(e, k)} \subseteq {e \in Listed(m) : Before(e, k)}'
  BY <1>3
<1>5. adapter' \notin Specs
  OBVIOUS
<1>6. Rank(m, k)' \in Nat /\ Rank(m, k)' >= Rank(m, k)
  BY <1>4, <1>5, RanksGrow
<1>7. Where'.month = m /\ Where'.offset = Where.offset
  BY <1>1, <1>3
<1>8. Rank(m, k)' > Where.offset
  BY <1>1, <1>2, <1>3, <1>6
<1> QED
  BY <1>7, <1>8 DEF Ahead

\* What appears is listed first, or last, or where no pass counts on the order.
LEMMA AppearSound ==
  ASSUME ListingsInv, NEW i \in Items, Appear(i)
  PROVE  ListingsInv'
<1>1. /\ TablesOK /\ PassSound /\ MonthSound /\ ListSound
      /\ i \notin there /\ i \notin gone
      /\ there' = there \cup {i} /\ posted' = [posted EXCEPT ![i] = month]
      /\ UNCHANGED <<adapter, month, version, edits, gone, restarts, discovered, cursor, resting>>
      /\ stored' = stored /\ skipped' = skipped /\ known' = known /\ moved' = moved
  BY DEF ListingsInv, Appear, history
<1>2. there \subseteq Items /\ IsFiniteSet(there) /\ Cardinality(there) \in Nat
  BY <1>1, ItemsAreNumbers, FS_Subset, FS_CardinalityType DEF TablesOK
<1>3. Cardinality(there') = Cardinality(there) + 1
  BY <1>1, <1>2, FS_AddElement
<1>4. /\ Cardinality(Items) \in Nat /\ edits \in Nat
      /\ \A k \in Items : active[k] \in Nat
      /\ adapter = "delving" =>
           \A k \in Items : active[k] <= Cardinality(Items) + Cardinality(there \cup gone) + edits
  BY <1>1, ItemsAreNumbers DEF TablesOK
<1>a. /\ Cardinality(there \cup gone) \in Nat
      /\ Cardinality(there' \cup gone) = Cardinality(there \cup gone) + 1
  <2>1. IsFiniteSet(there \cup gone) /\ i \notin there \cup gone
    BY <1>1, ItemsAreNumbers, FS_Subset DEF TablesOK
  <2>2. there' \cup gone = (there \cup gone) \cup {i}
    BY <1>1
  <2> QED
    BY <2>1, <2>2, FS_AddElement, FS_CardinalityType
<1>5. PICK new \in Nat : new = Cardinality(Items) + Cardinality(there' \cup gone) + edits
  BY <1>4, <1>a
<1>6. \/ adapter # "delving" /\ active' = active
      \/ adapter = "delving" /\ active' = [active EXCEPT ![i] = new]
  BY <1>1, <1>5 DEF Appear, Activate
<1>7. /\ active' \in [Items -> Nat]
      /\ adapter' = "delving" =>
           \A k \in Items : active'[k] <= Cardinality(Items) + Cardinality(there' \cup gone') + edits'
      /\ \A k, l \in Items : active'[k] = active'[l] => k = l
      /\ \A k \in Items \ {i} : active'[k] = active[k]
  <2>1. active \in [Items -> Nat] /\ \A k, l \in Items : active[k] = active[l] => k = l
    BY <1>1 DEF TablesOK
  <2>2. adapter = "delving" => \A k \in Items : active[k] < new
    BY <1>4, <1>5, <1>a
  <2>3. edits' = edits /\ gone' = gone
    BY <1>1
  <2>4. CASE adapter # "delving" /\ active' = active
    BY <1>1, <1>5, <2>1, <2>2, <2>3, <2>4
  <2>5. CASE adapter = "delving" /\ active' = [active EXCEPT ![i] = new]
    <3>1. active' \in [Items -> Nat]
      BY <2>1, <2>5
    <3>2. active'[i] = new /\ \A k \in Items \ {i} : active'[k] = active[k]
      BY <2>1, <2>5
    <3>3. \A k \in Items : active'[k] <= new
      BY <2>2, <2>5, <3>2, <1>4
    <3>4. ASSUME NEW k \in Items, NEW l \in Items, active'[k] = active'[l] PROVE k = l
      <4>1. CASE k # i /\ l # i
        BY <2>1, <3>2, <3>4, <4>1
      <4>2. CASE k = i /\ l # i
        BY <1>4, <2>2, <2>5, <3>2, <3>4, <4>2
      <4>3. CASE k # i /\ l = i
        BY <1>4, <2>2, <2>5, <3>2, <3>4, <4>3
      <4> QED
        BY <4>1, <4>2, <4>3
    <3> QED
      BY <1>1, <1>5, <2>3, <2>5, <3>1, <3>2, <3>3, <3>4
  <2> QED
    BY <1>6, <2>4, <2>5
<1>8. /\ posted' \in [Items -> 1..LastMonth] /\ \A k \in there' : posted'[k] <= month'
      /\ \A k \in there : posted'[k] = posted[k]
  <2>1. posted \in [Items -> 1..LastMonth] /\ month \in 1..LastMonth /\ \A k \in there : posted[k] <= month
    BY <1>1 DEF TablesOK
  <2>2. month \in Int
    BY <2>1, ListingsAssumption
  <2> QED
    BY <1>1, <1>2, <2>1, <2>2
<1>9. TablesOK'
  <2>1. there' \subseteq Items /\ (adapter' \notin Specs => known' \subseteq there')
    BY <1>1, <1>2 DEF TablesOK
  <2>2. /\ adapter' \in Adapters /\ month' \in 1..LastMonth
        /\ version' \in [Items -> Nat \ {0}] /\ stored' \in [Items -> Nat]
        /\ \A k \in Items : stored'[k] <= version'[k]
        /\ edits' \in Nat /\ gone' \subseteq Items /\ there' \cap gone' = {} /\ resting' \in BOOLEAN
        /\ skipped' \subseteq Items /\ known' \subseteq Items /\ moved' \subseteq Items
        /\ discovered' # None => discovered' \subseteq Items
        /\ cursor' # None => cursor' \in [month : 1..month', offset : Nat]
    BY <1>1 DEF TablesOK
  <2> QED
    BY <1>7, <1>8, <2>1, <2>2 DEF TablesOK
<1>10. ASSUME adapter \notin Specs PROVE PassSound' /\ MonthSound'
  <2>1. known \subseteq there
    BY <1>1, <1>10 DEF TablesOK
  <2>2. ASSUME NEW k \in known, NEW m \in Nat
        PROVE  {e \in Listed(m) : Before(e, k)} \subseteq {e \in Listed(m) : Before(e, k)}'
    <3> SUFFICES ASSUME NEW e, e \in Listed(m), Before(e, k) PROVE (e \in Listed(m) /\ Before(e, k))'
      OBVIOUS
    <3>1. e \in there /\ k \in there /\ e # i /\ k # i /\ e \in Items /\ k \in Items
      BY <1>1, <1>2, <1>10, <2>1, <2>2 DEF Listed
    <3>2. (e \in Listed(m))'
      BY <1>1, <1>8, <1>10, <3>1 DEF Listed
    <3>3. Before(e, k)'
      BY <1>1, <1>7, <3>1 DEF Before
    <3> QED
      BY <3>2, <3>3
  <2>3. \A k \in known : posted'[k] = posted[k]
    BY <1>8, <2>1
  <2> QED
    BY <1>1, <1>9, <1>10, <2>2, <2>3, LaterIsSound, StaysAhead
<1>11. ListSound'
  <2>1. Where' = Where /\ gone' = gone /\ discovered' = discovered /\ adapter' = adapter /\ cursor' = cursor
    BY <1>1 DEF Where
  <2>2. ASSUME adapter = "bips", discovered # None
        PROVE Cardinality(discovered) <= Cardinality(there') + Cardinality(gone)
    <3>1. /\ Cardinality(discovered) \in Nat /\ Cardinality(gone) \in Nat
          /\ Cardinality(discovered) <= Cardinality(there) + Cardinality(gone)
      BY <1>1, <2>2, GoneType, ItemsAreNumbers, FS_Subset, FS_CardinalityType DEF TablesOK, ListSound
    <3> QED
      BY <1>2, <1>3, <3>1
  <2>3. ASSUME adapter = "bips", cursor # None
        PROVE cursor.offset + 1 <= Cardinality(there') + Cardinality(gone)
    <3>1. /\ cursor.offset \in Nat /\ Cardinality(gone) \in Nat
          /\ cursor.offset + 1 <= Cardinality(there) + Cardinality(gone)
      BY <1>1, <2>3, GoneType DEF TablesOK, ListSound
    <3> QED
      BY <1>2, <1>3, <3>1
  <2>4. adapter = "bips" /\ discovered # None /\ Cardinality(gone) < 2 => InList
    BY <1>1 DEF ListSound
  <2> QED
    BY <2>1, <2>2, <2>3, <2>4 DEF ListSound, InList
<1>12. adapter' = adapter
  BY <1>1
<1> QED
  BY <1>9, <1>10, <1>11, <1>12 DEF ListingsInv, PassSound, MonthSound, Specs, WholeLists

\* An edited file stays where it is; a topic that is answered moves up, and is
\* the only one that does.
LEMMA EditSound ==
  ASSUME ListingsInv, NEW i \in Items, Edit(i)
  PROVE  ListingsInv'
<1>1. /\ TablesOK /\ PassSound /\ MonthSound /\ ListSound
      /\ adapter # "mailing_list" /\ i \in there
      /\ edits' = edits + 1 /\ version' = [version EXCEPT ![i] = @ + 1]
      /\ UNCHANGED <<adapter, month, there, posted, gone, restarts, discovered>>
      /\ cursor' = cursor /\ resting' = resting /\ stored' = stored
      /\ skipped' = skipped /\ known' = known
  BY DEF ListingsInv, Edit
<1>2. there \subseteq Items /\ Cardinality(there \cup gone) \in Nat
  <2>1. there \subseteq Items /\ there \cup gone \subseteq Items
    BY <1>1 DEF TablesOK
  <2> QED
    BY <2>1, ItemsAreNumbers, FS_Subset, FS_CardinalityType
<1>3. /\ Cardinality(Items) \in Nat /\ edits \in Nat
      /\ \A k \in Items : active[k] \in Nat
      /\ adapter = "delving" =>
           \A k \in Items : active[k] <= Cardinality(Items) + Cardinality(there \cup gone) + edits
  BY <1>1, ItemsAreNumbers DEF TablesOK
<1>b. PICK used \in Nat : used = Cardinality(there \cup gone)
  BY <1>2
<1>4. PICK new \in Nat : new = Cardinality(Items) + used + edits + 1
  BY <1>3
<1>5. \/ adapter # "delving" /\ active' = active /\ moved' = moved
      \/ adapter = "delving" /\ active' = [active EXCEPT ![i] = new] /\ moved' = moved \cup {i}
  <2>1. Cardinality(Items) + Cardinality(there' \cup gone') + edits' = new
    BY <1>1, <1>3, <1>4, <1>b
  <2> QED
    BY <2>1 DEF Edit, Activate
<1>6. /\ active' \in [Items -> Nat]
      /\ adapter' = "delving" =>
           \A k \in Items : active'[k] <= Cardinality(Items) + Cardinality(there' \cup gone') + edits'
      /\ \A k, l \in Items : active'[k] = active'[l] => k = l
      /\ \A k \in Items \ {i} : active'[k] = active[k]
      /\ adapter = "delving" => \A k \in Items \ {i} : active'[i] > active'[k]
  <2>1. active \in [Items -> Nat] /\ \A k, l \in Items : active[k] = active[l] => k = l
    BY <1>1 DEF TablesOK
  <2>2. adapter = "delving" => \A k \in Items : active[k] < new
    BY <1>3, <1>4, <1>b
  <2>3. Cardinality(Items) + Cardinality(there' \cup gone') + edits' = new
    BY <1>1, <1>3, <1>4, <1>b
  <2>4. CASE adapter # "delving" /\ active' = active
    BY <1>1, <1>3, <2>1, <2>2, <2>3, <2>4
  <2>5. CASE adapter = "delving" /\ active' = [active EXCEPT ![i] = new]
    <3>1. active' \in [Items -> Nat]
      BY <2>1, <2>5
    <3>2. active'[i] = new /\ \A k \in Items \ {i} : active'[k] = active[k]
      BY <2>1, <2>5
    <3>3. \A k \in Items : active'[k] <= new
      BY <2>2, <2>5, <3>2, <1>3
    <3>4. ASSUME NEW k \in Items, NEW l \in Items, active'[k] = active'[l] PROVE k = l
      <4>1. CASE k # i /\ l # i
        BY <2>1, <3>2, <3>4, <4>1
      <4>2. CASE k = i /\ l # i
        BY <1>3, <2>2, <2>5, <3>2, <3>4, <4>2
      <4>3. CASE k # i /\ l = i
        BY <1>3, <2>2, <2>5, <3>2, <3>4, <4>3
      <4> QED
        BY <4>1, <4>2, <4>3
    <3>5. \A k \in Items \ {i} : active'[i] > active'[k]
      BY <2>2, <2>5, <3>2, <1>3
    <3> QED
      BY <1>1, <2>3, <2>5, <3>1, <3>2, <3>3, <3>4, <3>5
  <2> QED
    BY <1>5, <2>4, <2>5
<1>7. version' \in [Items -> Nat \ {0}] /\ \A k \in Items : stored'[k] <= version'[k]
  <2>1. /\ version \in [Items -> Nat \ {0}] /\ stored \in [Items -> Nat]
        /\ \A k \in Items : stored[k] <= version[k]
    BY <1>1 DEF TablesOK
  <2>2. version[i] + 1 \in Nat \ {0} /\ version' = [version EXCEPT ![i] = version[i] + 1]
    BY <1>1, <2>1
  <2>3. version' \in [Items -> Nat \ {0}]
    BY <2>1, <2>2
  <2>4. version'[i] = version[i] + 1 /\ \A k \in Items \ {i} : version'[k] = version[k]
    BY <2>1, <2>2
  <2>5. \A k \in Items : stored[k] \in Nat /\ version[k] \in Nat
    BY <2>1
  <2> QED
    BY <1>1, <2>1, <2>3, <2>4, <2>5
<1>8. TablesOK'
  <2>1. edits' \in Nat /\ moved' \subseteq Items
    BY <1>1, <1>3, <1>5 DEF TablesOK
  <2>2. /\ adapter' \in Adapters /\ month' \in 1..LastMonth
        /\ there' \subseteq Items /\ posted' \in [Items -> 1..LastMonth]
        /\ \A k \in there' : posted'[k] <= month'
        /\ stored' \in [Items -> Nat] /\ resting' \in BOOLEAN
        /\ gone' \subseteq Items /\ there' \cap gone' = {}
        /\ skipped' \subseteq Items /\ known' \subseteq Items
        /\ adapter' \notin Specs => known' \subseteq there'
        /\ discovered' # None => discovered' \subseteq Items
        /\ cursor' # None => cursor' \in [month : 1..month', offset : Nat]
    BY <1>1 DEF TablesOK
  <2> QED
    BY <1>6, <1>7, <2>1, <2>2 DEF TablesOK
<1>9. ASSUME adapter = "delving" PROVE PassSound' /\ MonthSound'
  <2>1. adapter \notin Specs /\ known \subseteq there
    BY <1>1, <1>9 DEF TablesOK, Specs, WholeLists
  <2>2. moved' = moved \cup {i}
    BY <1>5, <1>9
  <2>3. ASSUME NEW k \in known, NEW m \in Nat, k # i
        PROVE  {e \in Listed(m) : Before(e, k)} \subseteq {e \in Listed(m) : Before(e, k)}'
    <3> SUFFICES ASSUME NEW e, e \in Listed(m), Before(e, k) PROVE (e \in Listed(m) /\ Before(e, k))'
      OBVIOUS
    <3>1. e \in there /\ k \in there /\ e \in Items /\ k \in Items
      BY <1>1, <1>2, <1>9, <2>1, <2>3 DEF Listed
    <3>2. (e \in Listed(m))'
      BY <1>1, <1>9, <2>1, <3>1 DEF Listed
    <3>3. active'[e] > active'[k]
      <4>1. active[e] > active[k]
        BY <1>9 DEF Before
      <4> QED
        BY <1>6, <1>9, <2>3, <3>1, <4>1
    <3> QED
      BY <1>1, <1>9, <3>2, <3>3 DEF Before
  <2>4. ASSUME NEW k \in known, k # i, Ahead(k) PROVE Ahead(k)'
    BY <1>1, <1>8, <2>1, <2>3, <2>4, StaysAhead
  <2> QED
    BY <1>1, <2>1, <2>2, <2>4, LaterIsSound
<1>11. ASSUME adapter = "optech" PROVE PassSound' /\ MonthSound'
  <2>1. adapter \notin Specs /\ active' = active /\ moved' = moved
    BY <1>5, <1>11 DEF Specs, WholeLists
  <2>2. \A k : Ahead(k)' = Ahead(k)
    BY <1>1, <1>11 DEF Ahead, Where, Rank, Listed, Before, Specs, WholeLists
  <2> QED
    BY <1>1, <2>1, <2>2, LaterIsSound
<1>10. ListSound'
  BY <1>1 DEF ListSound, InList, Where
<1> QED
  BY <1>1, <1>8, <1>9, <1>11, <1>10 DEF ListingsInv, PassSound, MonthSound, Specs, WholeLists

\* An item that goes lets the next entry slip, and no other.
LEMMA OneSlips ==
  ASSUME TablesOK, adapter \notin Specs, NEW i \in there, NEW k \in there, k # i,
         there' = there \ {i}, UNCHANGED <<adapter, posted, active, cursor>>,
         k \in Listed(Where.month), k \notin Slipping(i), Ahead(k)
  PROVE  Ahead(k)'
<1>1. Where' = Where /\ Where.offset \in Nat
  BY WhereType DEF Where
<1>2. PICK m : m = Where.month
  OBVIOUS
<1>3. PICK B : B = {e \in Listed(m) : Before(e, k)}
  OBVIOUS
<1>4. IsFiniteSet(B) /\ Cardinality(B) \in Nat
  BY <1>3, ListedType, FS_Subset, FS_CardinalityType
<1>5. Rank(m, k) = Cardinality(B) + 1 /\ Cardinality(B) + 1 > Where.offset
  BY <1>2, <1>3 DEF Rank, Ahead
<1>6. {e \in Listed(m) : Before(e, k)}' = B \ {i}
  <2>1. \A e : (e \in Listed(m))' <=> e \in Listed(m) /\ e # i
    BY DEF Listed
  <2>2. \A e : Before(e, k)' <=> Before(e, k)
    BY DEF Before
  <2> QED
    BY <1>3, <2>1, <2>2
<1>7. Rank(m, k)' = Cardinality(B \ {i}) + 1
  BY <1>6 DEF Rank
<1>8. Cardinality(B \ {i}) \in Nat /\ Cardinality(B \ {i}) + 1 > Where.offset
  <2>1. CASE i \in B
    <3>1. Cardinality(B \ {i}) = Cardinality(B) - 1 /\ Cardinality(B \ {i}) \in Nat
      BY <1>4, <2>1, FS_RemoveElement, FS_CardinalityType
    <3>2. Cardinality(B) + 1 # Where.offset + 1
      BY <1>2, <1>3, <1>5, <2>1 DEF Slipping
    <3> QED
      BY <1>1, <1>4, <1>5, <3>1, <3>2
  <2>2. CASE i \notin B
    <3>1. B \ {i} = B
      BY <2>2
    <3> QED
      BY <1>4, <1>5, <3>1
  <2> QED
    BY <2>1, <2>2
<1> QED
  BY <1>1, <1>2, <1>7, <1>8 DEF Ahead

\* An item that goes is counted, and so is what slips.
LEMMA RemoveSound ==
  ASSUME ListingsInv, NEW i \in Items, Remove(i)
  PROVE  ListingsInv'
<1>1. /\ TablesOK /\ PassSound /\ MonthSound /\ ListSound /\ i \in there
      /\ there' = there \ {i} /\ gone' = gone \cup {i}
      /\ UNCHANGED <<adapter, month, version, posted, active, edits, restarts, discovered>>
      /\ cursor' = cursor /\ resting' = resting /\ stored' = stored /\ skipped' = skipped
      /\ IF adapter \in Specs THEN UNCHANGED <<known, moved>>
         ELSE known' = known \ {i} /\ moved' = moved \cup Slipping(i)
  BY DEF ListingsInv, Remove
<1>2. /\ there \subseteq Items /\ IsFiniteSet(there) /\ Cardinality(there) \in Nat
      /\ IsFiniteSet(gone) /\ Cardinality(gone) \in Nat /\ i \notin gone
  BY <1>1, GoneType, ItemsAreNumbers, FS_Subset, FS_CardinalityType DEF TablesOK
<1>3. Cardinality(there') = Cardinality(there) - 1 /\ Cardinality(there') \in Nat
  BY <1>1, <1>2, FS_RemoveElement, FS_CardinalityType
<1>4. Cardinality(gone') = Cardinality(gone) + 1
  BY <1>1, <1>2, FS_AddElement
<1>5. known' \subseteq known /\ moved \subseteq moved' /\ moved' \subseteq Items
      /\ (adapter \notin Specs => known' \subseteq there')
  <2>1. adapter \notin Specs => Slipping(i) \subseteq Items
    BY <1>1, ListedType DEF Slipping
  <2> QED
    BY <1>1, <2>1 DEF TablesOK
<1>6. TablesOK'
  <2>1. /\ adapter' \in Adapters /\ month' \in 1..LastMonth
        /\ there' \subseteq Items /\ posted' \in [Items -> 1..LastMonth]
        /\ \A k \in there' : posted'[k] <= month'
        /\ version' \in [Items -> Nat \ {0}] /\ stored' \in [Items -> Nat]
        /\ \A k \in Items : stored'[k] <= version'[k]
    BY <1>1 DEF TablesOK
  <2>2. /\ active' \in [Items -> Nat] /\ edits' \in Nat
        /\ gone' \subseteq Items /\ there' \cap gone' = {}
        /\ \A k, l \in Items : active'[k] = active'[l] => k = l
        /\ resting' \in BOOLEAN
        /\ skipped' \subseteq Items /\ known' \subseteq Items
        /\ discovered' # None => discovered' \subseteq Items
        /\ cursor' # None => cursor' \in [month : 1..month', offset : Nat]
    BY <1>1, <1>5 DEF TablesOK
  <2>3. adapter' = "delving" =>
          \A k \in Items : active'[k] <= Cardinality(Items) + Cardinality(there' \cup gone') + edits'
    <3>1. there' \cup gone' = there \cup gone
      BY <1>1
    <3> QED
      BY <1>1, <3>1 DEF TablesOK
  <2> QED
    BY <1>1, <1>5, <2>1, <2>2, <2>3 DEF TablesOK
<1>7. ASSUME adapter \notin Specs PROVE PassSound' /\ MonthSound'
  <2>1. known' = known \ {i} /\ moved' = moved \cup Slipping(i) /\ known \subseteq there
    BY <1>1, <1>7 DEF TablesOK
  <2>2. \A k \in known' : k \in moved' \/ k \notin Listed(Where.month) \/ (Ahead(k) => Ahead(k)')
    BY <1>1, <1>7, <2>1, OneSlips
  <2> QED
    BY <1>1, <1>5, <1>7, <2>2, LaterIsSound
<1>8. Cardinality(there') + Cardinality(gone') = Cardinality(there) + Cardinality(gone)
      /\ (Cardinality(gone') < 2 => Cardinality(gone) < 2)
  BY <1>2, <1>3, <1>4
<1>9. ListSound'
  <2>1. Where' = Where /\ adapter' = adapter /\ discovered' = discovered /\ cursor' = cursor
    BY <1>1 DEF Where
  <2> QED
    BY <1>1, <1>8, <2>1 DEF ListSound, InList
<1> QED
  BY <1>1, <1>6, <1>7, <1>9 DEF ListingsInv, PassSound, MonthSound, Specs, WholeLists

-----------------------------------------------------------------------------
(* Steps that leave the listing as it is, and the theorems.                *)

LEMMA TurnMonthSound ==
  ASSUME ListingsInv, TurnMonth
  PROVE  ListingsInv'
<1>1. /\ TablesOK /\ MonthSound /\ adapter = "mailing_list" /\ month < LastMonth /\ month' = month + 1
      /\ UNCHANGED <<adapter, there, version, posted, active, edits, gone, restarts, discovered>>
      /\ cursor' = cursor /\ resting' = resting /\ stored' = stored
      /\ skipped' = skipped /\ known' = known /\ moved' = moved
  BY DEF ListingsInv, TurnMonth, history
<1>2. month \in Nat /\ month' \in 1..LastMonth /\ 1..month \subseteq 1..month'
  BY <1>1, ListingsAssumption DEF TablesOK
<1>3. \A k \in there' : posted'[k] <= month'
  <2>1. \A k \in there : posted[k] \in Nat /\ posted[k] <= month
    BY <1>1, ListingsAssumption DEF TablesOK
  <2> QED
    BY <1>1, <1>2, <2>1
<1>4. cursor' # None => cursor' \in [month : 1..month', offset : Nat]
  <2>1. cursor # None => cursor \in [month : 1..month, offset : Nat]
    BY <1>1 DEF TablesOK
  <2> QED
    BY <1>1, <1>2, <2>1
<1>5. TablesOK'
  BY <1>1, <1>2, <1>3, <1>4 DEF TablesOK
<1>6. MonthSound'
  BY <1>1 DEF MonthSound, Ahead, Where, Rank, Listed, Before
<1> QED
  BY <1>1, <1>5, <1>6 DEF ListingsInv, PassSound, ListSound

\* Waking, restarting and doing nothing move neither the listing nor the cursor.
LEMMA IdleSound ==
  ASSUME ListingsInv, Wake \/ Restart \/ UNCHANGED listingsVars
  PROVE  ListingsInv'
<1>1. /\ TablesOK /\ PassSound /\ MonthSound /\ ListSound
  BY DEF ListingsInv
<1>2. /\ adapter' = adapter /\ month' = month /\ there' = there /\ version' = version
      /\ posted' = posted /\ active' = active /\ edits' = edits /\ gone' = gone
      /\ cursor' = cursor /\ stored' = stored
      /\ skipped' = skipped /\ known' = known /\ moved' = moved
      /\ (resting' = resting \/ resting' = FALSE)
      /\ (discovered' = discovered \/ (adapter \in Specs /\ discovered' = None))
  <2>1. CASE Wake
    BY <2>1 DEF Wake, listing, history
  <2>2. CASE Restart
    BY <2>2 DEF Restart, listing, history
  <2>3. CASE UNCHANGED listingsVars
    BY <2>3 DEF listingsVars, listing, history
  <2> QED
    BY <2>1, <2>2, <2>3
<1>3. resting' \in BOOLEAN /\ (discovered' # None => discovered' \subseteq Items)
  BY <1>1, <1>2 DEF TablesOK
<1>4. TablesOK'
  BY <1>1, <1>2, <1>3 DEF TablesOK
<1>5. ListSound'
  BY <1>1, <1>2 DEF ListSound, InList, Where
<1>6. ASSUME adapter \notin Specs PROVE PassSound' /\ MonthSound'
  <2>1. \A m, k : Rank(m, k)' = Rank(m, k)
    BY <1>2, <1>6 DEF Rank, Listed, Before
  <2>2. Where' = Where
    BY <1>2 DEF Where
  <2>3. \A k : Ahead(k)' = Ahead(k)
    BY <2>1, <2>2 DEF Ahead
  <2>4. PassSound'
    BY <1>1, <1>2, <2>3 DEF PassSound
  <2> QED
    BY <1>1, <1>2, <2>2, <2>3, <2>4 DEF MonthSound
<1> QED
  BY <1>2, <1>4, <1>5, <1>6 DEF ListingsInv, PassSound, MonthSound, Specs, WholeLists

LEMMA ListingsBegin == ListingsInit => ListingsInv
<1> SUFFICES ASSUME ListingsInit PROVE ListingsInv
  OBVIOUS
<1>1. /\ adapter \in Adapters /\ month = 1
      /\ there = First /\ version = [i \in Items |-> 1] /\ posted = [i \in Items |-> 1]
      /\ active = [i \in Items |-> i]
      /\ edits = 0 /\ gone = {} /\ discovered = None /\ cursor = None /\ resting = FALSE
      /\ stored = [i \in Items |-> 0] /\ skipped = {} /\ known = {} /\ moved = {}
  BY DEF ListingsInit
<1>2. First \subseteq Items /\ 1 \in 1..LastMonth
  BY ListingsAssumption
<1>3. Items \subseteq Nat /\ Cardinality(Items) \in Nat /\ Cardinality(First) \in Nat
  BY <1>2, ItemsAreNumbers, FS_Subset, FS_CardinalityType
<1>4. \A i \in Items : i <= Cardinality(Items)
  <2>1. PICK n \in Nat : n = Cardinality(Items)
    BY <1>3
  <2>2. Items = 1..n
    BY <2>1, ListingsAssumption
  <2>3. \A i \in Items : i <= n
    BY ONLY <2>2, n \in Nat
  <2> QED
    BY <2>1, <2>3
<1>5. \A i \in Items : active[i] <= Cardinality(Items) + Cardinality(there \cup gone) + edits
  <2>1. there \cup gone = First
    BY <1>1
  <2> QED
    BY <1>1, <1>3, <1>4, <2>1
<1>6. TablesOK
  <2>1. active \in [Items -> Nat] /\ \A i, k \in Items : active[i] = active[k] => i = k
    BY <1>1, <1>3
  <2>2. /\ posted \in [Items -> 1..LastMonth] /\ \A i \in there : posted[i] <= month
        /\ version \in [Items -> Nat \ {0}] /\ stored \in [Items -> Nat]
        /\ \A i \in Items : stored[i] <= version[i]
    BY <1>1, <1>2
  <2> QED
    BY <1>1, <1>2, <1>5, <2>1, <2>2 DEF TablesOK
<1> QED
  BY <1>1, <1>6 DEF ListingsInv, PassSound, MonthSound, ListSound

LEMMA ListingsInductive == ListingsInv /\ [ListingsNext]_listingsVars => ListingsInv'
<1> SUFFICES ASSUME ListingsInv, [ListingsNext]_listingsVars PROVE ListingsInv'
  OBVIOUS
<1>1. CASE Discover
  BY <1>1, DiscoverSound
<1>2. CASE FetchBips
  BY <1>2, BipsSound
<1>3. CASE FetchBolts \/ FetchBlips \/ FetchLuds \/ FetchNuts
  BY <1>3, WholeListSound DEF FetchBolts, FetchBlips, FetchLuds, FetchNuts, WholeLists
<1>4. CASE FetchNewsletters \/ FetchTopics
  BY <1>4, NumberedSound DEF FetchNewsletters, FetchTopics
<1>5. CASE FetchMonth \/ FetchEmptyMonth
  BY <1>5, MonthlySound
<1>6. CASE \E i \in Items : Appear(i) \/ Edit(i) \/ Remove(i)
  BY <1>6, AppearSound, EditSound, RemoveSound
<1>7. CASE TurnMonth
  BY <1>7, TurnMonthSound
<1>8. CASE Wake \/ Restart \/ UNCHANGED listingsVars
  BY <1>8, IdleSound
<1> QED
  BY <1>1, <1>2, <1>3, <1>4, <1>5, <1>6, <1>7, <1>8 DEF ListingsNext, Fetch

\* The inductive invariant of the listings: whatever appears, changes, is
\* removed or renamed meanwhile, what a pass knew of, what has stayed and was
\* neither stored nor skipped is still ahead of its cursor, but for the topics
\* that moved to the head and the one entry each removal lets slip.
THEOREM ListingsInvariance == ListingsSpec => []ListingsInv
<1>1. ListingsInit => ListingsInv
  BY ListingsBegin
<1>2. ListingsInv /\ [ListingsNext]_listingsVars => ListingsInv'
  BY ListingsInductive
<1> QED
  BY <1>1, <1>2, PTL DEF ListingsSpec

\* When a pass over the newsletters or the forum's topics rests, and when the
\* cursor has left a month of the mailing list, everything that was there when
\* it began and has stayed is stored, but for what was skipped, topics that moved
\* to the head, and the entries that slipped onto a page already read when one
\* above them was removed.
THEOREM PassesAreComplete == ListingsSpec => []PassesReadAll
<1>1. ListingsInv => PassesReadAll
  <2> SUFFICES ASSUME ListingsInv PROVE PassesReadAll
    OBVIOUS
  <2>1. TablesOK /\ PassSound /\ MonthSound
    BY DEF ListingsInv
  <2>2. ListingsTypeOK
    BY <2>1 DEF TablesOK, ListingsTypeOK
  <2>3. PassReadsAll
    BY <2>1 DEF PassSound, PassReadsAll
  <2>4. MonthIsRead
    <3> SUFFICES ASSUME adapter = "mailing_list", cursor # None,
                        NEW k \in known, posted[k] < cursor.month
                 PROVE  stored[k] > 0 \/ k \in skipped \/ k \in moved
      BY DEF MonthIsRead
    <3>1. Where = cursor
      BY DEF Where
    <3>2. posted[k] \in Int /\ cursor.month \in Int
      BY <2>1, ListingsAssumption DEF TablesOK
    <3> QED
      BY <2>1, <3>1, <3>2 DEF MonthSound
  <2> QED
    BY <2>2, <2>3, <2>4 DEF PassesReadAll
<1> QED
  BY <1>1, ListingsInvariance, PTL

\* The slice of the BIPs' list cannot panic before two files have gone.
THEOREM OneGoneIsHarmless == ListingsSpec => []PanicsNeedTwoGone
<1>1. ListingsInv => PanicsNeedTwoGone
  BY DEF ListingsInv, ListSound, PanicsNeedTwoGone
<1> QED
  BY <1>1, ListingsInvariance, PTL
=============================================================================
