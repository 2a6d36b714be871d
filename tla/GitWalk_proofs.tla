--------------------------- MODULE GitWalk_proofs ----------------------------
(***************************************************************************)
(* Proofs about GitWalk: a walk that says it is complete has indexed all   *)
(* its head reaches, for every history, page size, cache and set of        *)
(* repositories.                                                           *)
(***************************************************************************)
EXTENDS GitWalk, FiniteSetTheorems, WellFoundedInduction, TLAPS

CursorSet ==
  [head : Commits, baseline : Commits \cup {None}, offset : Nat,
   complete : BOOLEAN, hid : BOOLEAN]

ClonesOK ==
  /\ tip \in [Repos -> Commits]
  /\ clone \in [Repos -> [state : {"absent", "broken", "whole"},
                          objects : SUBSET Commits, head : Commits \cup {None}]]
  /\ \A r \in Repos : clone[r].state = "whole" => clone[r].head \in Commits
  /\ job \in Repos \cup {None}
  /\ job # None /\ step = "walk" => clone[job].state = "whole"

DatabaseOK ==
  /\ cursor \in [Repos -> CursorSet \cup {None}]
  /\ indexed \in [Repos -> SUBSET Commits]
  /\ mentions \in [Repos -> SUBSET Commits]
  /\ regained \in [Repos -> BOOLEAN]

\* All that a commit reaches is in the database.
Covers(r, c) == Ancestors[c] \subseteq indexed[r]

\* The commits a walk visits as long as it finds, or misses, its baseline.
Walked(w) == Ancestors[w.head] \ (IF w.hid THEN Ancestors[w.baseline] ELSE {})

\* Where a walk stands: its baseline is covered, and so is what it has visited
\* up to its offset; a complete one covers its head.
WalkSound(r) ==
  cursor[r] # None /\ ~regained[r] =>
    LET w == cursor[r]
    IN  IF w.complete THEN Covers(r, w.head)
        ELSE /\ w.hid => w.baseline # None
             /\ w.baseline # None => Covers(r, w.baseline)
             /\ \A c \in Walked(w) : Rank(Walked(w), c) <= w.offset => c \in indexed[r]

\* The reference of a merge comes with its commit.
MentionsFollow == \A r \in Repos \ Migrated : indexed[r] \cap PRMerges \subseteq mentions[r]

WalksSound == \A r \in Repos : WalkSound(r)

IInv == ClonesOK /\ DatabaseOK /\ WalksSound /\ MentionsFollow

-----------------------------------------------------------------------------
(* Ranks.                                                                  *)

LEMMA RankType ==
  ASSUME NEW S \in SUBSET Commits, NEW c \in S
  PROVE  /\ IsFiniteSet(S)
         /\ Rank(S, c) \in Nat /\ Rank(S, c) >= 1
<1>1. IsFiniteSet(S)
  BY GraphAssumption, FS_Subset
<1> DEFINE U == {d \in S : d >= c}
<1>2. IsFiniteSet(U)
  BY <1>1, FS_Subset
<1>3. Cardinality(U) \in Nat
  BY <1>2, FS_CardinalityType
<1>4. c \in U
  BY GraphAssumption
<1>5. Cardinality(U) # 0
  BY <1>2, <1>4, FS_EmptySet
<1> QED
  BY <1>1, <1>3, <1>5 DEF Rank

\* A commit's rank is no less in a larger set.
LEMMA RankGrows ==
  ASSUME NEW S \in SUBSET Commits, NEW T \in SUBSET S, NEW c \in T
  PROVE  Rank(T, c) <= Rank(S, c)
<1>1. IsFiniteSet({d \in S : d >= c})
  BY RankType, FS_Subset
<1>2. {d \in T : d >= c} \subseteq {d \in S : d >= c}
  OBVIOUS
<1> QED
  BY <1>1, <1>2, FS_Subset DEF Rank

LEMMA RankInjective ==
  ASSUME NEW S \in SUBSET Commits, NEW c \in S, NEW e \in S, Rank(S, c) = Rank(S, e)
  PROVE  c = e
<1> SUFFICES ASSUME NEW a \in S, NEW b \in S, a < b PROVE Rank(S, a) # Rank(S, b)
  BY GraphAssumption
<1> DEFINE A == {d \in S : d >= a}
           B == {d \in S : d >= b}
<1>1. a \in Nat /\ b \in Nat /\ \A d \in S : d \in Nat
  BY GraphAssumption
<1>2. B \subseteq A /\ a \in A /\ a \notin B
  <2>1. \A d \in S : d >= b => d >= a
    BY <1>1
  <2>2. a >= a /\ ~(a >= b)
    BY <1>1
  <2> QED
    BY <2>1, <2>2
<1>3. IsFiniteSet(A)
  BY RankType, FS_Subset
<1>4. Cardinality(A) # Cardinality(B)
  BY <1>2, <1>3, FS_Subset
<1> QED
  BY <1>4 DEF Rank

\* A page is no longer than PageSize.
LEMMA PageIsBounded ==
  ASSUME NEW S \in SUBSET Commits, NEW offset \in Nat
  PROVE  /\ Cardinality(Page(S, offset)) \in Nat
         /\ Cardinality(Page(S, offset)) <= PageSize
<1> DEFINE P == Page(S, offset)
           f == [c \in P |-> Rank(S, c) - offset]
<1>1. \A c \in P : c \in S /\ Rank(S, c) - offset \in 1..PageSize
  BY DEF Page
<1>2. f \in Injection(P, 1..PageSize)
  <2>1. f \in [P -> 1..PageSize]
    BY <1>1
  <2>2. ASSUME NEW c \in P, NEW e \in P, f[c] = f[e] PROVE c = e
    <3>1. Rank(S, c) \in Nat /\ Rank(S, e) \in Nat /\ Rank(S, c) - offset = Rank(S, e) - offset
      BY <1>1, <2>2, RankType
    <3> QED
      BY <1>1, <3>1, RankInjective
  <2> QED
    BY <2>1, <2>2 DEF Injection, IsInjective
<1>3. PageSize \in Nat \ {0}
  BY SizesAssumption
<1>4. IsFiniteSet(1..PageSize) /\ Cardinality(1..PageSize) = PageSize
  BY <1>3, FS_Interval
<1> HIDE DEF f
<1>5. IsFiniteSet(P) /\ Cardinality(P) <= PageSize
  BY <1>2, <1>4, FS_Injection
<1> QED
  BY <1>5, FS_CardinalityType

-----------------------------------------------------------------------------
(* One page.                                                               *)

\* What has been visited when a page is read with its baseline found or not,
\* whatever the last page did: unless a missing baseline came back, the first
\* `offset` commits of the list that is walked now are in the database.
LEMMA VisitedBefore ==
  ASSUME NEW r \in Repos, NEW w \in CursorSet, NEW hid \in BOOLEAN, DatabaseOK,
         hid => w.baseline # None,
         w.hid => w.baseline # None,
         w.baseline # None => Covers(r, w.baseline),
         \A c \in Walked(w) : Rank(Walked(w), c) <= w.offset => c \in indexed[r],
         ~(hid /\ ~w.hid /\ w.offset > 0),
         NEW S, S = Ancestors[w.head] \ (IF hid THEN Ancestors[w.baseline] ELSE {}),
         NEW c \in S, Rank(S, c) <= w.offset
  PROVE  c \in indexed[r]
<1>1. /\ w.head \in Commits /\ w.offset \in Nat /\ w.hid \in BOOLEAN
      /\ w.baseline \in Commits \cup {None}
  BY DEF CursorSet
<1>2. Ancestors[w.head] \subseteq Commits
  BY <1>1, GraphAssumption
<1>3. CASE hid = w.hid
  <2>1. S = Walked(w)
    BY <1>3 DEF Walked
  <2> QED
    BY <2>1
<1>4. CASE hid /\ ~w.hid
  <2>1. S \in SUBSET Commits
    BY <1>2
  <2>2. Rank(S, c) \in Nat /\ Rank(S, c) >= 1
    BY <2>1, RankType
  <2>3. w.offset = 0
    BY <1>1, <1>4
  <2> QED
    BY <2>2, <2>3
<1>5. CASE ~hid /\ w.hid
  <2>1. S = Ancestors[w.head] /\ Walked(w) = Ancestors[w.head] \ Ancestors[w.baseline]
    BY <1>5 DEF Walked
  <2>2. CASE c \in Ancestors[w.baseline]
    BY <1>5, <2>2 DEF Covers
  <2>3. CASE c \notin Ancestors[w.baseline]
    <3>1. c \in Walked(w) /\ Walked(w) \subseteq S /\ S \in SUBSET Commits
      BY <1>2, <2>1, <2>3
    <3>2. Rank(Walked(w), c) <= Rank(S, c)
      BY <3>1, RankGrows
    <3>3. Rank(Walked(w), c) \in Nat /\ Rank(S, c) \in Nat
      BY <3>1, RankType
    <3> QED
      BY <1>1, <3>1, <3>2, <3>3
  <2> QED
    BY <2>2, <2>3
<1> QED
  BY <1>1, <1>3, <1>4, <1>5

\* The page brings the rest up to the new offset, and everything when no
\* commit is left beyond it.
LEMMA VisitedAfter ==
  ASSUME NEW S \in SUBSET Commits, NEW offset \in Nat, NEW before,
         \A c \in S : Rank(S, c) <= offset => c \in before
  PROVE  /\ \A c \in S : Rank(S, c) <= offset + Cardinality(Page(S, offset)) =>
                          c \in before \cup Page(S, offset)
         /\ ~(\E c \in S : Rank(S, c) > offset + PageSize) => S \subseteq before \cup Page(S, offset)
<1>1. /\ Cardinality(Page(S, offset)) \in Nat
      /\ Cardinality(Page(S, offset)) <= PageSize
      /\ PageSize \in Nat
  BY PageIsBounded, SizesAssumption
<1>2. ASSUME NEW c \in S, Rank(S, c) <= offset + PageSize
      PROVE  c \in before \cup Page(S, offset)
  <2>1. Rank(S, c) \in Nat
    BY RankType
  <2>2. CASE Rank(S, c) <= offset
    BY <2>2
  <2>3. CASE ~(Rank(S, c) <= offset)
    <3>1. Rank(S, c) - offset \in 1..PageSize
      BY <1>1, <1>2, <2>1, <2>3
    <3> QED
      BY <3>1 DEF Page
  <2> QED
    BY <2>2, <2>3
<1>3. \A c \in S : Rank(S, c) \in Nat
  BY RankType
<1> DEFINE n == Cardinality(Page(S, offset))
<1>4. ASSUME NEW c \in S, Rank(S, c) <= offset + n PROVE c \in before \cup Page(S, offset)
  <2>1. Rank(S, c) <= offset + PageSize
    BY <1>1, <1>3, <1>4
  <2> QED
    BY <1>2, <2>1
<1>5. ASSUME ~(\E c \in S : Rank(S, c) > offset + PageSize) PROVE S \subseteq before \cup Page(S, offset)
  <2> SUFFICES ASSUME NEW c \in S PROVE c \in before \cup Page(S, offset)
    OBVIOUS
  <2>1. Rank(S, c) <= offset + PageSize
    BY <1>1, <1>3, <1>5
  <2> QED
    BY <1>2, <2>1
<1> QED
  BY <1>4, <1>5

\* What Resume continues from is sound.
LEMMA ResumeSound ==
  ASSUME NEW r \in Repos, ClonesOK, DatabaseOK, WalkSound(r), clone[r].state = "whole"
  PROVE  /\ Resume(r) \in CursorSet
         /\ ~Resume(r).complete
         /\ ~regained[r] =>
              LET w == Resume(r)
              IN  /\ w.hid => w.baseline # None
                  /\ w.baseline # None => Covers(r, w.baseline)
                  /\ \A c \in Walked(w) : Rank(Walked(w), c) <= w.offset => c \in indexed[r]
<1>1. CASE cursor[r] # None /\ ~cursor[r].complete
  <2>1. Resume(r) = cursor[r]
    BY <1>1 DEF Resume
  <2>2. cursor[r] \in CursorSet
    BY <1>1 DEF DatabaseOK
  <2> QED
    BY <1>1, <2>1, <2>2 DEF WalkSound
<1>2. CASE ~(cursor[r] # None /\ ~cursor[r].complete)
  <2> DEFINE b == IF cursor[r] = None THEN None ELSE cursor[r].head
             w == [head |-> clone[r].head, baseline |-> b,
                   offset |-> 0, complete |-> FALSE, hid |-> FALSE]
  <2>1. Resume(r) = w
    BY <1>2 DEF Resume
  <2>2. b \in Commits \cup {None}
    BY DEF DatabaseOK, CursorSet
  <2>3. clone[r].head \in Commits
    BY DEF ClonesOK
  <2>4. w \in CursorSet /\ w.head = clone[r].head /\ w.baseline = b /\ w.offset = 0
        /\ w.hid = FALSE /\ w.complete = FALSE
    BY <2>2, <2>3 DEF CursorSet
  <2>5. ~regained[r] /\ b # None => Covers(r, b)
    BY <1>2 DEF WalkSound
  <2>6. Walked(w) = Ancestors[clone[r].head]
    BY <2>4 DEF Walked
  <2> HIDE DEF w, b
  <2>7. Walked(w) \in SUBSET Commits
    <3>1. \A c \in Commits : Ancestors[c] \in SUBSET Commits
      BY GraphAssumption
    <3>2. Ancestors[clone[r].head] \in SUBSET Commits
      BY <2>3, <3>1
    <3> QED
      BY <2>6, <3>2
  <2>8. \A c \in Walked(w) : Rank(Walked(w), c) \in Nat /\ Rank(Walked(w), c) >= 1
    BY <2>7, RankType
  <2>9. \A c \in Walked(w) : ~(Rank(Walked(w), c) <= w.offset)
    BY <2>4, <2>8
  <2> QED
    BY <2>1, <2>4, <2>5, <2>9
<1> QED
  BY <1>1, <1>2

-----------------------------------------------------------------------------
(* The steps.                                                              *)

LEMMA InitIInv == Init => IInv
<1> SUFFICES ASSUME Init PROVE IInv
  OBVIOUS
<1>1. ClonesOK
  BY SizesAssumption DEF Init, ClonesOK, NoClone
<1>2. DatabaseOK /\ WalksSound /\ MentionsFollow
  BY DEF Init, DatabaseOK, WalksSound, WalkSound, MentionsFollow
<1> QED
  BY <1>1, <1>2 DEF IInv

\* Whoever leaves the database alone leaves the walks sound.
LEMMA SameDatabase ==
  ASSUME DatabaseOK, WalksSound, MentionsFollow, UNCHANGED database
  PROVE  DatabaseOK' /\ WalksSound' /\ MentionsFollow'
BY DEF database, DatabaseOK, WalksSound, WalkSound, MentionsFollow, Covers, Walked, Rank

LEMMA EnsureIInv == IInv /\ Ensure => IInv'
<1> SUFFICES ASSUME ClonesOK, DatabaseOK, WalksSound, MentionsFollow, Ensure PROVE IInv'
  BY DEF IInv
<1>1. UNCHANGED database
  BY DEF Ensure, CloneRepo, CloneFails, FetchRepo, FetchFails
<1>2. ASSUME NEW made \in [state : {"absent", "broken", "whole"}, objects : SUBSET Commits,
                           head : Commits \cup {None}],
             made.state = "whole" => made.head \in Commits,
             Evict(made), UNCHANGED <<remote, job>>
      PROVE  /\ tip' \in [Repos -> Commits]
             /\ clone' \in [Repos -> [state : {"absent", "broken", "whole"},
                                      objects : SUBSET Commits, head : Commits \cup {None}]]
             /\ \A r \in Repos : clone'[r].state = "whole" => clone'[r].head \in Commits
             /\ job \in Repos => clone'[job] = made
  <2>1. NoClone \in [state : {"absent", "broken", "whole"}, objects : SUBSET Commits,
                     head : Commits \cup {None}]
        /\ NoClone.state # "whole"
    BY DEF NoClone
  <2> QED
    BY <1>2, <2>1 DEF ClonesOK, Evict, remote
<1>3. CASE CloneRepo
  <2> DEFINE made == Whole(Ancestors[tip[job]], tip[job])
  <2>1. job \in Repos /\ tip[job] \in Commits /\ Ancestors[tip[job]] \subseteq Commits
    BY <1>3, GraphAssumption DEF CloneRepo, ClonesOK
  <2>2. /\ made \in [state : {"absent", "broken", "whole"}, objects : SUBSET Commits,
                      head : Commits \cup {None}]
        /\ made.head \in Commits /\ made.state = "whole"
    BY <2>1 DEF Whole
  <2> HIDE DEF made
  <2>3. Evict(made) /\ UNCHANGED <<remote, job>>
    BY <1>3 DEF CloneRepo, made
  <2> QED
    BY <1>1, <1>2, <2>1, <2>2, <2>3, SameDatabase DEF IInv, ClonesOK
<1>4. CASE CloneFails
  <2>1. job' = None /\ UNCHANGED remote
    BY <1>4 DEF CloneFails, End
  <2>2. clone' \in [Repos -> [state : {"absent", "broken", "whole"},
                             objects : SUBSET Commits, head : Commits \cup {None}]]
        /\ \A r \in Repos : clone'[r].state = "whole" => clone'[r].head \in Commits
    BY <1>4 DEF CloneFails, Evict, NoClone, ClonesOK
  <2>3. ClonesOK'
    BY <2>1, <2>2 DEF ClonesOK, remote
  <2> QED
    BY <1>1, <2>3, SameDatabase DEF IInv
<1>5. CASE FetchRepo
  <2>1. job \in Repos /\ tip[job] \in Commits /\ Ancestors[tip[job]] \subseteq Commits
        /\ FetchedHead(job) \in Commits
    BY <1>5, GraphAssumption DEF FetchRepo, ClonesOK, FetchedHead
  <2> DEFINE made == Whole(clone[job].objects \cup Ancestors[tip[job]], FetchedHead(job))
  <2>2. /\ made \in [state : {"absent", "broken", "whole"}, objects : SUBSET Commits,
                      head : Commits \cup {None}]
        /\ made.head \in Commits /\ made.state = "whole"
    BY <2>1 DEF Whole, ClonesOK
  <2>3. clone' = [clone EXCEPT ![job] = made] /\ UNCHANGED <<remote, job>>
    BY <1>5 DEF FetchRepo
  <2> HIDE DEF made
  <2>4. ClonesOK'
    BY <2>1, <2>2, <2>3 DEF ClonesOK, remote
  <2> QED
    BY <1>1, <2>4, SameDatabase DEF IInv
<1>6. CASE FetchFails
  <2>1. ClonesOK'
    BY <1>6 DEF FetchFails, End, ClonesOK, remote, cache
  <2> QED
    BY <1>1, <2>1, SameDatabase DEF IInv
<1> QED
  BY <1>3, <1>4, <1>5, <1>6 DEF Ensure

LEMMA WalkNothingIInv == IInv /\ WalkNothing => IInv'
<1> SUFFICES ASSUME ClonesOK, DatabaseOK, WalksSound, MentionsFollow, WalkNothing PROVE IInv'
  BY DEF IInv
<1> DEFINE w == Resume(job)
           done == [w EXCEPT !.complete = TRUE]
<1>1. /\ job \in Repos /\ clone[job].state = "whole" /\ w.baseline = w.head
      /\ cursor' = [cursor EXCEPT ![job] = done]
      /\ job' = None
      /\ UNCHANGED <<remote, cache, indexed, mentions, regained>>
  BY DEF WalkNothing, ClonesOK, Finish, End
<1>2. /\ w \in CursorSet
      /\ ~regained[job] /\ w.baseline # None => Covers(job, w.baseline)
  BY <1>1, ResumeSound DEF WalksSound
<1> HIDE DEF w
<1>3. done \in CursorSet /\ done.complete = TRUE /\ done.head = w.head
  BY <1>2 DEF CursorSet
<1> HIDE DEF done
<1>4. w.head \in Commits /\ w.head # None
  BY <1>2, SizesAssumption DEF CursorSet
<1>5. ClonesOK'
  BY <1>1 DEF ClonesOK, remote, cache
<1>6. DatabaseOK'
  BY <1>1, <1>3 DEF DatabaseOK
<1>7. ASSUME NEW r \in Repos PROVE WalkSound(r)'
  <2>1. CASE r = job
    <3>1. cursor'[r] = done /\ regained'[r] = regained[r] /\ indexed' = indexed
      BY <1>1, <2>1 DEF DatabaseOK
    <3>2. ~regained[r] => Covers(r, w.head)
      BY <1>1, <1>2, <1>4, <2>1
    <3> QED
      BY <1>3, <3>1, <3>2 DEF WalkSound, Covers
  <2>2. CASE r # job
    <3>1. cursor'[r] = cursor[r]
      BY <1>1, <2>2 DEF DatabaseOK
    <3>2. WalkSound(r)
      BY DEF WalksSound
    <3> QED
      BY <1>1, <3>1, <3>2 DEF WalkSound, Covers, Walked, Rank
  <2> QED
    BY <2>1, <2>2
<1>8. MentionsFollow'
  BY <1>1 DEF MentionsFollow
<1> QED
  BY <1>5, <1>6, <1>7, <1>8 DEF IInv, WalksSound

LEMMA WalkPageIInv == IInv /\ WalkPage => IInv'
<1> SUFFICES ASSUME ClonesOK, DatabaseOK, WalksSound, MentionsFollow, WalkPage PROVE IInv'
  BY DEF IInv
<1> DEFINE w == Resume(job)
           hid == w.baseline \in clone[job].objects
           S == ToWalk(job, w)
           page == Page(S, w.offset)
           more == \E c \in S : Rank(S, c) > w.offset + PageSize
           n == Cardinality(page)
           at == [Advanced(w, n) EXCEPT !.hid = hid]
           done == [at EXCEPT !.complete = TRUE]
<1>1. /\ job \in Repos /\ clone[job].state = "whole"
      /\ cursor' = [cursor EXCEPT ![job] = IF more THEN at ELSE done]
      /\ indexed' = [indexed EXCEPT ![job] = indexed[job] \cup page]
      /\ job \in Migrated => mentions' = mentions
      /\ job \notin Migrated =>
           mentions' = [mentions EXCEPT ![job] = mentions[job] \cup (page \cap PRMerges)]
      /\ regained' = [regained EXCEPT ![job] = regained[job] \/ (hid /\ ~w.hid /\ w.offset > 0)]
      /\ job' = None
      /\ UNCHANGED <<remote, cache>>
  BY DEF WalkPage, ClonesOK, Finish, Indexed, Mentioned, End
<1>2. /\ w \in CursorSet /\ ~w.complete
      /\ ~regained[job] =>
           /\ w.hid => w.baseline # None
           /\ w.baseline # None => Covers(job, w.baseline)
           /\ \A c \in Walked(w) : Rank(Walked(w), c) <= w.offset => c \in indexed[job]
  BY <1>1, ResumeSound DEF WalksSound
<1>3. clone[job].objects \subseteq Commits
  BY <1>1 DEF ClonesOK
<1>4. S = Ancestors[w.head] \ (IF hid THEN Ancestors[w.baseline] ELSE {})
  BY DEF ToWalk, Hidden
<1> HIDE DEF w, S
<1>5. /\ w.head \in Commits /\ w.offset \in Nat /\ hid \in BOOLEAN
      /\ w.baseline \in Commits \cup {None} /\ hid => w.baseline # None
  BY <1>2, <1>3, SizesAssumption DEF CursorSet
<1>6. S \in SUBSET Commits /\ page \subseteq S
  BY <1>4, <1>5, GraphAssumption DEF Page
<1>7. n \in Nat
  BY <1>5, <1>6, PageIsBounded
<1> HIDE DEF n, hid
<1>9. /\ at \in CursorSet /\ at.head = w.head /\ at.baseline = w.baseline
      /\ at.offset = w.offset + n /\ at.hid = hid /\ at.complete = w.complete
      /\ done \in CursorSet /\ done.head = w.head /\ done.complete = TRUE
  <2> DEFINE on == [w EXCEPT !.offset = @ + n]
  <2>1. /\ on \in CursorSet /\ on.head = w.head /\ on.baseline = w.baseline
        /\ on.offset = w.offset + n /\ on.complete = w.complete
    BY <1>2, <1>5, <1>7 DEF CursorSet
  <2>2. at = [on EXCEPT !.hid = hid]
    BY DEF Advanced
  <2>3. done = [at EXCEPT !.complete = TRUE]
    OBVIOUS
  <2> HIDE DEF on, at, done
  <2>4. /\ at \in CursorSet /\ at.head = w.head /\ at.baseline = w.baseline
        /\ at.offset = w.offset + n /\ at.hid = hid /\ at.complete = w.complete
    BY <1>5, <2>1, <2>2 DEF CursorSet
  <2>5. done \in CursorSet /\ done.head = w.head /\ done.complete = TRUE
    BY <2>3, <2>4 DEF CursorSet
  <2> QED
    BY <2>4, <2>5
<1> HIDE DEF at, done, more, page
<1>10. ClonesOK'
  BY <1>1 DEF ClonesOK, remote, cache
<1>11. DatabaseOK'
  BY <1>1, <1>5, <1>6, <1>9 DEF DatabaseOK
<1>12. MentionsFollow'
  BY <1>1 DEF MentionsFollow, DatabaseOK
<1>13. ASSUME NEW r \in Repos, r # job PROVE WalkSound(r)'
  <2>1. cursor'[r] = cursor[r] /\ indexed'[r] = indexed[r] /\ regained'[r] = regained[r]
    BY <1>1, <1>13 DEF DatabaseOK
  <2>2. WalkSound(r)
    BY DEF WalksSound
  <2> QED
    BY <2>1, <2>2 DEF WalkSound, Covers, Walked, Rank
<1>14. ASSUME NEW r \in Repos, r = job, ~regained'[r] PROVE WalkSound(r)'
  <2>1. ~regained[r] /\ ~(hid /\ ~w.hid /\ w.offset > 0)
    BY <1>1, <1>14 DEF DatabaseOK
  <2>2. indexed'[r] = indexed[r] \cup page
    BY <1>1, <1>14 DEF DatabaseOK
  <2>3. \A c \in S : Rank(S, c) <= w.offset => c \in indexed[r]
    BY <1>1, <1>2, <1>4, <1>5, <1>14, <2>1, VisitedBefore
  <2>4. /\ \A c \in S : Rank(S, c) <= w.offset + n => c \in indexed'[r]
        /\ ~more => S \subseteq indexed'[r]
    BY <1>5, <1>6, <2>2, <2>3, VisitedAfter DEF n, page, more
  <2>5. w.baseline # None => Ancestors[w.baseline] \subseteq indexed'[r]
    BY <1>2, <1>14, <2>1, <2>2 DEF Covers
  <2>6. CASE more
    <3>1. cursor'[r] = at
      BY <1>1, <1>14, <2>6 DEF DatabaseOK
    <3>2. Walked(at) = S
      BY <1>4, <1>9 DEF Walked
    <3>3. ~at.complete /\ (at.hid => at.baseline # None)
      BY <1>2, <1>5, <1>9
    <3>4. at.baseline # None => Ancestors[at.baseline] \subseteq indexed'[r]
      BY <1>9, <2>5
    <3>5. \A c \in Walked(at) : Rank(Walked(at), c) <= at.offset => c \in indexed'[r]
      BY <1>9, <2>4, <3>2
    <3> QED
      BY <3>1, <3>3, <3>4, <3>5 DEF WalkSound, Covers, Walked, Rank
  <2>7. CASE ~more
    <3>1. cursor'[r] = done
      BY <1>1, <1>14, <2>7 DEF DatabaseOK
    <3>2. Ancestors[w.head] \subseteq indexed'[r]
      BY <1>4, <1>5, <2>4, <2>5, <2>7
    <3> QED
      BY <1>9, <3>1, <3>2 DEF WalkSound, Covers
  <2> QED
    BY <2>6, <2>7
<1>15. WalksSound'
  <2> SUFFICES ASSUME NEW r \in Repos PROVE WalkSound(r)'
    BY DEF WalksSound
  <2>1. regained'[r] => WalkSound(r)'
    BY DEF WalkSound
  <2> QED
    BY <1>13, <1>14, <2>1
<1> QED
  BY <1>10, <1>11, <1>12, <1>15 DEF IInv

LEMMA StepIInv == IInv /\ [Next]_vars => IInv'
<1> SUFFICES ASSUME ClonesOK, DatabaseOK, WalksSound, MentionsFollow, [Next]_vars PROVE IInv'
  BY DEF IInv
<1>1. CASE Ensure
  BY <1>1, EnsureIInv DEF IInv
<1>2. CASE WalkNothing
  BY <1>2, WalkNothingIInv DEF IInv
<1>3. CASE WalkPage
  BY <1>3, WalkPageIInv DEF IInv
<1>4. CASE WalkFails
  <2>1. ClonesOK' /\ UNCHANGED database
    BY <1>4 DEF WalkFails, End, ClonesOK, remote, cache
  <2> QED
    BY <2>1, SameDatabase DEF IInv
<1>5. ASSUME NEW r \in Repos, Begin(r) PROVE IInv'
  <2>1. ClonesOK' /\ UNCHANGED database
    BY <1>5 DEF Begin, ClonesOK, remote, cache
  <2> QED
    BY <2>1, SameDatabase DEF IInv
<1>6. ASSUME NEW r \in Repos, NEW c \in Commits, Push(r, c) PROVE IInv'
  <2>1. ClonesOK' /\ UNCHANGED database
    BY <1>6 DEF Push, ClonesOK, cache
  <2> QED
    BY <2>1, SameDatabase DEF IInv
<1>7. CASE Crash
  <2>1. job' = None /\ UNCHANGED <<remote, database>>
    BY <1>7 DEF Crash
  <2>2. clone' = clone \/ (job \in Repos /\ clone' = [clone EXCEPT ![job] = Broken])
    BY <1>7 DEF Crash, ClonesOK
  <2>3. Broken \in [state : {"absent", "broken", "whole"}, objects : SUBSET Commits,
                    head : Commits \cup {None}]
        /\ Broken.state # "whole"
    BY DEF Broken
  <2>4. ClonesOK'
    BY <2>1, <2>2, <2>3 DEF ClonesOK, remote
  <2> QED
    BY <2>1, <2>4, SameDatabase DEF IInv
<1>8. ASSUME NEW r \in Repos, Reset(r) PROVE IInv'
  <2>1. ClonesOK'
    BY <1>8 DEF Reset, ClonesOK, remote, cache
  <2>2. DatabaseOK' /\ MentionsFollow'
    BY <1>8 DEF Reset, DatabaseOK, MentionsFollow
  <2>3. ASSUME NEW s \in Repos PROVE WalkSound(s)'
    <3>1. CASE s = r
      BY <1>8, <3>1 DEF Reset, WalkSound, DatabaseOK
    <3>2. CASE s # r
      <4>1. cursor'[s] = cursor[s] /\ indexed'[s] = indexed[s] /\ regained'[s] = regained[s]
        BY <1>8, <3>2 DEF Reset, DatabaseOK
      <4>2. WalkSound(s)
        BY DEF WalksSound
      <4> QED
        BY <4>1, <4>2 DEF WalkSound, Covers, Walked, Rank
    <3> QED
      BY <3>1, <3>2
  <2> QED
    BY <2>1, <2>2, <2>3 DEF IInv, WalksSound
<1>9. CASE UNCHANGED vars
  <2>1. ClonesOK' /\ UNCHANGED database
    BY <1>9 DEF vars, ClonesOK, remote, cache, database
  <2> QED
    BY <2>1, SameDatabase DEF IInv
<1> QED
  BY <1>1, <1>2, <1>3, <1>4, <1>5, <1>6, <1>7, <1>8, <1>9 DEF Next, Walk

\* Whatever is in the database, a walk or the cache is of its type, the clone
\* that is walked is whole, and every walk stands where its offset says.
THEOREM Inductive == Spec => []IInv
<1>1. QED
  BY InitIInv, StepIInv, PTL DEF Spec

\* A walk that is complete has indexed all its head reaches, with the pull
\* requests its merges mention, unless a missing baseline came back between
\* two of its pages.
THEOREM CompleteIsComplete == Spec => []CompleteMeansAll
<1>1. IInv => CompleteMeansAll
  <2> SUFFICES ASSUME IInv, NEW r \in Repos, cursor[r] # None, cursor[r].complete, ~regained[r]
               PROVE  /\ Ancestors[cursor[r].head] \subseteq indexed[r]
                      /\ r \in Migrated \/ Ancestors[cursor[r].head] \cap PRMerges \subseteq mentions[r]
    BY DEF CompleteMeansAll
  <2>1. Ancestors[cursor[r].head] \subseteq indexed[r]
    BY DEF IInv, WalksSound, WalkSound, Covers
  <2> QED
    BY <2>1 DEF IInv, MentionsFollow
<1>2. QED
  BY <1>1, Inductive, PTL

-----------------------------------------------------------------------------
(* The cache.                                                              *)

LEMMA OrderRestrict ==
  ASSUME NEW S, accessed \in Orders(S), NEW T \in SUBSET S
  PROVE  accessed \cap (T \X T) \in Orders(T)
<1>1. PICK o : o = accessed \cap (T \X T)
  OBVIOUS
<1>2. \A r, s \in T : <<r, s>> \in o <=> <<r, s>> \in accessed
  BY <1>1
<1>3. o \in SUBSET (T \X T)
  BY <1>1
<1> QED
  BY <1>1, <1>2, <1>3 DEF Orders

LEMMA TouchOrder ==
  ASSUME NEW S, accessed \in Orders(S), NEW T \in SUBSET S, NEW r, r \notin T
  PROVE  Touch(r, T) \in Orders(T \cup {r})
<1>1. PICK o : o = Touch(r, T)
  OBVIOUS
<1>2. \A a, b \in T : <<a, b>> \in o <=> <<a, b>> \in accessed
  BY <1>1 DEF Touch
<1>3. \A a \in T : <<a, r>> \in o /\ <<r, a>> \notin o
  BY <1>1 DEF Touch
<1>4. o \in SUBSET ((T \cup {r}) \X (T \cup {r})) /\ <<r, r>> \notin o
  BY <1>1 DEF Touch
<1> QED
  BY <1>1, <1>2, <1>3, <1>4 DEF Orders

\* Sizes add up.
LEMMA SizeOfParts ==
  ASSUME NEW S \in SUBSET Repos, NEW T \in SUBSET S
  PROVE  /\ SizeOf(S) \in Nat /\ SizeOf(T) \in Nat /\ SizeOf(S \ T) \in Nat
         /\ SizeOf(S) = SizeOf(T) + SizeOf(S \ T)
<1> DEFINE P(U) == {p \in U \X Commits : p[2] \in clone[p[1]].objects}
<1>1. \A U \in SUBSET Repos : IsFiniteSet(P(U))
  <2>1. IsFiniteSet(Repos \X Commits)
    BY GraphAssumption, SizesAssumption, FS_Product
  <2>2. \A U \in SUBSET Repos : P(U) \subseteq Repos \X Commits
    OBVIOUS
  <2> QED
    BY <2>1, <2>2, FS_Subset
<1>2. P(S) \ P(T) = P(S \ T) /\ P(S) \cap P(T) = P(T)
  OBVIOUS
<1>3. SizeOf(S) = Cardinality(P(S)) /\ SizeOf(T) = Cardinality(P(T))
      /\ SizeOf(S \ T) = Cardinality(P(S \ T))
  BY DEF SizeOf
<1>4. IsFiniteSet(P(S)) /\ IsFiniteSet(P(T)) /\ IsFiniteSet(P(S \ T))
  BY <1>1
<1> HIDE DEF P
<1>5. PICK m, n, k : m = SizeOf(S) /\ n = SizeOf(T) /\ k = SizeOf(S \ T)
  OBVIOUS
<1>6. m \in Nat /\ n \in Nat /\ k \in Nat
  BY <1>3, <1>4, <1>5, FS_CardinalityType
<1>7. Cardinality(P(S) \ P(T)) = Cardinality(P(S)) - Cardinality(P(S) \cap P(T))
  BY <1>4, FS_Difference
<1>8. k = m - n
  BY <1>2, <1>3, <1>5, <1>7
<1>9. m = n + k
  BY <1>6, <1>8
<1> QED
  BY <1>5, <1>6, <1>9

\* An eviction leaves what fits, or what cannot be removed.
LEMMA EvictedSuffices ==
  ASSUME accessed \in Orders(OnDisk)
  PROVE  SizeOf(OnDisk \ Evicted) <= MaxCache \/ OnDisk \ Evicted \subseteq Stubborn
<1> DEFINE N == Removable \ Evicted
<1> SUFFICES ASSUME N # {} PROVE SizeOf(OnDisk \ Evicted) <= MaxCache
  BY DEF Removable
<1>1. OnDisk \subseteq Repos /\ Removable \subseteq OnDisk /\ Evicted \subseteq Removable
      /\ IsFiniteSet(Repos) /\ MaxCache \in Nat
  BY SizesAssumption DEF OnDisk, Removable, Evicted
<1>2. \A r : UsedBefore(r) \subseteq Removable /\ IsFiniteSet(UsedBefore(r))
             /\ Cardinality(UsedBefore(r)) \in Nat
  <2>1. \A r : UsedBefore(r) \subseteq Removable
    BY DEF UsedBefore
  <2> QED
    BY <1>1, <2>1, FS_Subset, FS_CardinalityType
<1>3. PICK r \in N : \A s \in N : Cardinality(UsedBefore(r)) <= Cardinality(UsedBefore(s))
  <2> DEFINE K == {Cardinality(UsedBefore(r)) : r \in N}
  <2>1. K \in SUBSET Nat /\ K # {}
    BY <1>2
  <2>2. PICK k \in K : \A j \in K : ~(<<j, k>> \in OpToRel(<, Nat))
    BY <2>1, NatLessThanWellFounded, WFMin
  <2>3. \A j \in K : k \in Nat /\ j \in Nat /\ ~(j < k)
    BY <2>1, <2>2 DEF OpToRel
  <2>4. \A j \in K : k <= j
    BY <2>3
  <2>5. PICK r \in N : k = Cardinality(UsedBefore(r))
    BY <2>2
  <2> QED
    BY <2>4, <2>5
<1>4. UsedBefore(r) \subseteq Evicted
  <2> SUFFICES ASSUME NEW s \in UsedBefore(r), s \notin Evicted PROVE FALSE
    OBVIOUS
  <2>1. s \in N /\ <<s, r>> \in accessed /\ r \in OnDisk /\ s \in OnDisk
    BY <1>1, <1>2, <1>3 DEF UsedBefore
  <2>2. UsedBefore(s) \subseteq UsedBefore(r)
    <3> SUFFICES ASSUME NEW x \in UsedBefore(s) PROVE x \in UsedBefore(r)
      OBVIOUS
    <3>1. x \in OnDisk /\ x \in Removable /\ <<x, s>> \in accessed
      BY <1>1 DEF UsedBefore
    <3>2. <<x, r>> \in accessed
      BY <2>1, <3>1 DEF Orders
    <3> QED
      BY <3>1, <3>2 DEF UsedBefore
  <2>3. s \notin UsedBefore(s)
    BY <2>1 DEF UsedBefore, Orders
  <2>4. Cardinality(UsedBefore(s)) < Cardinality(UsedBefore(r))
    <3>1. UsedBefore(s) # UsedBefore(r)
      BY <2>3
    <3> QED
      BY <1>2, <2>2, <3>1, FS_Subset
  <2> QED
    BY <1>2, <1>3, <2>1, <2>4
<1>5. SizeOf(UsedBefore(r)) >= Total - MaxCache
  <2>1. ~(SizeOf(UsedBefore(r)) < Total - MaxCache)
    BY <1>3 DEF Evicted
  <2>2. SizeOf(UsedBefore(r)) \in Nat /\ Total \in Nat
    BY <1>1, <1>2, SizeOfParts DEF Total
  <2> QED
    BY <1>1, <2>1, <2>2
<1>6. /\ SizeOf(Evicted) \in Nat /\ SizeOf(UsedBefore(r)) \in Nat
      /\ SizeOf(Evicted \ UsedBefore(r)) \in Nat
      /\ SizeOf(Evicted) = SizeOf(UsedBefore(r)) + SizeOf(Evicted \ UsedBefore(r))
  <2>1. Evicted \in SUBSET Repos /\ UsedBefore(r) \in SUBSET Evicted
    BY <1>1, <1>4
  <2> QED
    BY <2>1, SizeOfParts
<1>7. /\ Total \in Nat /\ SizeOf(OnDisk \ Evicted) \in Nat
      /\ Total = SizeOf(Evicted) + SizeOf(OnDisk \ Evicted)
  <2>1. OnDisk \in SUBSET Repos /\ Evicted \in SUBSET OnDisk
    BY <1>1
  <2> QED
    BY <2>1, SizeOfParts DEF Total
<1> QED
  BY <1>1, <1>5, <1>6, <1>7

\* What is on disk after an eviction and a clone, or an eviction alone.
LEMMA EvictDisk ==
  ASSUME accessed \in Orders(OnDisk), NEW made, Evict(made), job \in Repos,
         clone[job].state = "absent",
         made = NoClone \/ made.state \in {"whole", "broken"}
  PROVE  /\ made = NoClone => OnDisk' = OnDisk \ Evicted
         /\ made # NoClone => OnDisk' = (OnDisk \ Evicted) \cup {job}
         /\ accessed' \in Orders(OnDisk')
         /\ \A r \in Repos : r # job => clone'[r] \in {clone[r], NoClone}
<1>1. PICK kept : kept = OnDisk \ Evicted
  OBVIOUS
<1>2. job \notin OnDisk /\ OnDisk \subseteq Repos /\ kept \subseteq OnDisk
  BY <1>1 DEF OnDisk
<1>3. /\ \A r \in Repos : clone'[r] = IF r = job THEN made ELSE IF r \in kept THEN clone[r] ELSE NoClone
      /\ accessed' = IF made = NoClone THEN accessed \cap (kept \X kept) ELSE Touch(job, kept)
  BY <1>1 DEF Evict
<1>4. NoClone.state = "absent"
  BY DEF NoClone
<1>5. \A r \in Repos : r \in kept => clone[r].state # "absent"
  BY <1>1 DEF OnDisk
<1>6. made = NoClone => OnDisk' = kept
  BY <1>2, <1>3, <1>4, <1>5 DEF OnDisk
<1>7. made # NoClone => OnDisk' = kept \cup {job}
  BY <1>2, <1>3, <1>4, <1>5 DEF OnDisk
<1>8. accessed \cap (kept \X kept) \in Orders(kept)
  BY <1>1, OrderRestrict
<1>9. Touch(job, kept) \in Orders(kept \cup {job})
  BY <1>1, <1>2, TouchOrder
<1> QED
  BY <1>1, <1>3, <1>6, <1>7, <1>8, <1>9

LEMMA InitTypeOK == Init => TypeOK
<1> SUFFICES ASSUME Init PROVE TypeOK
  OBVIOUS
<1>1. \A r \in Repos : clone[r].state = "absent" /\ clone[r].objects = {}
  BY DEF Init, NoClone
<1>2. OnDisk = {} /\ accessed \in Orders({})
  BY <1>1 DEF OnDisk, Init, Orders
<1> QED
  BY <1>1, <1>2, SizesAssumption DEF Init, TypeOK

\* What the commits in the database and the saved cursor are follows from the
\* invariant of the walks; the rest is about the remote and the cache.
LEMMA TypeStep == IInv /\ IInv' /\ TypeOK /\ [Next]_vars => TypeOK'
<1> SUFFICES ASSUME IInv, IInv', TypeOK, [Next]_vars PROVE TypeOK'
  OBVIOUS
<1> DEFINE RemoteOK == pushes \in 0..MaxPushes /\ incidents \in 0..MaxIncidents /\ follows \in BOOLEAN
           HeadsOK == \A r \in Repos : clone[r].state = "whole" => clone[r].head \in clone[r].objects
           TurnOK == checked \subseteq Repos /\ step \in {"ensure", "walk"}
           MentionsOK == \A r \in Repos : mentions[r] \subseteq indexed[r]
           OrderOK == accessed \in Orders(OnDisk)
<1>1. SUFFICES RemoteOK' /\ HeadsOK' /\ TurnOK' /\ MentionsOK' /\ OrderOK'
  <2>1. ClonesOK' /\ DatabaseOK'
    BY DEF IInv
  <2>2. \A r \in Repos : cursor'[r] # None => cursor'[r].head \in Commits /\ cursor'[r].offset \in Nat
    BY <2>1 DEF DatabaseOK, CursorSet
  <2>3. \A r \in Repos : clone'[r].state \in {"absent", "broken", "whole"} /\ clone'[r].objects \subseteq Commits
    BY <2>1 DEF ClonesOK
  <2> QED
    BY <1>1, <2>1, <2>2, <2>3 DEF TypeOK, ClonesOK, DatabaseOK
<1>2. RemoteOK /\ HeadsOK /\ TurnOK /\ MentionsOK /\ OrderOK
  BY DEF TypeOK
<1>3. ClonesOK /\ DatabaseOK
  BY DEF IInv
<1>4. MaxPushes \in Nat /\ MaxIncidents \in Nat
  BY SizesAssumption
<1>c. UNCHANGED cache => HeadsOK' /\ OrderOK'
  BY <1>2 DEF cache, OnDisk, Orders
<1>5. CASE Ensure
  <2>1. UNCHANGED <<pushes, follows, incidents, checked, mentions, indexed>> /\ step' \in {"ensure", "walk"}
    BY <1>5 DEF Ensure, CloneRepo, CloneFails, FetchRepo, FetchFails, End, remote, database
  <2>2. RemoteOK' /\ TurnOK' /\ MentionsOK'
    BY <1>2, <2>1
  <2>3. CASE CloneRepo
    <3> DEFINE made == Whole(Ancestors[tip[job]], tip[job])
    <3>1. /\ job \in Repos /\ clone[job].state = "absent" /\ Evict(made)
          /\ made.state = "whole" /\ made.head \in made.objects
      BY <1>3, <2>3, GraphAssumption DEF CloneRepo, ClonesOK, Whole
    <3>2. NoClone.state = "absent"
      BY DEF NoClone
    <3>3. clone'[job] = made
      BY <3>1 DEF Evict
    <3> HIDE DEF made
    <3>4. OrderOK' /\ \A r \in Repos : r # job => clone'[r] \in {clone[r], NoClone}
      BY <1>2, <3>1, EvictDisk
    <3>5. HeadsOK'
      BY <1>2, <3>1, <3>2, <3>3, <3>4
    <3> QED
      BY <2>2, <3>4, <3>5
  <2>4. CASE CloneFails
    <3>1. job \in Repos /\ clone[job].state = "absent" /\ Evict(NoClone)
      BY <1>3, <2>4 DEF CloneFails, ClonesOK
    <3>2. NoClone.state = "absent"
      BY DEF NoClone
    <3>3. clone'[job] = NoClone
      BY <3>1 DEF Evict
    <3>4. OrderOK' /\ \A r \in Repos : r # job => clone'[r] \in {clone[r], NoClone}
      BY <1>2, <3>1, EvictDisk
    <3>5. HeadsOK'
      BY <1>2, <3>2, <3>3, <3>4
    <3> QED
      BY <2>2, <3>4, <3>5
  <2>5. CASE FetchRepo
    <3> DEFINE made == Whole(clone[job].objects \cup Ancestors[tip[job]], FetchedHead(job))
    <3>1. job \in Repos /\ clone[job].state = "whole" /\ clone' = [clone EXCEPT ![job] = made]
      BY <1>3, <2>5 DEF FetchRepo, ClonesOK
    <3>2. made.state = "whole" /\ made.head \in made.objects
      BY <1>2, <1>3, <3>1, GraphAssumption DEF ClonesOK, Whole, FetchedHead
    <3> HIDE DEF made
    <3>3. clone'[job] = made /\ \A r \in Repos : r # job => clone'[r] = clone[r]
      BY <1>3, <3>1 DEF ClonesOK
    <3>4. HeadsOK'
      BY <1>2, <3>2, <3>3
    <3>5. OnDisk' = (OnDisk \ {job}) \cup {job} /\ job \in OnDisk
      BY <3>1, <3>2, <3>3 DEF OnDisk
    <3>6. accessed' = Touch(job, OnDisk \ {job})
      BY <2>5 DEF FetchRepo
    <3>7. PICK S : S = OnDisk \ {job}
      OBVIOUS
    <3>8. accessed' \in Orders(S \cup {job})
      BY <1>2, <3>6, <3>7, TouchOrder
    <3> QED
      BY <2>2, <3>4, <3>5, <3>7, <3>8
  <2>6. CASE FetchFails
    BY <1>c, <2>2, <2>6 DEF FetchFails
  <2> QED
    BY <1>5, <2>3, <2>4, <2>5, <2>6 DEF Ensure
<1>6. CASE Walk
  <2>1. UNCHANGED <<pushes, follows, incidents, cache, checked>> /\ step' = "ensure"
    BY <1>6 DEF Walk, WalkNothing, WalkPage, WalkFails, End, remote
  <2>2. MentionsOK'
    <3>1. CASE WalkPage
      <4>1. PICK page : Indexed(job, page) /\ Mentioned(job, page)
        BY <3>1 DEF WalkPage
      <4>2. \A r \in Repos : indexed'[r] = IF r = job THEN indexed[r] \cup page ELSE indexed[r]
        BY <1>3, <4>1 DEF Indexed, DatabaseOK
      <4>3. \A r \in Repos : mentions'[r] \subseteq
              IF r = job THEN mentions[r] \cup (page \cap PRMerges) ELSE mentions[r]
        BY <1>3, <4>1 DEF Mentioned, DatabaseOK
      <4> QED
        BY <1>2, <4>2, <4>3
    <3>2. CASE WalkNothing \/ WalkFails
      BY <1>2, <3>2 DEF WalkNothing, WalkFails, database
    <3> QED
      BY <1>6, <3>1, <3>2 DEF Walk
  <2> QED
    BY <1>2, <1>c, <2>1, <2>2
<1>7. ASSUME NEW r \in Repos, Begin(r) PROVE RemoteOK' /\ HeadsOK' /\ TurnOK' /\ MentionsOK' /\ OrderOK'
  BY <1>2, <1>7, <1>c DEF Begin, remote, database
<1>8. ASSUME NEW r \in Repos, NEW c \in Commits, Push(r, c)
      PROVE  RemoteOK' /\ HeadsOK' /\ TurnOK' /\ MentionsOK' /\ OrderOK'
  BY <1>2, <1>4, <1>8, <1>c DEF Push, database
<1>9. CASE Crash
  <2>1. /\ UNCHANGED <<remote, database>> /\ checked' = {} /\ step' = "ensure"
        /\ incidents' = incidents + 1 /\ incidents < MaxIncidents
        /\ OrderOK'
    BY <1>9 DEF Crash
  <2>2. clone' = clone \/ (job \in Repos /\ clone' = [clone EXCEPT ![job] = Broken])
    BY <1>3, <1>9 DEF Crash, ClonesOK
  <2>3. HeadsOK'
    BY <1>2, <1>3, <2>2 DEF ClonesOK, Broken
  <2> QED
    BY <1>2, <1>4, <2>1, <2>3 DEF remote, database
<1>10. ASSUME NEW r \in Repos, Reset(r)
       PROVE  RemoteOK' /\ HeadsOK' /\ TurnOK' /\ MentionsOK' /\ OrderOK'
  <2>1. MentionsOK'
    BY <1>2, <1>3, <1>10 DEF Reset, DatabaseOK
  <2> QED
    BY <1>2, <1>4, <1>10, <1>c, <2>1 DEF Reset, remote
<1>11. CASE UNCHANGED vars
  BY <1>2, <1>11, <1>c DEF vars, remote, database
<1> QED
  BY <1>5, <1>6, <1>7, <1>8, <1>9, <1>10, <1>11 DEF Next

\* Types, and that the access log orders exactly the clones on disk, so that
\* each of them can be evicted.
THEOREM TypeCorrect == Spec => []TypeOK
BY Inductive, InitTypeOK, TypeStep, PTL DEF Spec

\* Whenever a repository has been cloned, the clones kept besides it fit into
\* the cache or cannot be removed from disk.
THEOREM OthersAreKeptInBounds == Spec => OthersFit
<1> DEFINE Fits == \A r \in Repos :
             clone[r].state = "absent" /\ clone'[r].state = "whole" =>
               LET others == OnDisk \cap {s \in Repos \ {r} : clone'[s].state # "absent"}
               IN  SizeOf(others) <= MaxCache \/ others \subseteq Stubborn
<1>1. IInv /\ TypeOK /\ [Next]_vars => [Fits]_vars
  <2> SUFFICES ASSUME IInv, TypeOK, Next, NEW r \in Repos,
                      clone[r].state = "absent", clone'[r].state = "whole"
               PROVE  LET others == OnDisk \cap {s \in Repos \ {r} : clone'[s].state # "absent"}
                      IN  SizeOf(others) <= MaxCache \/ others \subseteq Stubborn
    OBVIOUS
  <2>0. ClonesOK /\ accessed \in Orders(OnDisk)
    BY DEF IInv, TypeOK
  <2>1. clone' # clone
    OBVIOUS
  <2>2. CASE CloneRepo
    <3> DEFINE made == Whole(Ancestors[tip[job]], tip[job])
    <3>1. job \in Repos /\ clone[job].state = "absent" /\ Evict(made) /\ made.state = "whole"
      BY <2>0, <2>2 DEF CloneRepo, ClonesOK, Whole
    <3>2. NoClone.state = "absent"
      BY DEF NoClone
    <3> HIDE DEF made
    <3>3. /\ OnDisk' = (OnDisk \ Evicted) \cup {job}
          /\ \A s \in Repos : s # job => clone'[s] \in {clone[s], NoClone}
      BY <2>0, <3>1, <3>2, EvictDisk
    <3>4. r = job
      BY <3>2, <3>3
    <3>5. OnDisk \cap {s \in Repos \ {r} : clone'[s].state # "absent"} = OnDisk \ Evicted
      BY <3>1, <3>3, <3>4 DEF OnDisk
    <3> QED
      BY <2>0, <3>5, EvictedSuffices
  <2>3. CASE CloneFails
    <3>1. clone'[r] \in {clone[r], NoClone}
      BY <2>0, <2>3 DEF CloneFails, Evict
    <3> QED
      BY <3>1 DEF NoClone
  <2>4. CASE FetchRepo
    <3>1. r # job /\ clone'[r] = clone[r]
      BY <2>0, <2>4 DEF FetchRepo, ClonesOK
    <3> QED
      BY <3>1
  <2>5. CASE Crash
    <3>1. clone'[r] \in {clone[r], Broken}
      BY <2>0, <2>5 DEF Crash, ClonesOK
    <3> QED
      BY <3>1 DEF Broken
  <2>6. CASE FetchFails \/ Walk \/ \E s \in Repos : Begin(s) \/ Reset(s) \/ \E c \in Commits : Push(s, c)
    BY <2>1, <2>6 DEF FetchFails, Walk, WalkNothing, WalkPage, WalkFails, Begin, Reset, Push, cache
  <2> QED
    BY <2>2, <2>3, <2>4, <2>5, <2>6 DEF Next, Ensure
<1>2. OthersFit <=> [][Fits]_vars
  BY DEF OthersFit
<1> QED
  BY <1>1, <1>2, Inductive, TypeCorrect, PTL DEF Spec
=============================================================================
