---------------------------- MODULE Polling_proofs ----------------------------
(***************************************************************************)
(* Proofs about Polling: whatever changes under a reader's page numbers,   *)
(* for every page size, overlap, clock lag and feed, a window that is      *)
(* complete has found what there was to find.                              *)
(***************************************************************************)
EXTENDS Polling, SequenceTheorems, FiniteSetTheorems, TLAPS

\* The windows the program writes and resumes.
Windows ==
  [since : Int \cup {NoTime}, until : 0..MaxTime, page : Nat \ {0}, complete : BOOLEAN,
   lastFull : 0..MaxTime, pending : Seq(PRs), childPage : Nat, moreParents : BOOLEAN,
   reviewIds : Seq(Nat)]

TablesOK ==
  /\ now \in 0..MaxTime /\ feed \in Feeds /\ deleted \subseteq Items
  /\ version \in [Items -> Nat] /\ edited \in [Items -> 0..MaxTime]
  /\ stored \in [Items -> Nat] /\ details \in [Items -> Nat]
  /\ \A i \in Items : stored[i] <= version[i] /\ details[i] <= version[i]
  /\ \A r \in reviews : r[1] \in Items /\ r[2] \in ReviewsOf(r[1])
  /\ comments \subseteq reviews
  /\ slipped \subseteq Items

\* The work left to do that a window w has written down.
WorkOK(w) ==
  /\ w \in Windows
  /\ w.lastFull <= w.until /\ w.until <= now
  /\ w.complete => w.pending = <<>>
  /\ w.pending = <<>> => w.childPage = 1 /\ w.reviewIds = <<>>
  /\ w.childPage = 0 => w.reviewIds # <<>>
  /\ w.childPage # 1 => feed \in {"github_reviews", "forgejo_reviews"}
  /\ w.reviewIds # <<>> => feed = "forgejo_reviews"
  /\ w.pending # <<>> => feed \in {"github_reviews", "forgejo_issues", "forgejo_reviews"}
  /\ \A n \in DOMAIN w.reviewIds : <<Head(w.pending), w.reviewIds[n]>> \in reviews
  /\ feed \in GitHubFlat => w.moreParents

\* Items that a window which ends at t owes: their present state is not in the
\* database and neither of the excuses of NothingElseMissed holds.
Owed(i, t) ==
  /\ Exists(i)
  /\ ~IsCurrent(i)
  /\ i \notin slipped
  /\ edited[i] < t - Overlap

Waits(w, i) == \E n \in DOMAIN w.pending : w.pending[n] = i
Unread(w, i) == w.moreParents /\ Rank(w, i) > ReadUpTo(w)

\* The reviews of the pull request being visited that have been passed: those
\* on the pages before, or all of them once childPage is 0.
Passed(w, pr) ==
  {k \in ReviewsOf(pr) : w.childPage = 0 \/ k <= (w.childPage - 1) * ChildPageSize}

HeadRead(w) ==
  LET pr == Head(w.pending)
  IN  \A k \in Passed(w, pr) :
        /\ <<pr, k>> \in reviews
        /\ feed = "forgejo_reviews" =>
             <<pr, k>> \in comments \/ \E n \in DOMAIN w.reviewIds : w.reviewIds[n] = k

\* What the window owes is on a page it has not read, or waits for a visit.
WindowSound(w) ==
  /\ \A i \in Items : Owed(i, w.until) =>
       /\ ~w.complete
       /\ i \in Listed(w)
       /\ Unread(w, i) \/ Waits(w, i)
  /\ w.pending # <<>> /\ Owed(Head(w.pending), w.until) => HeadRead(w)

CursorSound ==
  \/ cursor = NoCursor
  \/ cursor = Legacy(0)
  \/ WorkOK(cursor) /\ WindowSound(cursor)

IInv == TablesOK /\ CursorSound

-----------------------------------------------------------------------------
(* Sorting.                                                                *)

\* A strict total order on S, as a set of pairs.
IsStrictOrder(S, R) ==
  /\ \A a \in S : <<a, a>> \notin R
  /\ \A a, b \in S : a # b => <<a, b>> \in R \/ <<b, a>> \in R
  /\ \A a, b, c \in S : <<a, b>> \in R /\ <<b, c>> \in R => <<a, c>> \in R

\* How many elements come before d.
Place(S, R, d) == Cardinality({e \in S : <<e, d>> \in R})

\* What comes earlier has fewer predecessors.
LEMMA PlacesDiffer ==
  ASSUME NEW S, IsFiniteSet(S), NEW R, IsStrictOrder(S, R),
         NEW a \in S, NEW b \in S, <<a, b>> \in R
  PROVE  /\ Place(S, R, a) \in Nat /\ Place(S, R, b) \in Nat
         /\ Place(S, R, a) < Place(S, R, b)
         /\ Place(S, R, b) < Cardinality(S)
<1> DEFINE A == {e \in S : <<e, a>> \in R}
           B == {e \in S : <<e, b>> \in R}
<1>1. A \subseteq B /\ a \in B /\ a \notin A /\ B \subseteq S /\ b \notin B
  BY DEF IsStrictOrder
<1>2. IsFiniteSet(A) /\ IsFiniteSet(B)
  BY <1>1, FS_Subset
<1>3. Cardinality(A) \in Nat /\ Cardinality(B) \in Nat /\ Cardinality(S) \in Nat
  BY <1>2, FS_CardinalityType
<1>4. /\ Cardinality(A) <= Cardinality(B) /\ Cardinality(A) # Cardinality(B)
      /\ Cardinality(B) <= Cardinality(S) /\ Cardinality(B) # Cardinality(S)
  BY <1>1, <1>2, FS_Subset
<1>5. Place(S, R, a) = Cardinality(A) /\ Place(S, R, b) = Cardinality(B)
  BY DEF Place
<1> HIDE DEF A, B
<1> QED
  BY <1>3, <1>4, <1>5

\* A finite set has an enumeration in each strict order, and whatever is one
\* leaves no element out.
LEMMA Enumerations ==
  ASSUME NEW S, IsFiniteSet(S), NEW R, IsStrictOrder(S, R)
  PROVE  /\ Cardinality(S) \in Nat
         /\ \E q \in [1..Cardinality(S) -> S] :
              \A a, b \in 1..Cardinality(S) : a < b => <<q[a], q[b]>> \in R
         /\ \A q \in [1..Cardinality(S) -> S] :
              (\A a, b \in 1..Cardinality(S) : a < b => <<q[a], q[b]>> \in R)
              => \A d \in S : \E a \in 1..Cardinality(S) : q[a] = d
<1> DEFINE n == Cardinality(S)
           f == [d \in S |-> Place(S, R, d) + 1]
<1>1. n \in Nat
  BY FS_CardinalityType
<1>2. IsFiniteSet(1..n) /\ Cardinality(1..n) = n
  BY <1>1, FS_Interval
<1>3. f \in [S -> 1..n]
  <2>1. ASSUME NEW d \in S PROVE Place(S, R, d) + 1 \in 1..n
    <3> DEFINE D == {e \in S : <<e, d>> \in R}
    <3>1. D \subseteq S /\ d \notin D
      BY DEF IsStrictOrder
    <3>2. IsFiniteSet(D) /\ Cardinality(D) <= n /\ n # Cardinality(D)
      BY <3>1, FS_Subset
    <3>3. Cardinality(D) \in Nat
      BY <3>2, FS_CardinalityType
    <3>4. Place(S, R, d) = Cardinality(D)
      BY DEF Place
    <3> HIDE DEF D, n
    <3> QED
      BY <1>1, <3>2, <3>3, <3>4
  <2> QED
    BY <2>1
<1>4. \A d, e \in S : <<d, e>> \in R => f[d] < f[e]
  <2> SUFFICES ASSUME NEW d \in S, NEW e \in S, <<d, e>> \in R PROVE f[d] < f[e]
    OBVIOUS
  <2>1. Place(S, R, d) \in Nat /\ Place(S, R, e) \in Nat /\ Place(S, R, d) < Place(S, R, e)
    BY PlacesDiffer
  <2> QED
    BY <2>1
<1>5. \A d, e \in S : f[d] = f[e] => d = e
  <2> SUFFICES ASSUME NEW d \in S, NEW e \in S, f[d] = f[e], d # e PROVE FALSE
    OBVIOUS
  <2>1. f[d] < f[e] \/ f[e] < f[d]
    BY <1>4 DEF IsStrictOrder
  <2>2. f[d] \in Int /\ f[e] \in Int
    <3> HIDE DEF f
    <3> QED
      BY <1>1, <1>3
  <2> HIDE DEF f
  <2> QED
    BY <2>1, <2>2
<1>6. f \in Injection(S, 1..n)
  BY <1>3, <1>5 DEF Injection, IsInjective
<1>7. f \in Surjection(S, 1..n)
  <2> HIDE DEF f
  <2> QED
    BY <1>2, <1>6, FS_Injection
<1> DEFINE q0 == [a \in 1..n |-> CHOOSE d \in S : f[d] = a]
<1>8. \A a \in 1..n : q0[a] \in S /\ f[q0[a]] = a
  <2> HIDE DEF f
  <2>1. \A a \in 1..n : \E d \in S : f[d] = a
    BY <1>7 DEF Surjection
  <2> QED
    BY <2>1
<1>9. q0 \in [1..n -> S] /\ \A a, b \in 1..n : a < b => <<q0[a], q0[b]>> \in R
  <2>1. q0 \in [1..n -> S]
    BY <1>8
  <2>2. ASSUME NEW a \in 1..n, NEW b \in 1..n, a < b PROVE <<q0[a], q0[b]>> \in R
    <3> HIDE DEF q0, f
    <3>1. f[q0[a]] = a /\ f[q0[b]] = b /\ q0[a] \in S /\ q0[b] \in S
      BY <1>8
    <3>2. ~(f[q0[b]] < f[q0[a]]) /\ q0[a] # q0[b]
      BY <1>1, <2>2, <3>1
    <3> QED
      BY <1>4, <3>1, <3>2 DEF IsStrictOrder
  <2> QED
    BY <2>1, <2>2
<1>10. ASSUME NEW q \in [1..n -> S], \A a, b \in 1..n : a < b => <<q[a], q[b]>> \in R
       PROVE  \A d \in S : \E a \in 1..n : q[a] = d
  <2>1. \A a, b \in 1..n : q[a] = q[b] => a = b
    <3> SUFFICES ASSUME NEW a \in 1..n, NEW b \in 1..n, q[a] = q[b], a # b PROVE FALSE
      OBVIOUS
    <3>1. a < b \/ b < a
      BY <1>1
    <3>2. <<q[a], q[a]>> \in R
      BY <1>10, <3>1
    <3>3. q[a] \in S
      OBVIOUS
    <3> QED
      BY <3>2, <3>3 DEF IsStrictOrder
  <2>2. q \in Injection(1..n, S)
    BY <2>1 DEF Injection, IsInjective
  <2>3. q \in Surjection(1..n, S)
    <3> HIDE DEF n
    <3>1. Cardinality(S) = n
      BY DEF n
    <3> QED
      BY <1>2, <2>2, <3>1, FS_Injection
  <2> QED
    BY <2>3 DEF Surjection
<1> HIDE DEF n, q0
<1> QED
  BY <1>1, <1>9, <1>10 DEF n

\* A work list holds each pull request of its page.
LEMMA SortedByDate ==
  ASSUME NEW S \in SUBSET PRs, IsFiniteSet(S), \A i \in S : edited[i] \in Nat /\ i \in Nat
  PROVE  /\ Sorted(S, Before) \in Seq(PRs)
         /\ \A d \in S : \E n \in DOMAIN Sorted(S, Before) : Sorted(S, Before)[n] = d
<1>0. PICK R : R = {p \in S \X S : Before(p[1], p[2])}
  OBVIOUS
<1> DEFINE n == Cardinality(S)
           q == Sorted(S, Before)
<1>1. IsStrictOrder(S, R)
  BY <1>0 DEF IsStrictOrder, Before
<1>2. \A a, b \in S : <<a, b>> \in R <=> Before(a, b)
  BY <1>0
<1>3. /\ n \in Nat
      /\ \E p \in [1..n -> S] : \A a, b \in 1..n : a < b => <<p[a], p[b]>> \in R
      /\ \A p \in [1..n -> S] :
           (\A a, b \in 1..n : a < b => <<p[a], p[b]>> \in R)
           => \A d \in S : \E a \in 1..n : p[a] = d
  BY ONLY IsFiniteSet(S), <1>1, Enumerations
<1>4. q = CHOOSE p \in [1..n -> S] : \A a, b \in 1..n : a < b => Before(p[a], p[b])
  BY DEF Sorted
<1> HIDE DEF q, n
<1>5. \A p \in [1..n -> S] : (\A a, b \in 1..n : a < b => <<p[a], p[b]>> \in R)
                             <=> (\A a, b \in 1..n : a < b => Before(p[a], p[b]))
  BY <1>2
<1>6. q \in [1..n -> S] /\ \A a, b \in 1..n : a < b => Before(q[a], q[b])
  BY <1>3, <1>4, <1>5
<1>7. \A d \in S : \E a \in 1..n : q[a] = d
  BY <1>3, <1>5, <1>6
<1>8. q \in Seq(PRs) /\ DOMAIN q = 1..n
  BY <1>3, <1>6, SeqDef
<1> QED
  BY <1>7, <1>8 DEF q

\* The same for the reviews of a page, by their numbers.
LEMMA SortedByNumber ==
  ASSUME NEW S \in SUBSET Nat, IsFiniteSet(S)
  PROVE  /\ Sorted(S, <) \in Seq(S)
         /\ \A d \in S : \E n \in DOMAIN Sorted(S, <) : Sorted(S, <)[n] = d
<1> DEFINE R == {p \in S \X S : p[1] < p[2]}
           n == Cardinality(S)
           q == Sorted(S, <)
<1>1. IsStrictOrder(S, R)
  BY DEF IsStrictOrder
<1>2. \A a, b \in S : <<a, b>> \in R <=> a < b
  OBVIOUS
<1> HIDE DEF R
<1>3. /\ n \in Nat
      /\ \E p \in [1..n -> S] : \A a, b \in 1..n : a < b => <<p[a], p[b]>> \in R
      /\ \A p \in [1..n -> S] :
           (\A a, b \in 1..n : a < b => <<p[a], p[b]>> \in R)
           => \A d \in S : \E a \in 1..n : p[a] = d
  BY <1>1, Enumerations
<1>4. q = CHOOSE p \in [1..n -> S] : \A a, b \in 1..n : a < b => p[a] < p[b]
  BY DEF Sorted
<1> HIDE DEF q, n
<1>5. \A p \in [1..n -> S] : (\A a, b \in 1..n : a < b => <<p[a], p[b]>> \in R)
                             <=> (\A a, b \in 1..n : a < b => p[a] < p[b])
  BY <1>2
<1>6. q \in [1..n -> S] /\ \A a, b \in 1..n : a < b => q[a] < q[b]
  BY <1>3, <1>4, <1>5
<1>7. \A d \in S : \E a \in 1..n : q[a] = d
  BY <1>3, <1>5, <1>6
<1>8. q \in Seq(S) /\ DOMAIN q = 1..n
  BY <1>3, <1>6, SeqDef
<1> QED
  BY <1>7, <1>8 DEF q

-----------------------------------------------------------------------------
(* Places in the listing.                                                  *)

\* The listing is a finite set of items with dates.
LEMMA ListedType ==
  ASSUME TablesOK, NEW w
  PROVE  /\ Listed(w) \subseteq Items /\ IsFiniteSet(Listed(w))
         /\ Cardinality(Listed(w)) \in Nat
         /\ \A i \in Listed(w) : i \in Nat /\ edited[i] \in Nat
<1>1. Listed(w) \subseteq Items
  BY DEF Listed
<1>2. IsFiniteSet(Listed(w))
  BY <1>1, FeedsAssumption, FS_Subset
<1>3. Cardinality(Listed(w)) \in Nat
  BY <1>2, FS_CardinalityType
<1>4. \A i \in Items : i \in Nat /\ edited[i] \in Nat
  BY FeedsAssumption, ClocksAssumption DEF TablesOK
<1> QED
  BY <1>1, <1>2, <1>3, <1>4

\* A listed item has a place in the listing.
LEMMA RankType ==
  ASSUME TablesOK, NEW w, NEW i \in Listed(w)
  PROVE  Rank(w, i) \in 1..Cardinality(Listed(w))
<1> DEFINE B == {k \in Listed(w) : Before(k, i)}
<1>1. B \subseteq Listed(w) /\ i \notin B
  BY ListedType DEF Before
<1>2. IsFiniteSet(B) /\ Cardinality(B) <= Cardinality(Listed(w)) /\ Cardinality(B) # Cardinality(Listed(w))
  BY <1>1, ListedType, FS_Subset
<1>3. Cardinality(B) \in Nat
  BY <1>2, FS_CardinalityType
<1>4. Rank(w, i) = Cardinality(B) + 1
  BY DEF Rank
<1> HIDE DEF B
<1> QED
  BY <1>2, <1>3, <1>4, ListedType

\* What was changed earlier is not listed later.
LEMMA RankFollowsDate ==
  ASSUME TablesOK, NEW w, NEW i \in Listed(w), NEW k \in Listed(w), edited[i] < edited[k]
  PROVE  Rank(w, i) <= Rank(w, k)
<1> DEFINE A == {e \in Listed(w) : Before(e, i)}
           B == {e \in Listed(w) : Before(e, k)}
<1>1. A \subseteq B /\ B \subseteq Listed(w)
  BY ListedType DEF Before
<1>2. IsFiniteSet(B) /\ Cardinality(A) <= Cardinality(B)
  BY <1>1, ListedType, FS_Subset
<1>3. Cardinality(A) \in Nat /\ Cardinality(B) \in Nat
  BY <1>1, <1>2, FS_Subset, FS_CardinalityType
<1>4. Rank(w, i) = Cardinality(A) + 1 /\ Rank(w, k) = Cardinality(B) + 1
  BY DEF Rank
<1> HIDE DEF A, B
<1> QED
  BY <1>2, <1>3, <1>4

\* Where a window stands depends on its bounds alone.
LEMMA SameListing ==
  ASSUME NEW w, NEW x, x.since = w.since, x.until = w.until
  PROVE  Listed(x) = Listed(w) /\ \A i : Rank(x, i) = Rank(w, i)
BY DEF Listed, Rank

\* Arithmetic of page numbers.
LEMMA Multiples ==
  ASSUME NEW p \in Nat \ {0}, NEW s \in Nat
  PROVE  p * s \in Nat /\ (p - 1) * s \in Nat /\ p * s = (p - 1) * s + s
         /\ (p + 1 - 1) * s = p * s
<1>1. (p - 1) * s = p * s - s
  OBVIOUS
<1>2. p * s \in Nat /\ (p - 1) * s \in Nat
  OBVIOUS
<1>3. p + 1 - 1 = p
  OBVIOUS
<1> QED
  BY <1>1, <1>2, <1>3

\* What a page leaves unread: an item that a window owes and that is on its
\* page is kept, and when the page is the last there is none beyond it.
LEMMA PageReadsOn ==
  ASSUME TablesOK, NEW w \in Windows, NEW i \in Items, i \in Listed(w),
         edited[i] < w.until - Overlap, Rank(w, i) > ReadUpTo(w),
         NEW more \in MorePages(w)
  PROVE  \/ i \in Kept(w)
         \/ MoreParents(w, more) /\ Rank(w, i) > w.page * PageSize
<1> DEFINE p == w.page * PageSize
           r == (w.page - 1) * PageSize
<1>1. w.page \in Nat \ {0} /\ w.until \in 0..MaxTime /\ PageSize \in Nat \ {0}
  BY FeedsAssumption DEF Windows
<1>2. p \in Nat /\ r \in Nat /\ p = r + PageSize
  BY <1>1, Multiples
<1>3. Rank(w, i) \in Nat /\ Rank(w, i) <= Cardinality(Listed(w)) /\ Rank(w, i) > r
      /\ Cardinality(Listed(w)) \in Nat
  <2>1. Rank(w, i) > r
    BY DEF ReadUpTo
  <2> HIDE DEF p, r
  <2> QED
    BY <2>1, RankType, ListedType
<1>4. edited[i] \in Nat /\ edited[i] <= w.until /\ Overlap \in Nat
  BY <1>1, ListedType, ClocksAssumption
<1>5. CASE Rank(w, i) <= p
  <2>1. Rank(w, i) - ReadUpTo(w) \in 1..PageSize
    <3>1. ReadUpTo(w) = r
      BY DEF ReadUpTo
    <3> HIDE DEF p, r
    <3> QED
      BY <1>1, <1>2, <1>3, <1>5, <3>1
  <2> QED
    BY <1>4, <2>1 DEF Kept, PageItems
<1>6. CASE Rank(w, i) > p
  <2>1. more
    <3>1. more \in {Cardinality(Listed(w)) > p, Cardinality(Listed(w)) >= p}
      BY DEF MorePages
    <3>2. Cardinality(Listed(w)) > p /\ Cardinality(Listed(w)) >= p
      <4> HIDE DEF p, r
      <4> QED
        BY <1>2, <1>3, <1>6
    <3> HIDE DEF p
    <3> QED
      BY <3>1, <3>2, Zenon
  <2>2. ASSUME NEW k \in PageItems(w), ~(edited[k] <= w.until)
        PROVE  FALSE
    <3>1. k \in Listed(w) /\ Rank(w, k) - r \in 1..PageSize
      BY DEF PageItems, ReadUpTo
    <3>2. Rank(w, k) \in Nat /\ edited[k] \in Nat
      BY <3>1, RankType, ListedType
    <3>3. edited[i] < edited[k]
      BY <1>1, <1>4, <2>2, <3>2
    <3>4. Rank(w, i) <= Rank(w, k)
      BY <3>1, <3>3, RankFollowsDate
    <3> HIDE DEF p, r
    <3> QED
      BY <1>1, <1>2, <1>3, <1>6, <3>1, <3>2, <3>4
  <2> QED
    BY <1>6, <2>1, <2>2 DEF MoreParents
<1> QED
  BY <1>2, <1>3, <1>5, <1>6

-----------------------------------------------------------------------------
(* What every fetch has in common.                                         *)

\* A window that is being read.
InHand(w) == WorkOK(w) /\ WindowSound(w) /\ ~w.complete

\* A fetch leaves the forge alone and brings the database nearer to it.
Fetching ==
  /\ UNCHANGED <<forge, feed>>
  /\ stored' \in [Items -> Nat] /\ details' \in [Items -> Nat]
  /\ \A i \in Items : stored'[i] \in {stored[i], version[i]} /\ details'[i] \in {details[i], version[i]}
  /\ reviews \subseteq reviews' /\ comments \subseteq comments' /\ comments' \subseteq reviews'
  /\ \A r \in reviews' : r[1] \in Items /\ r[2] \in ReviewsOf(r[1])
  /\ Found

\* What storing a set of items does to the table.
LEMMA StoresEffect ==
  ASSUME TablesOK, NEW S \in SUBSET Items, Stores(S)
  PROVE  /\ stored' \in [Items -> Nat]
         /\ \A i \in Items : stored'[i] = IF i \in S THEN version[i] ELSE stored[i]
BY DEF TablesOK, Stores

\* The tables keep their types, and no fetch makes the window owe more.
LEMMA FetchKeepsTables ==
  ASSUME TablesOK, Fetching
  PROVE  /\ TablesOK'
         /\ \A i \in Items : \A t : Owed(i, t)' => Owed(i, t)
         /\ \A w : Listed(w)' = Listed(w) /\ \A i : Rank(w, i)' = Rank(w, i)
<1>1. /\ now' = now /\ version' = version /\ edited' = edited /\ deleted' = deleted
      /\ feed' = feed
  BY DEF Fetching, forge
<1>2. TablesOK'
  <2>1. \A i \in Items : stored'[i] <= version'[i] /\ details'[i] <= version'[i]
    BY <1>1 DEF Fetching, TablesOK
  <2>2. slipped' \subseteq slipped
    BY DEF Fetching, Found
  <2> QED
    BY <1>1, <2>1, <2>2 DEF Fetching, TablesOK, ReviewsOf
<1>3. ASSUME NEW i \in Items, IsCurrent(i)
      PROVE  IsCurrent(i)'
  BY <1>1, <1>3 DEF IsCurrent, Current, Fetching, ReviewsOf
<1>4. ASSUME NEW i \in Items, NEW t, Owed(i, t)'
      PROVE  Owed(i, t)
  <2>1. ~IsCurrent(i)' /\ i \notin slipped' /\ Exists(i) /\ edited[i] < t - Overlap
    BY <1>1, <1>4 DEF Owed, Exists
  <2>2. ~Current(i, stored', details', reviews', comments')
    BY <1>1, <2>1 DEF IsCurrent, Current, ReviewsOf
  <2>3. i \notin slipped
    BY <2>1, <2>2 DEF Fetching, Found
  <2> QED
    BY <1>3, <2>1, <2>3 DEF Owed
<1>5. \A w : Listed(w)' = Listed(w) /\ \A i : Rank(w, i)' = Rank(w, i)
  BY <1>1 DEF Listed, Rank, Before, Exists, Forgejo
<1> QED
  BY <1>2, <1>4, <1>5

\* What has to be shown of the window x that a fetch makes of w.
LEMMA SoundAfter ==
  ASSUME TablesOK, Fetching, NEW w, InHand(w), NEW x,
         x.since = w.since, x.until = w.until,
         \A i \in Items :
           /\ Owed(i, w.until)' /\ i \in Listed(w)
           /\ Unread(w, i) \/ Waits(w, i)
           => /\ ~x.complete
              /\ \/ x.moreParents /\ Rank(w, i) > ReadUpTo(x)
                 \/ Waits(x, i),
         x.pending # <<>> /\ Owed(Head(x.pending), x.until)' => HeadRead(x)'
  PROVE  WindowSound(x)'
<1>1. Listed(x)' = Listed(w) /\ \A i : Rank(x, i)' = Rank(w, i)
  BY FetchKeepsTables, SameListing
<1>2. ASSUME NEW i \in Items, Owed(i, x.until)'
      PROVE  /\ ~x.complete
             /\ i \in Listed(x)'
             /\ Unread(x, i)' \/ Waits(x, i)'
  <2>1. Owed(i, w.until)' /\ Owed(i, w.until)
    BY <1>2, FetchKeepsTables
  <2>2. i \in Listed(w) /\ (Unread(w, i) \/ Waits(w, i))
    BY <2>1 DEF InHand, WindowSound
  <2>3. ~x.complete /\ ((x.moreParents /\ Rank(w, i) > ReadUpTo(x)) \/ Waits(x, i))
    BY <2>1, <2>2
  <2> QED
    BY <1>1, <2>2, <2>3 DEF Unread, Waits, ReadUpTo
<1> QED
  BY <1>2 DEF WindowSound

-----------------------------------------------------------------------------
(* Starting and resuming.                                                  *)

\* A window put together from well-typed parts.
LEMMA WindowType ==
  ASSUME NEW s \in Int \cup {NoTime}, NEW t \in 0..MaxTime, NEW n \in Nat \ {0},
         NEW c \in BOOLEAN, NEW full \in 0..MaxTime, NEW q \in Seq(PRs), NEW child \in Nat,
         NEW m \in BOOLEAN, NEW ids \in Seq(Nat)
  PROVE  [since |-> s, until |-> t, page |-> n, complete |-> c, lastFull |-> full,
          pending |-> q, childPage |-> child, moreParents |-> m, reviewIds |-> ids] \in Windows
BY DEF Windows

\* A window as it starts, after a full sweep that began at `full`.
Started(s, full) ==
  [since |-> s, until |-> now, page |-> 1, complete |-> FALSE, lastFull |-> full,
   pending |-> <<>>, childPage |-> 1, moreParents |-> TRUE, reviewIds |-> <<>>]

\* A new window that lists all it owes is sound before its first page.
LEMMA FreshWindow ==
  ASSUME TablesOK, NEW s \in Int \cup {NoTime}, NEW full \in 0..now,
         \A i \in Items : Owed(i, now) => s = NoTime \/ edited[i] >= s,
         NEW w, w = Started(s, full)
  PROVE  InHand(w)
<1>1. w = [since |-> s, until |-> now, page |-> 1, complete |-> FALSE, lastFull |-> full,
           pending |-> <<>>, childPage |-> 1, moreParents |-> TRUE, reviewIds |-> <<>>]
  BY DEF Started
<1>2. now \in 0..MaxTime /\ full \in 0..MaxTime /\ full <= now
  BY ClocksAssumption DEF TablesOK
<1>3. w \in Windows
  <2>1. <<>> \in Seq(PRs) /\ <<>> \in Seq(Nat)
    BY EmptySeq
  <2>2. 1 \in Nat /\ 1 # 0 /\ s \in Int \cup {NoTime}
    OBVIOUS
  <2> QED
    BY ONLY <1>1, <1>2, <2>1, <2>2, WindowType
<1>4. WorkOK(w)
  BY <1>1, <1>2, <1>3 DEF WorkOK
<1>5. ASSUME NEW i \in Items, Owed(i, w.until)
      PROVE  i \in Listed(w) /\ Unread(w, i)
  <2>1. Owed(i, now) /\ edited[i] < now - Overlap /\ Exists(i)
    BY <1>1, <1>5 DEF Owed
  <2>2. edited[i] <= now
    BY <2>1, ClocksAssumption DEF TablesOK
  <2>3. i \in Listed(w)
    BY <1>1, <2>1, <2>2 DEF Listed
  <2>4. ReadUpTo(w) = 0
    BY <1>1, FeedsAssumption DEF ReadUpTo
  <2> QED
    BY <1>1, <2>3, <2>4, RankType DEF Unread
<1>6. w.complete = FALSE /\ w.pending = <<>>
  BY <1>1
<1> QED
  BY ONLY <1>4, <1>5, <1>6 DEF InHand, WindowSound

\* The overlap with the window before, or the whole listing, holds whatever
\* that window did not owe and this one does.
LEMMA ResumeSound ==
  ASSUME IInv, NEW w, w = Resume
  PROVE  InHand(w)
<1>0. TablesOK /\ now \in 0..now /\ now \in Int
  BY ClocksAssumption DEF IInv, TablesOK
<1>1. ASSUME NEW s
      PROVE  Window(s, now) = Started(s, now)
  BY DEF Window, Started
<1>2. InHand(Window(NoTime, now))
  <2>1. PICK v : v = Window(NoTime, now)
    OBVIOUS
  <2>2. v = Started(NoTime, now)
    BY <1>1, <2>1
  <2> QED
    BY <1>0, <2>1, <2>2, FreshWindow
<1>3. CASE cursor = NoCursor
  BY <1>2, <1>3 DEF Resume
<1>4. CASE cursor # NoCursor /\ cursor = Legacy(0)
  <2>1. w = Window(0, now)
    BY <1>4 DEF Resume, IsLegacy, Legacy
  <2>2. \A i \in Items : edited[i] >= 0
    BY <1>0, ClocksAssumption DEF TablesOK
  <2> QED
    BY <1>0, <1>1, <2>1, <2>2, FreshWindow
<1>5. CASE cursor # NoCursor /\ WorkOK(cursor) /\ WindowSound(cursor)
  <2>1. ~IsLegacy /\ cursor \in Windows
    BY <1>5 DEF IsLegacy, WorkOK, Windows
  <2>2. CASE ~cursor.complete
    BY <1>5, <2>1, <2>2 DEF Resume, InHand
  <2>3. CASE cursor.complete
    <3>1. CASE SweepDue
      BY <1>2, <1>5, <2>1, <2>3, <3>1 DEF Resume
    <3>2. CASE ~SweepDue
      <4>1. w = Started(NextSince, cursor.lastFull)
        <5>1. w = [Window(NextSince, now) EXCEPT !.lastFull = cursor.lastFull]
          BY <1>5, <2>1, <2>3, <3>2 DEF Resume
        <5> QED
          BY <5>1 DEF Window, Started
      <4>2. NextSince \in Int /\ cursor.lastFull \in 0..now
        BY <1>0, <1>5, <2>1, ClocksAssumption DEF NextSince, Windows, WorkOK
      <4>3. ASSUME NEW i \in Items, Owed(i, now)
            PROVE  edited[i] >= NextSince
        <5>1. ~Owed(i, cursor.until)
          BY <1>5, <2>3 DEF WindowSound
        <5>2. ~(edited[i] < cursor.until - Overlap)
          BY <4>3, <5>1 DEF Owed
        <5>3. edited[i] \in Int /\ cursor.until - Overlap \in Int
          BY <1>0, <2>1, ClocksAssumption DEF TablesOK, Windows
        <5> QED
          BY <5>2, <5>3 DEF NextSince
      <4> QED
        BY <1>0, <4>1, <4>2, <4>3, FreshWindow
    <3> QED
      BY <3>1, <3>2
  <2> QED
    BY <2>2, <2>3
<1> QED
  BY <1>3, <1>4, <1>5 DEF IInv, CursorSound
-----------------------------------------------------------------------------
(* The cursor a fetch saves.                                               *)

\* The bounds of a pass stay.
Kin(w, x) == x.since = w.since /\ x.until = w.until /\ x.lastFull = w.lastFull

\* The completion flag is the last thing set.
LEMMA Completed ==
  ASSUME NEW w \in Windows, NEW c \in BOOLEAN, NEW x, x = [w EXCEPT !.complete = c]
  PROVE  /\ x \in Windows /\ Kin(w, x) /\ x.complete = c
         /\ x.page = w.page /\ x.pending = w.pending /\ x.childPage = w.childPage
         /\ x.moreParents = w.moreParents /\ x.reviewIds = w.reviewIds
<1>1. x \in Windows
  BY ONLY c \in BOOLEAN, w \in Windows, x = [w EXCEPT !.complete = c] DEF Windows
<1> QED
  BY <1>1 DEF Windows, Kin

\* The next page of the listing.
LEMMA PageTurned ==
  ASSUME NEW w \in Windows, NEW x, x = [w EXCEPT !.page = @ + 1]
  PROVE  /\ x \in Windows /\ Kin(w, x) /\ x.page = w.page + 1
         /\ x.complete = w.complete /\ x.pending = w.pending /\ x.childPage = w.childPage
         /\ x.moreParents = w.moreParents /\ x.reviewIds = w.reviewIds
<1>1. w.page + 1 \in Nat \ {0}
  BY DEF Windows
<1>2. x \in Windows
  BY ONLY <1>1, w \in Windows, x = [w EXCEPT !.page = @ + 1] DEF Windows
<1> QED
  BY <1>2 DEF Windows, Kin

\* Whether the listing goes on.
LEMMA ParentsListed ==
  ASSUME NEW w \in Windows, NEW m \in BOOLEAN, NEW x, x = [w EXCEPT !.moreParents = m]
  PROVE  /\ x \in Windows /\ Kin(w, x) /\ x.page = w.page
         /\ x.complete = w.complete /\ x.pending = w.pending /\ x.childPage = w.childPage
         /\ x.moreParents = m /\ x.reviewIds = w.reviewIds
<1>1. x \in Windows
  BY ONLY m \in BOOLEAN, w \in Windows, x = [w EXCEPT !.moreParents = m] DEF Windows
<1> QED
  BY <1>1 DEF Windows, Kin

\* The parents to be visited.
LEMMA VisitsListed ==
  ASSUME NEW w \in Windows, NEW q \in Seq(PRs), NEW x, x = [w EXCEPT !.pending = q]
  PROVE  /\ x \in Windows /\ Kin(w, x) /\ x.page = w.page
         /\ x.complete = w.complete /\ x.pending = q /\ x.childPage = w.childPage
         /\ x.moreParents = w.moreParents /\ x.reviewIds = w.reviewIds
<1>1. x \in Windows
  BY ONLY q \in Seq(PRs), w \in Windows, x = [w EXCEPT !.pending = q] DEF Windows
<1> QED
  BY <1>1 DEF Windows, Kin

\* The next parent.
LEMMA VisitEnds ==
  ASSUME NEW w \in Windows, w.pending # <<>>, NEW x,
         x = [w EXCEPT !.pending = Tail(@)] \/ x = Done(w)
  PROVE  /\ x \in Windows /\ Kin(w, x) /\ x.page = w.page
         /\ x.complete = w.complete /\ x.pending = Tail(w.pending)
         /\ x.childPage \in {w.childPage, 1} /\ (x = Done(w) => x.childPage = 1)
         /\ x.moreParents = w.moreParents /\ x.reviewIds = w.reviewIds
<1>1. Tail(w.pending) \in Seq(PRs)
  BY HeadTailProperties DEF Windows
<1>2. [w EXCEPT !.pending = Tail(@)] \in Windows
  BY ONLY <1>1, w \in Windows DEF Windows
<1>3. [w EXCEPT !.pending = Tail(@), !.childPage = 1] \in Windows
  BY ONLY <1>1, w \in Windows DEF Windows
<1> QED
  BY <1>2, <1>3 DEF Windows, Kin, Done

\* The next page of children.
LEMMA ChildPageTurned ==
  ASSUME NEW w \in Windows, NEW x, x = [w EXCEPT !.childPage = @ + 1]
  PROVE  /\ x \in Windows /\ Kin(w, x) /\ x.page = w.page
         /\ x.complete = w.complete /\ x.pending = w.pending
         /\ x.childPage = w.childPage + 1
         /\ x.moreParents = w.moreParents /\ x.reviewIds = w.reviewIds
<1>1. w.childPage + 1 \in Nat
  BY DEF Windows
<1>2. x \in Windows
  BY ONLY <1>1, w \in Windows, x = [w EXCEPT !.childPage = @ + 1] DEF Windows
<1> QED
  BY <1>2 DEF Windows, Kin

\* The reviews whose comments are missing.
LEMMA CommentsRead ==
  ASSUME NEW w \in Windows, NEW ids \in Seq(Nat), NEW x, x = [w EXCEPT !.reviewIds = ids]
  PROVE  /\ x \in Windows /\ Kin(w, x) /\ x.page = w.page
         /\ x.complete = w.complete /\ x.pending = w.pending
         /\ x.childPage = w.childPage
         /\ x.moreParents = w.moreParents /\ x.reviewIds = ids
<1>1. x \in Windows
  BY ONLY ids \in Seq(Nat), w \in Windows, x = [w EXCEPT !.reviewIds = ids] DEF Windows
<1> QED
  BY <1>1 DEF Windows, Kin

\* Another page of children, or page 0.
LEMMA ChildPageSet ==
  ASSUME NEW w \in Windows, NEW n \in Nat, NEW x, x = [w EXCEPT !.childPage = n]
  PROVE  /\ x \in Windows /\ Kin(w, x) /\ x.page = w.page
         /\ x.complete = w.complete /\ x.pending = w.pending
         /\ x.childPage = n
         /\ x.moreParents = w.moreParents /\ x.reviewIds = w.reviewIds
<1>1. x \in Windows
  BY ONLY n \in Nat, w \in Windows, x = [w EXCEPT !.childPage = n] DEF Windows
<1> QED
  BY <1>1 DEF Windows, Kin

-----------------------------------------------------------------------------
(* What reading a page of the listing, or visiting a parent, comes to.     *)

\* A page of the listing: what it owes is stored, waits for a visit or lies
\* beyond.
LEMMA ListingRead ==
  ASSUME TablesOK, Fetching, NEW w, InHand(w), w.pending = <<>>,
         NEW more \in MorePages(w),
         NEW x \in Windows, Kin(w, x), x.page = w.page + 1,
         x.childPage = w.childPage, x.reviewIds = w.reviewIds,
         x.complete => ~MoreParents(w, more) /\ x.pending = <<>>,
         MoreParents(w, more) => x.moreParents,
         feed \in GitHubFlat => x.moreParents,
         x.pending # <<>> => feed \in {"github_reviews", "forgejo_issues", "forgejo_reviews"},
         \A i \in Kept(w) : Owed(i, w.until)' => Waits(x, i)
  PROVE  WorkOK(x)' /\ WindowSound(x)'
<1>1. w \in Windows /\ x.childPage = 1 /\ x.reviewIds = <<>>
      /\ x.lastFull <= x.until /\ x.until <= now
  BY DEF InHand, WorkOK, Kin
<1>2. now' = now /\ feed' = feed /\ edited' = edited
  BY DEF Fetching, forge
<1>3. WorkOK(x)'
  BY <1>1, <1>2 DEF WorkOK
<1>4. x.since = w.since /\ x.until = w.until
  BY DEF Kin
<1>5. ASSUME NEW i \in Items, Owed(i, w.until)', i \in Listed(w), Unread(w, i) \/ Waits(w, i)
      PROVE  /\ ~x.complete
             /\ \/ x.moreParents /\ Rank(w, i) > ReadUpTo(x)
                \/ Waits(x, i)
  <2>1. Unread(w, i)
    BY <1>5 DEF Waits
  <2>2. edited[i] < w.until - Overlap
    BY <1>2, <1>5 DEF Owed
  <2>3. \/ i \in Kept(w)
        \/ MoreParents(w, more) /\ Rank(w, i) > w.page * PageSize
    BY <1>1, <1>5, <2>1, <2>2, PageReadsOn DEF Unread
  <2>4. ReadUpTo(x) = w.page * PageSize
    BY <1>1, FeedsAssumption, Multiples DEF ReadUpTo, Windows
  <2>5. CASE i \in Kept(w)
    <3>1. Waits(x, i)
      BY <1>5, <2>5
    <3>2. x.pending # <<>>
      BY <3>1 DEF Waits
    <3> QED
      BY <3>1, <3>2
  <2> QED
    BY <2>3, <2>4, <2>5
<1>6. HeadRead(x)'
  <2>1. ASSUME NEW k \in Passed(x, Head(x.pending))'
        PROVE  FALSE
    <3>1. k \in 1..(version[Head(x.pending)] - 1)' /\ k <= (x.childPage - 1) * ChildPageSize
      BY <1>1, <2>1 DEF Passed, ReviewsOf
    <3>2. (x.childPage - 1) * ChildPageSize = 0
      BY <1>1, FeedsAssumption
    <3> QED
      BY <3>1, <3>2
  <2> QED
    BY <2>1 DEF HeadRead
<1> QED
  BY <1>3, <1>4, <1>5, <1>6, SoundAfter

\* A parent that no longer owes anything is left for the next one.
LEMMA VisitOver ==
  ASSUME TablesOK, Fetching, NEW w, InHand(w), w.pending # <<>>,
         ~Owed(Head(w.pending), w.until)',
         NEW x \in Windows, Kin(w, x), x.page = w.page,
         x.pending = Tail(w.pending), x.childPage = 1, x.reviewIds = <<>>,
         x.moreParents = w.moreParents, x.complete = ~MoreWork(x)
  PROVE  WorkOK(x)' /\ WindowSound(x)'
<1>1. w \in Windows /\ x.lastFull <= x.until /\ x.until <= now
      /\ feed \in {"github_reviews", "forgejo_issues", "forgejo_reviews"}
  BY DEF InHand, WorkOK, Kin
<1>2. now' = now /\ feed' = feed /\ edited' = edited
  BY DEF Fetching, forge
<1>3. x.complete => x.pending = <<>> /\ ~x.moreParents
  BY DEF MoreWork
<1>4. WorkOK(x)'
  BY <1>1, <1>2, <1>3 DEF WorkOK, GitHubFlat
<1>5. x.since = w.since /\ x.until = w.until
  BY DEF Kin
<1>6. ASSUME NEW i \in Items, Owed(i, w.until)', i \in Listed(w), Unread(w, i) \/ Waits(w, i)
      PROVE  /\ ~x.complete
             /\ \/ x.moreParents /\ Rank(w, i) > ReadUpTo(x)
                \/ Waits(x, i)
  <2>1. CASE Unread(w, i)
    BY <1>3, <2>1 DEF Unread, ReadUpTo
  <2>2. CASE Waits(w, i)
    <3>1. PICK n \in DOMAIN w.pending : w.pending[n] = i
      BY <2>2 DEF Waits
    <3>2. w.pending \in Seq(PRs)
      BY <1>1 DEF Windows
    <3>3. n # 1
      BY <1>6, <3>1
    <3>4. n - 1 \in DOMAIN Tail(w.pending) /\ Tail(w.pending)[n - 1] = i
      BY <3>1, <3>2, <3>3
    <3>5. Waits(x, i)
      BY <3>4 DEF Waits
    <3>6. x.pending # <<>>
      BY <3>5 DEF Waits
    <3> QED
      BY <1>3, <3>5, <3>6
  <2> QED
    BY <1>6, <2>1, <2>2
<1>7. HeadRead(x)'
  <2>1. ASSUME NEW k \in Passed(x, Head(x.pending))'
        PROVE  FALSE
    <3>1. k \in 1..(version[Head(x.pending)] - 1)' /\ k <= (x.childPage - 1) * ChildPageSize
      <4>1. k \in ReviewsOf(Head(x.pending))' /\ (x.childPage = 0 \/ k <= (x.childPage - 1) * ChildPageSize)
        BY <2>1 DEF Passed
      <4>2. x.childPage # 0
        OBVIOUS
      <4> QED
        BY <4>1, <4>2 DEF ReviewsOf
    <3>2. (x.childPage - 1) * ChildPageSize = 0
      BY FeedsAssumption
    <3> QED
      BY <3>1, <3>2
  <2> QED
    BY <2>1 DEF HeadRead
<1> QED
  BY <1>4, <1>5, <1>6, <1>7, SoundAfter

\* Otherwise the parent stays at the head of the list.
LEMMA VisitContinues ==
  ASSUME TablesOK, Fetching, NEW w, InHand(w), w.pending # <<>>,
         NEW x \in Windows, Kin(w, x), x.page = w.page, x.pending = w.pending,
         x.moreParents = w.moreParents, x.complete = FALSE,
         x.childPage = 0 => x.reviewIds # <<>>,
         feed \in {"github_reviews", "forgejo_reviews"},
         x.reviewIds # <<>> => feed = "forgejo_reviews",
         \A n \in DOMAIN x.reviewIds : <<Head(w.pending), x.reviewIds[n]>> \in reviews',
         Owed(Head(w.pending), w.until)' => HeadRead(x)'
  PROVE  WorkOK(x)' /\ WindowSound(x)'
<1>1. w \in Windows /\ x.lastFull <= x.until /\ x.until <= now
  BY DEF InHand, WorkOK, Kin
<1>2. now' = now /\ feed' = feed /\ edited' = edited
  BY DEF Fetching, forge
<1>3. WorkOK(x)'
  BY <1>1, <1>2 DEF WorkOK, GitHubFlat
<1>4. x.since = w.since /\ x.until = w.until
  BY DEF Kin
<1>5. \A i : (Waits(w, i) => Waits(x, i)) /\ (Unread(w, i) => x.moreParents /\ Rank(w, i) > ReadUpTo(x))
  BY DEF Waits, Unread, ReadUpTo
<1> QED
  BY <1>3, <1>4, <1>5, SoundAfter

-----------------------------------------------------------------------------
(* The fetches.                                                            *)

\* What a fetch has to come to.
Sound == Fetching /\ WorkOK(cursor)' /\ WindowSound(cursor)'

\* The saved window carries the invariant over.
LEMMA CursorSaved ==
  ASSUME Fetching, NEW x, x = cursor', WorkOK(x)' /\ WindowSound(x)'
  PROVE  Sound
<1>1. WorkOK(cursor)'
  BY DEF WorkOK
<1>2. WindowSound(cursor)'
  BY DEF WindowSound, Unread, Waits, HeadRead, Passed, Rank, Listed, ReadUpTo
<1> QED
  BY <1>1, <1>2 DEF Sound

\* What is kept of a page are listed items.
LEMMA KeptItems ==
  ASSUME TablesOK, NEW w
  PROVE  /\ Kept(w) \subseteq Listed(w) /\ Kept(w) \subseteq Items /\ IsFiniteSet(Kept(w))
         /\ \A i \in Kept(w) : edited[i] \in Nat /\ i \in Nat
<1>1. Kept(w) \subseteq Listed(w)
  BY DEF Kept, PageItems
<1> QED
  BY <1>1, ListedType, FS_Subset

\* Storing what a page lists, and nothing else.
LEMMA StoresIsFetching ==
  ASSUME TablesOK, NEW S \in SUBSET Items, Stores(S),
         UNCHANGED <<forge, feed, details, reviews, comments>>, Found
  PROVE  /\ Fetching
         /\ \A i \in S : stored'[i] = version'[i]
         /\ version' = version /\ details' = details /\ reviews' = reviews /\ comments' = comments
<1>1. version' = version
  BY DEF forge
<1>2. /\ stored' \in [Items -> Nat]
      /\ \A i \in Items : stored'[i] = IF i \in S THEN version[i] ELSE stored[i]
  BY StoresEffect
<1> QED
  BY <1>1, <1>2 DEF Fetching, TablesOK

\* Whether there are more pages is a Boolean.
LEMMA MorePagesType ==
  ASSUME NEW w, NEW more \in MorePages(w)
  PROVE  more \in BOOLEAN /\ MoreParents(w, more) \in BOOLEAN
<1>1. more \in {Cardinality(Listed(w)) > w.page * PageSize, Cardinality(Listed(w)) >= w.page * PageSize}
  BY DEF MorePages
<1>2. \A a, b : (a > b) \in BOOLEAN /\ (a >= b) \in BOOLEAN
  OBVIOUS
<1>3. more \in BOOLEAN
  BY <1>1, <1>2, Zenon
<1>4. MoreParents(w, more) \in BOOLEAN
  BY Zenon DEF MoreParents
<1> QED
  BY <1>3, <1>4

\* GitHub listings whose items are stored as they come.
LEMMA FlatSound ==
  ASSUME IInv, feed \in GitHubFlat, FetchFlat
  PROVE  Sound
<1>1. PICK w : w = Resume
  OBVIOUS
<1>2. TablesOK /\ InHand(w) /\ w \in Windows
  BY <1>1, ResumeSound DEF IInv, InHand, WorkOK
<1>3. w.pending = <<>> /\ w.moreParents
  BY <1>2 DEF InHand, WorkOK, GitHubFlat
<1>4. PICK more \in MorePages(w) : Save([w EXCEPT !.page = @ + 1], MoreParents(w, more))
  BY <1>1 DEF FetchFlat
<1>5. PICK v : v = [w EXCEPT !.page = @ + 1]
  OBVIOUS
<1>6. PICK c \in BOOLEAN : c = ~MoreParents(w, more)
  BY MorePagesType
<1>7. PICK x : x = [v EXCEPT !.complete = c]
  OBVIOUS
<1>8. x = cursor'
  BY <1>4, <1>5, <1>6, <1>7 DEF Save
<1>9. Fetching /\ \A i \in Kept(w) : stored'[i] = version'[i]
  <2>1. Stores(Kept(w)) /\ UNCHANGED <<forge, feed, details, reviews, comments>> /\ Found
    BY <1>1 DEF FetchFlat
  <2> QED
    BY <1>2, <2>1, KeptItems, StoresIsFetching
<1>10. \A i \in Kept(w) : ~Owed(i, w.until)'
  BY <1>9 DEF Owed, IsCurrent, Current, GitHubFlat, Fetching
<1>11. v \in Windows /\ Kin(w, v) /\ v.page = w.page + 1 /\ v.pending = <<>>
       /\ v.childPage = w.childPage /\ v.moreParents = w.moreParents /\ v.reviewIds = w.reviewIds
  BY <1>2, <1>3, <1>5, PageTurned
<1>12. x \in Windows /\ Kin(w, x) /\ x.page = w.page + 1 /\ x.pending = <<>> /\ x.complete = c
       /\ x.childPage = w.childPage /\ x.moreParents = w.moreParents /\ x.reviewIds = w.reviewIds
  BY <1>7, <1>11, Completed DEF Kin
<1>13. WorkOK(x)' /\ WindowSound(x)'
  BY <1>2, <1>3, <1>6, <1>9, <1>10, <1>12, ListingRead
<1> QED
  BY <1>8, <1>9, <1>13, CursorSaved

\* Reading a page of the listing whose pull requests are to be visited.
LEMMA ParentsSound ==
  ASSUME IInv, NEW w, w = Resume, w.pending = <<>>, ReadParents(w), Fetching,
         feed \in {"github_reviews", "forgejo_issues", "forgejo_comments", "forgejo_reviews"},
         \A i \in Kept(w) : Owed(i, w.until)' => i \in PRs /\ feed # "forgejo_comments"
  PROVE  Sound
<1>1. TablesOK /\ InHand(w) /\ w \in Windows
  BY ResumeSound DEF IInv, InHand, WorkOK
<1>2. PICK more \in MorePages(w) :
        LET parents == MoreParents(w, more)
            prs == IF feed = "forgejo_comments" THEN <<>> ELSE Sorted(Kept(w) \cap PRs, Before)
        IN  Save([w EXCEPT !.page = @ + 1, !.moreParents = parents, !.pending = prs],
                 parents \/ prs # <<>>)
  BY DEF ReadParents
<1>3. PICK m \in BOOLEAN : m = MoreParents(w, more)
  BY MorePagesType
<1>4. PICK q : q = IF feed = "forgejo_comments" THEN <<>> ELSE Sorted(Kept(w) \cap PRs, Before)
  OBVIOUS
<1>5. q \in Seq(PRs) /\ (feed # "forgejo_comments" => \A d \in Kept(w) \cap PRs : \E n \in DOMAIN q : q[n] = d)
  <2>1. Kept(w) \cap PRs \in SUBSET PRs /\ IsFiniteSet(Kept(w) \cap PRs)
        /\ \A i \in Kept(w) \cap PRs : edited[i] \in Nat /\ i \in Nat
    BY <1>1, KeptItems, FS_Subset
  <2>2. PICK S : S = Kept(w) \cap PRs
    OBVIOUS
  <2>3. /\ Sorted(S, Before) \in Seq(PRs)
        /\ \A d \in S : \E n \in DOMAIN Sorted(S, Before) : Sorted(S, Before)[n] = d
    BY <2>1, <2>2, SortedByDate
  <2>4. <<>> \in Seq(PRs)
    BY EmptySeq
  <2> QED
    BY <1>4, <2>2, <2>3, <2>4
<1>6. PICK u : u = [w EXCEPT !.page = @ + 1]
  OBVIOUS
<1>7. PICK t : t = [u EXCEPT !.moreParents = m]
  OBVIOUS
<1>8. PICK v : v = [t EXCEPT !.pending = q]
  OBVIOUS
<1>9. PICK c \in BOOLEAN : c = ~(m \/ q # <<>>)
  OBVIOUS
<1>10. PICK x : x = [v EXCEPT !.complete = c]
  OBVIOUS
<1>11. x = cursor'
  BY <1>2, <1>3, <1>4, <1>6, <1>9, <1>10, <1>7, <1>8 DEF Save
<1>12. v \in Windows /\ Kin(w, v) /\ v.page = w.page + 1 /\ v.pending = q
       /\ v.childPage = w.childPage /\ v.moreParents = m /\ v.reviewIds = w.reviewIds
  <2>1. /\ u \in Windows /\ Kin(w, u) /\ u.page = w.page + 1
        /\ u.childPage = w.childPage /\ u.reviewIds = w.reviewIds
    BY <1>1, <1>6, PageTurned
  <2>2. /\ t \in Windows /\ Kin(w, t) /\ t.page = w.page + 1 /\ t.moreParents = m
        /\ t.childPage = w.childPage /\ t.reviewIds = w.reviewIds
    BY <1>7, <2>1, ParentsListed DEF Kin
  <2> QED
    BY <1>5, <1>8, <2>2, VisitsListed DEF Kin
<1>13. x \in Windows /\ Kin(w, x) /\ x.page = w.page + 1 /\ x.pending = q /\ x.complete = c
       /\ x.childPage = w.childPage /\ x.moreParents = m /\ x.reviewIds = w.reviewIds
  BY <1>10, <1>12, Completed DEF Kin
<1>14. \A i \in Kept(w) : Owed(i, w.until)' => Waits(x, i)
  BY <1>5, <1>13 DEF Waits
<1>15. x.pending # <<>> => feed \in {"github_reviews", "forgejo_issues", "forgejo_reviews"}
  BY <1>4, <1>13
<1>16. feed \notin GitHubFlat
  BY DEF GitHubFlat
<1>17. x.complete => ~MoreParents(w, more) /\ x.pending = <<>>
  BY <1>3, <1>9, <1>13
<1>18. MoreParents(w, more) => x.moreParents
  BY <1>3, <1>13
<1>19. WorkOK(x)' /\ WindowSound(x)'
  BY <1>1, <1>13, <1>14, <1>15, <1>16, <1>17, <1>18, ListingRead
<1> QED
  BY <1>11, <1>19, CursorSaved

LEMMA FetchParentsSound ==
  ASSUME IInv, FetchParents
  PROVE  Sound
<1>1. PICK w : w = Resume
  OBVIOUS
<1>2. TablesOK
  BY DEF IInv
<1>3. feed = "github_reviews" /\ w.pending = <<>> /\ ReadParents(w)
      /\ UNCHANGED <<forge, feed, database>> /\ Found
  BY <1>1 DEF FetchParents
<1>4. Fetching
  BY <1>2, <1>3 DEF Fetching, TablesOK, database
<1>5. ASSUME NEW i \in Kept(w), Owed(i, w.until)'
      PROVE  i \in PRs
  BY <1>3, <1>5 DEF Owed, IsCurrent, Current
<1> QED
  BY <1>1, <1>3, <1>4, <1>5, ParentsSound

\* forgejo.rs: a page of any of its listings.
LEMMA FetchForgejoListingSound ==
  ASSUME IInv, FetchForgejoListing
  PROVE  Sound
<1>1. PICK w : w = Resume
  OBVIOUS
<1>2. TablesOK
  BY DEF IInv
<1>3. Forgejo /\ w.pending = <<>> /\ ReadParents(w)
      /\ Stores(IF feed = "forgejo_reviews" THEN {} ELSE Kept(w))
      /\ UNCHANGED <<forge, feed, details, reviews, comments>> /\ Found
  BY <1>1 DEF FetchForgejoListing
<1>4. PICK S \in SUBSET Items : S = IF feed = "forgejo_reviews" THEN {} ELSE Kept(w)
  BY <1>2, KeptItems
<1>5. Fetching /\ \A i \in S : stored'[i] = version'[i]
  <2>1. Stores(S)
    BY <1>3, <1>4
  <2> QED
    BY <1>2, <1>3, <2>1, StoresIsFetching
<1>6. ASSUME NEW i \in Kept(w), Owed(i, w.until)'
      PROVE  i \in PRs /\ feed # "forgejo_comments"
  <2>1. ~Current(i, stored, details, reviews, comments)'
    BY <1>6 DEF Owed, IsCurrent
  <2>2. feed' = feed
    BY <1>3
  <2>3. CASE feed = "forgejo_reviews"
    BY <2>1, <2>2, <2>3 DEF Current
  <2>4. CASE feed # "forgejo_reviews"
    <3>1. stored'[i] = version'[i]
      BY <1>4, <1>5, <2>4
    <3> QED
      BY <1>3, <2>1, <2>2, <2>4, <3>1 DEF Current, Forgejo
  <2> QED
    BY <2>3, <2>4
<1> QED
  BY <1>1, <1>3, <1>5, <1>6, ParentsSound DEF Forgejo

\* The windows that end a visit.
LEMMA VisitSaved ==
  ASSUME TablesOK, Fetching, NEW w, InHand(w), w.pending # <<>>,
         ~Owed(Head(w.pending), w.until)',
         NEW v \in Windows, Kin(w, v), v.page = w.page,
         v.pending = Tail(w.pending), v.childPage = 1, v.reviewIds = <<>>,
         v.moreParents = w.moreParents, Save(v, MoreWork(v))
  PROVE  Sound
<1>1. PICK c \in BOOLEAN : c = ~MoreWork(v)
  OBVIOUS
<1>2. PICK x : x = [v EXCEPT !.complete = c]
  OBVIOUS
<1>3. x = cursor'
  BY <1>1, <1>2 DEF Save
<1>4. x \in Windows /\ Kin(w, x) /\ x.complete = c /\ x.page = w.page
      /\ x.pending = Tail(w.pending) /\ x.childPage = 1 /\ x.reviewIds = <<>>
      /\ x.moreParents = w.moreParents
  BY <1>2, Completed DEF Kin
<1>5. x.complete = ~MoreWork(x)
  BY <1>1, <1>4 DEF MoreWork
<1>6. WorkOK(x)' /\ WindowSound(x)'
  BY <1>4, <1>5, VisitOver
<1> QED
  BY <1>3, <1>6, CursorSaved

\* The windows that go on with it.
LEMMA VisitKept ==
  ASSUME TablesOK, Fetching, NEW w, InHand(w), w.pending # <<>>,
         NEW v \in Windows, Kin(w, v), v.page = w.page, v.pending = w.pending,
         v.moreParents = w.moreParents,
         v.childPage = 0 => v.reviewIds # <<>>,
         feed \in {"github_reviews", "forgejo_reviews"},
         v.reviewIds # <<>> => feed = "forgejo_reviews",
         \A n \in DOMAIN v.reviewIds : <<Head(w.pending), v.reviewIds[n]>> \in reviews',
         Owed(Head(w.pending), w.until)' => HeadRead(v)',
         Save(v, MoreWork(v))
  PROVE  Sound
<1>1. MoreWork(v)
  BY DEF MoreWork
<1>2. PICK c \in BOOLEAN : c = FALSE
  OBVIOUS
<1>3. PICK x : x = [v EXCEPT !.complete = c]
  OBVIOUS
<1>4. x = cursor'
  BY <1>2, <1>1, <1>3 DEF Save
<1>5. x \in Windows /\ Kin(w, x) /\ x.complete = FALSE /\ x.page = w.page
      /\ x.pending = w.pending /\ x.childPage = v.childPage /\ x.reviewIds = v.reviewIds
      /\ x.moreParents = w.moreParents
  BY <1>2, <1>3, Completed DEF Kin
<1>6. HeadRead(v)' => HeadRead(x)'
  BY <1>5 DEF HeadRead, Passed
<1>7. WorkOK(x)' /\ WindowSound(x)'
  BY <1>5, <1>6, VisitContinues
<1> QED
  BY <1>4, <1>7, CursorSaved

\* forgejo.rs: a pull request's details.
LEMMA FetchDetailsSound ==
  ASSUME IInv, FetchDetails
  PROVE  Sound
<1>1. PICK w : w = Resume
  OBVIOUS
<1>2. TablesOK /\ InHand(w) /\ w \in Windows
  BY <1>1, ResumeSound DEF IInv, InHand, WorkOK
<1>3. PICK pr : pr = Head(w.pending)
  OBVIOUS
<1>4. feed = "forgejo_issues" /\ w.pending # <<>> /\ Found
      /\ UNCHANGED <<forge, feed, reviews, comments>>
      /\ IF Exists(pr)
         THEN /\ stored' = [stored EXCEPT ![pr] = version[pr]]
              /\ details' = [details EXCEPT ![pr] = version[pr]]
         ELSE UNCHANGED <<stored, details>>
  BY <1>1, <1>3 DEF FetchDetails
<1>5. pr \in Items
  <2>1. w.pending \in Seq(PRs)
    BY <1>2 DEF Windows
  <2> QED
    BY <1>3, <1>4, <2>1, FeedsAssumption, HeadTailProperties
<1>6. Fetching
  BY <1>2, <1>4, <1>5 DEF Fetching, TablesOK, forge
<1>7. ~Owed(pr, w.until)'
  <2>1. version' = version /\ deleted' = deleted
    BY <1>4 DEF forge
  <2>2. CASE Exists(pr)
    <3>1. stored'[pr] = version'[pr] /\ details'[pr] = version'[pr]
      BY <1>2, <1>4, <1>5, <2>1, <2>2 DEF TablesOK
    <3> QED
      BY <1>4, <3>1 DEF Owed, IsCurrent, Current
  <2>3. CASE ~Exists(pr)
    BY <2>1, <2>3 DEF Owed, Exists
  <2> QED
    BY <2>2, <2>3
<1>8. PICK v : v = [w EXCEPT !.pending = Tail(@)]
  OBVIOUS
<1>9. Save(v, MoreWork(v))
  BY <1>1, <1>8 DEF FetchDetails
<1>10. w.childPage = 1 /\ w.reviewIds = <<>>
  BY <1>2, <1>4 DEF InHand, WorkOK
<1>11. v \in Windows /\ Kin(w, v) /\ v.page = w.page /\ v.pending = Tail(w.pending)
       /\ v.childPage = 1 /\ v.reviewIds = <<>> /\ v.moreParents = w.moreParents
  BY <1>2, <1>4, <1>8, <1>10, VisitEnds
<1> QED
  BY <1>2, <1>3, <1>4, <1>6, <1>7, <1>9, <1>11, VisitSaved

\* A page of reviews: those after the pages before it, and more behind it
\* only if it is full, which one of the forge's two answers then says.
LEMMA ChildrenReadOn ==
  ASSUME TablesOK, NEW w \in Windows, w.childPage # 0, NEW pr \in Items, Exists(pr),
         NEW more \in MoreChildren(w, pr),
         NEW k \in ReviewsOf(pr), k > (w.childPage - 1) * ChildPageSize
  PROVE  \/ k \in ChildPage(w, pr)
         \/ more /\ k > w.childPage * ChildPageSize
<1> DEFINE p == w.childPage * ChildPageSize
           r == (w.childPage - 1) * ChildPageSize
           C == ChildPage(w, pr)
<1>1. w.childPage \in Nat \ {0} /\ ChildPageSize \in Nat \ {0} /\ version[pr] \in Nat
  BY FeedsAssumption DEF Windows, TablesOK
<1>2. p \in Nat /\ r \in Nat /\ p = r + ChildPageSize
  BY <1>1, Multiples
<1>3. k \in Nat /\ k <= version[pr] - 1 /\ k > r
  BY <1>1 DEF ReviewsOf
<1>4. C = {e \in ReviewsOf(pr) : e - r \in 1..ChildPageSize}
  BY DEF ChildPage
<1>5. CASE k <= p
  <2>1. k - r \in 1..ChildPageSize
    <3> HIDE DEF p, r
    <3> QED
      BY <1>1, <1>2, <1>3, <1>5
  <2> QED
    BY <1>4, <2>1
<1>6. CASE k > p
  <2>1. C = (r + 1)..p
    <3> HIDE DEF p, r, C
    <3> QED
      BY <1>1, <1>2, <1>3, <1>4, <1>6 DEF ReviewsOf
  <2>2. Cardinality(C) = ChildPageSize
    <3>1. r + 1 \in Int /\ p \in Int
      BY <1>2
    <3>2. PICK a : a = r + 1
      OBVIOUS
    <3>3. PICK b : b = p
      OBVIOUS
    <3>4. Cardinality(a..b) = IF a > b THEN 0 ELSE b - a + 1
      BY <3>1, <3>2, <3>3, FS_Interval
    <3> HIDE DEF p, r, C
    <3> QED
      BY <1>1, <1>2, <2>1, <3>2, <3>3, <3>4
  <2>3. \E e \in ReviewsOf(pr) : e > w.childPage * ChildPageSize
    BY <1>6
  <2>4. more \in {TRUE, Cardinality(C) = ChildPageSize}
    <3>1. more \in {\E e \in ReviewsOf(pr) : e > w.childPage * ChildPageSize,
                    Cardinality(C) = ChildPageSize}
      BY Zenon DEF MoreChildren
    <3> HIDE DEF C
    <3> QED
      BY <2>3, <3>1, Zenon
  <2>5. more
    <3> HIDE DEF C
    <3> QED
      BY <2>2, <2>4, Zenon
  <2> QED
    BY <1>6, <2>5
<1> QED
  BY <1>2, <1>3, <1>5, <1>6

\* A page of children is a finite set of the parent's reviews.
LEMMA ChildPageType ==
  ASSUME TablesOK, NEW w, NEW pr \in Items
  PROVE  /\ ReviewsOf(pr) \subseteq Nat \ {0} /\ ChildPage(w, pr) \subseteq ReviewsOf(pr)
         /\ IsFiniteSet(ChildPage(w, pr))
<1>1. version[pr] - 1 \in Int
  BY DEF TablesOK
<1>2. IsFiniteSet(ReviewsOf(pr))
  BY <1>1, FS_Interval DEF ReviewsOf
<1>3. ReviewsOf(pr) \subseteq Nat \ {0}
  BY <1>1 DEF ReviewsOf
<1>4. ChildPage(w, pr) \subseteq ReviewsOf(pr)
  BY DEF ChildPage
<1> QED
  BY <1>2, <1>3, <1>4, FS_Subset

\* What a page of reviews adds to the database.
LEMMA ReviewsAdded ==
  ASSUME TablesOK, NEW w, NEW pr \in Items,
         reviews' = reviews \cup {<<pr, k>> : k \in ChildPage(w, pr)},
         UNCHANGED <<forge, feed, stored, details, comments>>, Found
  PROVE  /\ Fetching /\ comments' = comments
         /\ version' = version /\ deleted' = deleted /\ feed' = feed
         /\ \A k \in ChildPage(w, pr) : <<pr, k>> \in reviews'
<1>1. version' = version /\ deleted' = deleted
  BY DEF forge
<1>2. \A r \in reviews' : r[1] \in Items /\ r[2] \in ReviewsOf(r[1])
  BY ChildPageType DEF TablesOK
<1> QED
  BY <1>1, <1>2 DEF Fetching, TablesOK

\* The parent that is being visited.
LEMMA VisitHead ==
  ASSUME NEW w, InHand(w), w.pending # <<>>
  PROVE  /\ w \in Windows /\ Head(w.pending) \in PRs /\ Head(w.pending) \in Items
         /\ w.childPage \in Nat
         /\ w.reviewIds = <<>> => w.childPage # 0
         /\ Owed(Head(w.pending), w.until) => HeadRead(w)
<1>1. w \in Windows /\ w.pending \in Seq(PRs)
  BY DEF InHand, WorkOK, Windows
<1> QED
  BY <1>1, HeadTailProperties, FeedsAssumption DEF InHand, WorkOK, WindowSound, Windows

\* github_reviews.rs: a page of a pull request's reviews.
LEMMA FetchGitHubReviewsSound ==
  ASSUME IInv, FetchGitHubReviews
  PROVE  Sound
<1>1. PICK w : w = Resume
  OBVIOUS
<1>2. TablesOK /\ InHand(w)
  BY <1>1, ResumeSound DEF IInv
<1>3. PICK pr : pr = Head(w.pending)
  OBVIOUS
<1>4. feed = "github_reviews" /\ w.pending # <<>> /\ Exists(pr) /\ Found
      /\ reviews' = reviews \cup {<<pr, k>> : k \in ChildPage(w, pr)}
      /\ UNCHANGED <<forge, feed, stored, details, comments>>
  BY <1>1, <1>3 DEF FetchGitHubReviews
<1>5. PICK more \in MoreChildren(w, pr) : Save(NextChild(w, more), MoreWork(NextChild(w, more)))
  BY <1>1, <1>3 DEF FetchGitHubReviews
<1>6. w \in Windows /\ pr \in Items /\ w.childPage \in Nat \ {0} /\ w.reviewIds = <<>>
      /\ (Owed(pr, w.until) => HeadRead(w))
  <2>1. w.reviewIds = <<>>
    BY <1>2, <1>4 DEF InHand, WorkOK
  <2> QED
    BY <1>2, <1>3, <1>4, <2>1, VisitHead
<1>7. /\ Fetching /\ version' = version /\ feed' = feed
      /\ \A k \in ChildPage(w, pr) : <<pr, k>> \in reviews'
  BY <1>2, <1>4, <1>6, ReviewsAdded
<1>8. ASSUME Owed(pr, w.until)', NEW k \in ReviewsOf(pr), ~more \/ k <= w.childPage * ChildPageSize
      PROVE  <<pr, k>> \in reviews'
  <2>1. HeadRead(w)
    BY <1>2, <1>6, <1>7, <1>8, FetchKeepsTables
  <2>2. k \in Nat /\ (w.childPage - 1) * ChildPageSize \in Nat
        /\ w.childPage * ChildPageSize \in Nat
    BY <1>2, <1>6, ChildPageType, FeedsAssumption, Multiples
  <2>3. CASE k <= (w.childPage - 1) * ChildPageSize
    <3>1. <<pr, k>> \in reviews
      BY <1>3, <2>1, <2>3 DEF HeadRead, Passed
    <3> QED
      BY <1>7, <3>1 DEF Fetching
  <2>4. CASE k > (w.childPage - 1) * ChildPageSize
    <3>1. k \in ChildPage(w, pr)
      BY <1>2, <1>4, <1>6, <1>8, <2>2, <2>4, ChildrenReadOn
    <3> QED
      BY <1>7, <3>1
  <2> QED
    BY <2>2, <2>3, <2>4
<1>9. CASE more
  <2>1. PICK v : v = [w EXCEPT !.childPage = @ + 1]
    OBVIOUS
  <2>2. Save(v, MoreWork(v))
    BY <1>5, <1>9, <2>1 DEF NextChild
  <2>3. v \in Windows /\ Kin(w, v) /\ v.page = w.page /\ v.pending = w.pending
        /\ v.childPage = w.childPage + 1 /\ v.reviewIds = <<>> /\ v.moreParents = w.moreParents
    BY <1>6, <2>1, ChildPageTurned
  <2>4. (v.childPage - 1) * ChildPageSize = w.childPage * ChildPageSize
    BY <1>6, <2>3
  <2>5. ASSUME Owed(Head(w.pending), w.until)'
        PROVE  HeadRead(v)'
    <3>1. ASSUME NEW k \in Passed(v, pr)'
          PROVE  <<pr, k>> \in reviews'
      <4>1. k \in ReviewsOf(pr) /\ k <= w.childPage * ChildPageSize
        <5>1. v.childPage # 0
          BY <1>6, <2>3
        <5> QED
          BY <1>7, <2>4, <3>1, <5>1 DEF Passed, ReviewsOf
      <4> QED
        BY <1>3, <1>8, <2>5, <4>1
    <3> QED
      BY <1>3, <1>4, <1>7, <2>3, <3>1 DEF HeadRead
  <2> QED
    BY <1>2, <1>4, <1>6, <1>7, <2>2, <2>3, <2>5, VisitKept
<1>10. CASE ~more
  <2>1. PICK v : v = Done(w)
    OBVIOUS
  <2>2. Save(v, MoreWork(v))
    BY <1>5, <1>10, <2>1 DEF NextChild
  <2>3. v \in Windows /\ Kin(w, v) /\ v.page = w.page /\ v.pending = Tail(w.pending)
        /\ v.childPage = 1 /\ v.reviewIds = <<>> /\ v.moreParents = w.moreParents
    BY <1>4, <1>6, <2>1, VisitEnds
  <2>4. ~Owed(pr, w.until)'
    <3>1. Owed(pr, w.until)' => \A k \in ReviewsOf(pr) : <<pr, k>> \in reviews'
      BY <1>8, <1>10
    <3> QED
      BY <1>4, <1>7, <3>1 DEF Owed, IsCurrent, Current, ReviewsOf
  <2> QED
    BY <1>2, <1>3, <1>4, <1>7, <2>2, <2>3, <2>4, VisitSaved
<1> QED
  BY <1>9, <1>10

LEMMA FetchForgejoReviewsSound ==
  ASSUME IInv, FetchForgejoReviews
  PROVE  Sound
<1>1. PICK w : w = Resume
  OBVIOUS
<1>2. TablesOK /\ InHand(w)
  BY <1>1, ResumeSound DEF IInv
<1>3. PICK pr : pr = Head(w.pending)
  OBVIOUS
<1>4. feed = "forgejo_reviews" /\ w.pending # <<>> /\ w.reviewIds = <<>> /\ Found
      /\ reviews' = reviews \cup {<<pr, k>> : k \in ChildPage(w, pr)}
      /\ UNCHANGED <<forge, feed, stored, details, comments>>
  BY <1>1, <1>3 DEF FetchForgejoReviews
<1>5. PICK ids : ids = Sorted(ChildPage(w, pr), <)
  OBVIOUS
<1>6. PICK more \in MoreChildren(w, pr) :
        Save(ReviewsRead(w, ids, more), MoreWork(ReviewsRead(w, ids, more)))
  BY <1>1, <1>3, <1>5 DEF FetchForgejoReviews
<1>7. w \in Windows /\ pr \in Items /\ w.childPage \in Nat \ {0}
      /\ (Owed(pr, w.until) => HeadRead(w))
  BY <1>2, <1>3, <1>4, VisitHead
<1>8. /\ Fetching /\ comments' = comments
      /\ version' = version /\ deleted' = deleted /\ feed' = feed
      /\ \A k \in ChildPage(w, pr) : <<pr, k>> \in reviews'
  BY <1>2, <1>4, <1>7, ReviewsAdded
<1>9. ids \in Seq(Nat) /\ (\A n \in DOMAIN ids : ids[n] \in ChildPage(w, pr))
      /\ \A k \in ChildPage(w, pr) : \E n \in DOMAIN ids : ids[n] = k
  <2>1. ChildPage(w, pr) \in SUBSET Nat /\ IsFiniteSet(ChildPage(w, pr))
    BY <1>2, <1>7, ChildPageType
  <2>2. PICK S : S = ChildPage(w, pr)
    OBVIOUS
  <2>3. ids \in Seq(S) /\ \A k \in S : \E n \in DOMAIN ids : ids[n] = k
    BY <1>5, <2>1, <2>2, SortedByNumber
  <2>4. \A n \in DOMAIN ids : ids[n] \in S
    BY <2>3, ElementOfSeq
  <2>5. ids \in Seq(Nat)
    BY <2>1, <2>2, <2>3
  <2> QED
    BY <2>2, <2>3, <2>4, <2>5
<1>10. ASSUME Owed(pr, w.until)', NEW k \in ReviewsOf(pr), ~more \/ k <= w.childPage * ChildPageSize
       PROVE  <<pr, k>> \in reviews' /\ (<<pr, k>> \in comments' \/ \E n \in DOMAIN ids : ids[n] = k)
  <2>1. HeadRead(w)
    BY <1>2, <1>7, <1>8, <1>10, FetchKeepsTables
  <2>2. k \in Nat /\ (w.childPage - 1) * ChildPageSize \in Nat
        /\ w.childPage * ChildPageSize \in Nat
    BY <1>2, <1>7, ChildPageType, FeedsAssumption, Multiples
  <2>3. CASE k <= (w.childPage - 1) * ChildPageSize
    <3>1. <<pr, k>> \in reviews /\ <<pr, k>> \in comments
      BY <1>3, <1>4, <2>1, <2>3 DEF HeadRead, Passed
    <3> QED
      BY <1>8, <3>1 DEF Fetching
  <2>4. CASE k > (w.childPage - 1) * ChildPageSize
    <3>1. Exists(pr)
      BY <1>8, <1>10 DEF Owed, Exists
    <3>2. k \in ChildPage(w, pr)
      BY <1>2, <1>7, <1>10, <2>2, <2>4, <3>1, ChildrenReadOn
    <3> QED
      BY <1>8, <1>9, <3>2
  <2> QED
    BY <2>2, <2>3, <2>4
<1>11. CASE ids = <<>> /\ ~more
  <2>1. PICK v : v = Done(w)
    OBVIOUS
  <2>2. Save(v, MoreWork(v))
    BY <1>6, <1>11, <2>1 DEF ReviewsRead
  <2>3. v \in Windows /\ Kin(w, v) /\ v.page = w.page /\ v.pending = Tail(w.pending)
        /\ v.childPage = 1 /\ v.reviewIds = <<>> /\ v.moreParents = w.moreParents
    BY <1>4, <1>7, <2>1, VisitEnds
  <2>4. ~Owed(pr, w.until)'
    <3>1. DOMAIN ids = {}
      BY <1>11
    <3>2. Owed(pr, w.until)' => \A k \in ReviewsOf(pr) : <<pr, k>> \in reviews' /\ <<pr, k>> \in comments'
      BY <1>10, <1>11, <3>1
    <3> QED
      BY <1>4, <1>8, <3>2 DEF Owed, IsCurrent, Current, ReviewsOf
  <2> QED
    BY <1>2, <1>3, <1>4, <1>8, <2>2, <2>3, <2>4, VisitSaved
<1>12. CASE ~(ids = <<>> /\ ~more)
  <2>1. PICK n \in Nat : n = IF more THEN w.childPage + 1 ELSE 0
    BY <1>7
  <2>2. PICK u : u = [w EXCEPT !.reviewIds = ids]
    OBVIOUS
  <2>3. PICK v : v = [u EXCEPT !.childPage = n]
    OBVIOUS
  <2>4. Save(v, MoreWork(v))
    <3>1. v = ReviewsRead(w, ids, more)
      BY <1>12, <2>1, <2>2, <2>3 DEF ReviewsRead
    <3> QED
      BY <1>6, <3>1
  <2>5. /\ u \in Windows /\ Kin(w, u) /\ u.page = w.page /\ u.pending = w.pending
        /\ u.reviewIds = ids /\ u.moreParents = w.moreParents
    BY <1>7, <1>9, <2>2, CommentsRead
  <2>6. /\ v \in Windows /\ Kin(w, v) /\ v.page = w.page /\ v.pending = w.pending
        /\ v.childPage = n /\ v.reviewIds = ids /\ v.moreParents = w.moreParents
    BY <2>3, <2>5, ChildPageSet DEF Kin
  <2>7. v.childPage = 0 => v.reviewIds # <<>>
    BY <1>7, <1>12, <2>1, <2>6
  <2>8. \A m \in DOMAIN v.reviewIds : <<Head(w.pending), v.reviewIds[m]>> \in reviews'
    BY <1>3, <1>8, <1>9, <2>6
  <2>9. ASSUME Owed(Head(w.pending), w.until)'
        PROVE  HeadRead(v)'
    <3>1. ASSUME NEW k \in Passed(v, pr)'
          PROVE  <<pr, k>> \in reviews' /\ (<<pr, k>> \in comments' \/ \E m \in DOMAIN ids : ids[m] = k)
      <4>1. k \in ReviewsOf(pr) /\ (n = 0 \/ k <= (n - 1) * ChildPageSize)
        BY <1>8, <2>6, <3>1 DEF Passed, ReviewsOf
      <4>2. ~more \/ k <= w.childPage * ChildPageSize
        <5>1. more => n = w.childPage + 1 /\ n # 0 /\ n - 1 = w.childPage
          BY <1>7, <2>1
        <5> QED
          BY <4>1, <5>1
      <4> QED
        BY <1>3, <1>10, <2>9, <4>1, <4>2
    <3> QED
      BY <1>3, <2>6, <3>1 DEF HeadRead
  <2> QED
    BY <1>2, <1>4, <1>8, <2>4, <2>6, <2>7, <2>8, <2>9, VisitKept
<1> QED
  BY <1>11, <1>12

\* forgejo.rs: the comments of one review.
LEMMA FetchReviewCommentsSound ==
  ASSUME IInv, FetchReviewComments
  PROVE  Sound
<1>1. PICK w : w = Resume
  OBVIOUS
<1>2. TablesOK /\ InHand(w)
  BY <1>1, ResumeSound DEF IInv
<1>3. PICK pr : pr = Head(w.pending)
  OBVIOUS
<1>4. PICK left : left = Tail(w.reviewIds)
  OBVIOUS
<1>5. PICK h : h = Head(w.reviewIds)
  OBVIOUS
<1>6. feed = "forgejo_reviews" /\ w.pending # <<>> /\ w.reviewIds # <<>> /\ Found
      /\ comments' = (IF Exists(pr) THEN comments \cup {<<pr, h>>} ELSE comments)
      /\ UNCHANGED <<forge, feed, stored, details, reviews>>
  BY <1>1, <1>3, <1>5 DEF FetchReviewComments
<1>7. w \in Windows /\ pr \in Items /\ (Owed(pr, w.until) => HeadRead(w))
      /\ w.reviewIds \in Seq(Nat)
      /\ \A n \in DOMAIN w.reviewIds : <<pr, w.reviewIds[n]>> \in reviews
  <2>1. w \in Windows /\ pr \in Items /\ (Owed(pr, w.until) => HeadRead(w))
    BY <1>2, <1>3, <1>6, VisitHead
  <2>2. w.reviewIds \in Seq(Nat)
    BY <2>1 DEF Windows
  <2> QED
    BY <1>2, <1>3, <2>1, <2>2 DEF InHand, WorkOK
<1>8. /\ left \in Seq(Nat)
      /\ 1 \in DOMAIN w.reviewIds /\ w.reviewIds[1] = h
      /\ \A n \in DOMAIN w.reviewIds : n = 1 \/ (n - 1 \in DOMAIN left /\ left[n - 1] = w.reviewIds[n])
      /\ \A n \in DOMAIN left : n + 1 \in DOMAIN w.reviewIds /\ left[n] = w.reviewIds[n + 1]
  <2>1. PICK s \in Seq(Nat) : s = w.reviewIds
    BY <1>7
  <2>2. s # <<>> /\ left = Tail(s) /\ h = Head(s)
    BY <1>4, <1>5, <1>6, <2>1
  <2>3. /\ left \in Seq(Nat)
        /\ 1 \in DOMAIN s /\ s[1] = h
        /\ \A n \in DOMAIN s : n = 1 \/ (n - 1 \in DOMAIN left /\ left[n - 1] = s[n])
        /\ \A n \in DOMAIN left : n + 1 \in DOMAIN s /\ left[n] = s[n + 1]
    BY ONLY <2>2, s \in Seq(Nat)
  <2> QED
    BY <2>1, <2>3
<1>9. Fetching /\ version' = version /\ feed' = feed /\ deleted' = deleted /\ reviews' = reviews
  <2>1. comments \subseteq comments' /\ comments' \subseteq reviews'
    BY <1>2, <1>6, <1>7, <1>8 DEF TablesOK
  <2> QED
    BY <1>2, <1>6, <2>1 DEF Fetching, TablesOK, forge
<1>10. ASSUME Owed(pr, w.until)', NEW k \in ReviewsOf(pr),
              w.childPage = 0 \/ k <= (w.childPage - 1) * ChildPageSize
       PROVE  <<pr, k>> \in reviews' /\ (<<pr, k>> \in comments' \/ \E n \in DOMAIN left : left[n] = k)
  <2>1. HeadRead(w)
    BY <1>2, <1>7, <1>9, <1>10, FetchKeepsTables
  <2>2. k \in Passed(w, pr)
    BY <1>10 DEF Passed
  <2>3. <<pr, k>> \in reviews /\ (<<pr, k>> \in comments \/ \E n \in DOMAIN w.reviewIds : w.reviewIds[n] = k)
    BY <1>3, <1>6, <2>1, <2>2 DEF HeadRead
  <2>4. Exists(pr)
    BY <1>9, <1>10 DEF Owed, Exists
  <2> QED
    BY <1>6, <1>8, <1>9, <2>3, <2>4
<1>11. PICK u : u = [w EXCEPT !.reviewIds = left]
  OBVIOUS
<1>12. /\ u \in Windows /\ Kin(w, u) /\ u.page = w.page /\ u.pending = w.pending
       /\ u.childPage = w.childPage /\ u.reviewIds = left /\ u.moreParents = w.moreParents
  BY <1>7, <1>8, <1>11, CommentsRead
<1>13. CASE left = <<>> /\ w.childPage = 0
  <2>1. PICK v : v = Done(u)
    OBVIOUS
  <2>2. Save(v, MoreWork(v))
    BY <1>1, <1>4, <1>11, <1>13, <2>1 DEF FetchReviewComments
  <2>3. v \in Windows /\ Kin(w, v) /\ v.page = w.page /\ v.pending = Tail(w.pending)
        /\ v.childPage = 1 /\ v.reviewIds = <<>> /\ v.moreParents = w.moreParents
    BY <1>6, <1>12, <1>13, <2>1, VisitEnds DEF Kin
  <2>4. ~Owed(pr, w.until)'
    <3>1. DOMAIN left = {}
      BY <1>13
    <3>2. Owed(pr, w.until)' => \A k \in ReviewsOf(pr) : <<pr, k>> \in reviews' /\ <<pr, k>> \in comments'
      BY <1>10, <1>13, <3>1
    <3> QED
      BY <1>6, <1>9, <3>2 DEF Owed, IsCurrent, Current, ReviewsOf
  <2> QED
    BY <1>2, <1>3, <1>6, <1>9, <2>2, <2>3, <2>4, VisitSaved
<1>14. CASE ~(left = <<>> /\ w.childPage = 0)
  <2>1. Save(u, MoreWork(u))
    BY <1>1, <1>4, <1>11, <1>14 DEF FetchReviewComments
  <2>2. u.childPage = 0 => u.reviewIds # <<>>
    BY <1>12, <1>14
  <2>3. \A m \in DOMAIN u.reviewIds : <<Head(w.pending), u.reviewIds[m]>> \in reviews'
    BY <1>3, <1>7, <1>8, <1>9, <1>12
  <2>4. ASSUME Owed(Head(w.pending), w.until)'
        PROVE  HeadRead(u)'
    <3>1. ASSUME NEW k \in Passed(u, pr)'
          PROVE  <<pr, k>> \in reviews' /\ (<<pr, k>> \in comments' \/ \E m \in DOMAIN left : left[m] = k)
      <4>1. k \in ReviewsOf(pr) /\ (w.childPage = 0 \/ k <= (w.childPage - 1) * ChildPageSize)
        BY <1>9, <1>12, <3>1 DEF Passed, ReviewsOf
      <4> QED
        BY <1>3, <1>10, <2>4, <4>1
    <3> QED
      BY <1>3, <1>12, <3>1 DEF HeadRead
  <2> QED
    BY <1>2, <1>6, <1>9, <1>12, <2>1, <2>2, <2>3, <2>4, VisitKept
<1> QED
  BY <1>13, <1>14

-----------------------------------------------------------------------------
(* The forge's steps.                                                      *)

\* What a creation, an edit or a deletion of item i comes to for the others.
Changing(i) ==
  /\ UNCHANGED <<now, feed, cursor, database>>
  /\ \A k \in Items \ {i} : version'[k] = version[k] /\ edited'[k] = edited[k]
                            /\ (k \in deleted' <=> k \in deleted)
  /\ slipped' = (slipped \cup {k \in Slipping(i) : ~IsCurrent(k)}) \ {i}
  /\ TablesOK'

\* A change of one item makes no other one owed, and an owed one did not slip.
LEMMA OthersStayOwed ==
  ASSUME TablesOK, NEW i \in Items, Changing(i), NEW j \in Items, j # i, NEW t, Owed(j, t)'
  PROVE  Owed(j, t) /\ j \notin Slipping(i)
<1>1. version'[j] = version[j] /\ edited'[j] = edited[j] /\ (j \in deleted' <=> j \in deleted)
      /\ feed' = feed /\ stored' = stored /\ details' = details
      /\ reviews' = reviews /\ comments' = comments
  BY DEF Changing, database
<1>2. Exists(j)' /\ ~IsCurrent(j)' /\ j \notin slipped' /\ edited'[j] < t - Overlap
  BY DEF Owed
<1>3. Exists(j) /\ ~IsCurrent(j)
  BY <1>1, <1>2 DEF Exists, IsCurrent, Current, ReviewsOf
<1>4. j \notin slipped /\ j \notin Slipping(i)
  BY <1>2, <1>3 DEF Changing
<1> QED
  BY <1>1, <1>2, <1>3, <1>4 DEF Owed

\* A place in the listing as it is after the step.
LEMMA RankTypeAfter ==
  ASSUME TablesOK', NEW w, NEW j
  PROVE  Rank(w, j)' \in Nat
<1>1. PICK B : B = {k \in Listed(w) : Before(k, j)}'
  OBVIOUS
<1>2. B \subseteq Items
  BY <1>1 DEF Listed
<1>3. IsFiniteSet(B) /\ Cardinality(B) \in Nat
  BY <1>2, FeedsAssumption, FS_Subset, FS_CardinalityType
<1>4. Rank(w, j)' = Cardinality(B) + 1
  BY <1>1 DEF Rank
<1> QED
  BY <1>3, <1>4

\* Whatever moves in the listing, what the window owed it still has ahead.
LEMMA ChangeSound ==
  ASSUME IInv, NEW i \in Items, Changing(i),
         \A t \in 0..now : ~Owed(i, t)'
  PROVE  IInv'
<1>1. TablesOK /\ TablesOK' /\ cursor' = cursor /\ now' = now /\ feed' = feed
      /\ reviews' = reviews /\ comments' = comments
  BY DEF IInv, Changing, database
<1>2. CASE ~(cursor # NoCursor /\ cursor # Legacy(0))
  BY <1>1, <1>2 DEF IInv, CursorSound, Legacy
<1>3. CASE cursor # NoCursor /\ cursor # Legacy(0)
  <2>1. PICK w : w = cursor
    OBVIOUS
  <2>2. WorkOK(w) /\ WindowSound(w) /\ w # NoCursor
    BY <1>3, <2>1 DEF IInv, CursorSound
  <2>3. w \in Windows /\ w.until \in 0..now
    BY <1>1, <2>2 DEF WorkOK, Windows, TablesOK
  <2>4. WorkOK(w)'
    BY <1>1, <2>2 DEF WorkOK
  <2>5. ASSUME NEW j \in Items, Owed(j, w.until)'
        PROVE  j # i /\ Owed(j, w.until) /\ j \notin Slipping(i)
    BY <1>1, <2>3, <2>5, OthersStayOwed
  <2>6. ASSUME NEW j \in Items, Owed(j, w.until)'
        PROVE  /\ ~w.complete
               /\ j \in Listed(w)'
               /\ Unread(w, j)' \/ Waits(w, j)'
    <3>1. j # i /\ Owed(j, w.until) /\ j \notin Slipping(i)
      BY <2>5, <2>6
    <3>2. ~w.complete /\ j \in Listed(w) /\ (Unread(w, j) \/ Waits(w, j))
      BY <2>2, <3>1 DEF WindowSound
    <3>3. version'[j] = version[j] /\ edited'[j] = edited[j] /\ (j \in deleted' <=> j \in deleted)
      BY <3>1 DEF Changing
    <3>4. j \in Listed(w)'
      BY <1>1, <3>2, <3>3 DEF Listed, Exists, Forgejo
    <3>5. InWindow
      BY <2>1, <2>2, <2>3, <3>2 DEF InWindow, IsLegacy, Windows
    <3>6. ASSUME Unread(w, j)
          PROVE  Unread(w, j)'
      <4>1. Rank(cursor, j) > ReadUpTo(cursor) /\ w.moreParents
        BY <2>1, <3>6 DEF Unread
      <4>2. ~(Rank(cursor, j)' <= ReadUpTo(cursor))
        BY <2>1, <3>1, <3>2, <3>5, <4>1 DEF Slipping
      <4>3. Rank(cursor, j)' = Rank(w, j)'
        BY <1>1, <2>1 DEF Rank, Listed
      <4>4. Rank(w, j)' \in Nat /\ ReadUpTo(w) \in Nat
        BY <1>1, <2>3, RankTypeAfter, Multiples, FeedsAssumption DEF ReadUpTo, Windows
      <4> QED
        BY <2>1, <4>1, <4>2, <4>3, <4>4 DEF Unread, ReadUpTo
    <3> QED
      BY <3>2, <3>4, <3>6 DEF Waits
  <2>7. ASSUME w.pending # <<>>, Owed(Head(w.pending), w.until)'
        PROVE  HeadRead(w)'
    <3>1. PICK pr : pr = Head(w.pending)
      OBVIOUS
    <3>2. pr \in Items
      BY <2>3, <2>7, <3>1, HeadTailProperties, FeedsAssumption DEF Windows
    <3>3. pr # i /\ Owed(pr, w.until)
      BY <2>5, <2>7, <3>1, <3>2
    <3>4. HeadRead(w)
      BY <2>2, <2>7, <3>1, <3>3 DEF WindowSound
    <3>5. version'[pr] = version[pr]
      BY <3>2, <3>3 DEF Changing
    <3> QED
      BY <1>1, <3>1, <3>4, <3>5 DEF HeadRead, Passed, ReviewsOf
  <2>8. WindowSound(w)'
    BY <2>6, <2>7 DEF WindowSound
  <2>9. WorkOK(cursor)' /\ WindowSound(cursor)'
    <3>1. w = cursor'
      BY <1>1, <2>1
    <3>2. WorkOK(cursor)'
      BY <2>4, <3>1 DEF WorkOK
    <3>3. WindowSound(cursor)'
      BY <2>8, <3>1 DEF WindowSound, Unread, Waits, HeadRead, Passed, Rank, Listed, ReadUpTo
    <3> QED
      BY <3>2, <3>3
  <2> QED
    BY <1>1, <2>9 DEF IInv, CursorSound
<1> QED
  BY <1>2, <1>3

\* Only items slip.
LEMMA SlippedItems ==
  ASSUME NEW i PROVE Slipping(i) \subseteq Items
BY DEF Slipping, Listed

\* The overlap is longer than the forge's clock is late: what changes while a
\* window is read, or after, is left to the next one.
LEMMA EditSound ==
  ASSUME IInv, NEW i \in Items, Edit(i)
  PROVE  IInv'
<1>1. TablesOK /\ now \in 0..MaxTime /\ Lag \in Nat /\ Overlap \in Nat /\ Lag <= Overlap
      /\ MaxTime \in Nat
  BY ClocksAssumption DEF IInv, TablesOK
<1>2. PICK t \in 0..MaxTime : t = IF now > Lag THEN now - Lag ELSE 0
  <2>1. 0 \in 0..MaxTime /\ (now > Lag => now - Lag \in 0..MaxTime)
    BY <1>1
  <2> QED
    BY <2>1
<1>3. /\ UNCHANGED <<now, deleted, feed, cursor, database>>
      /\ version' = [version EXCEPT ![i] = @ + 1]
      /\ edited' = [edited EXCEPT ![i] = t]
      /\ slipped' = (slipped \cup {k \in Slipping(i) : ~IsCurrent(k)}) \ {i}
  BY <1>2 DEF Edit
<1>4. /\ version' \in [Items -> Nat] /\ edited' \in [Items -> 0..MaxTime]
      /\ version'[i] = version[i] + 1 /\ edited'[i] = t
      /\ \A k \in Items \ {i} : version'[k] = version[k] /\ edited'[k] = edited[k]
  BY <1>1, <1>3 DEF TablesOK
<1>5. \A k \in Items : version'[k] >= version[k] /\ version[k] \in Nat /\ version'[k] \in Nat
  BY <1>1, <1>4 DEF TablesOK
<1>6. TablesOK'
  <2>1. \A k \in Items : stored'[k] <= version'[k] /\ details'[k] <= version'[k]
    BY <1>1, <1>3, <1>5 DEF TablesOK, database
  <2>2. \A r \in reviews' : r[1] \in Items /\ r[2] \in ReviewsOf(r[1])'
    <3>1. ASSUME NEW r \in reviews
          PROVE  r[1] \in Items /\ r[2] \in 1..(version[r[1]] - 1)
      BY <1>1 DEF TablesOK, ReviewsOf
    <3>2. \A r \in reviews : r[1] \in Items /\ r[2] \in 1..(version'[r[1]] - 1)
      BY <1>5, <3>1
    <3> QED
      BY <1>3, <3>2 DEF database, ReviewsOf
  <2> QED
    BY <1>1, <1>3, <1>4, <2>1, <2>2, SlippedItems DEF TablesOK, database
<1>7. Changing(i)
  BY <1>3, <1>4, <1>6 DEF Changing
<1>8. ASSUME NEW u \in 0..now, Owed(i, u)'
      PROVE  FALSE
  <2>1. edited'[i] < u - Overlap
    BY <1>8 DEF Owed
  <2> QED
    BY <1>1, <1>2, <1>4, <2>1
<1> QED
  BY <1>7, <1>8, ChangeSound

\* A deleted item is not owed.
LEMMA DeleteSound ==
  ASSUME IInv, NEW i \in Items, Delete(i)
  PROVE  IInv'
<1>1. TablesOK
  BY DEF IInv
<1>2. /\ UNCHANGED <<now, version, edited, feed, cursor, database>>
      /\ deleted = {} /\ deleted' = {i}
      /\ slipped' = (slipped \cup {k \in Slipping(i) : ~IsCurrent(k)}) \ {i}
  BY DEF Delete
<1>3. TablesOK'
  BY <1>1, <1>2, SlippedItems DEF TablesOK, database, ReviewsOf
<1>4. Changing(i)
  BY <1>2, <1>3 DEF Changing
<1>5. \A t : ~Owed(i, t)'
  BY <1>2 DEF Owed, Exists
<1> QED
  BY <1>4, <1>5, ChangeSound

\* The clock alone changes nothing.
LEMMA TickSound ==
  ASSUME IInv, Tick
  PROVE  IInv'
<1>1. /\ UNCHANGED <<version, edited, deleted, feed, cursor, database, slipped>>
      /\ now \in 0..MaxTime /\ now' = now + 1 /\ now' \in 0..MaxTime
  BY ClocksAssumption DEF Tick, IInv, TablesOK
<1>2. TablesOK'
  BY <1>1 DEF IInv, TablesOK, database, ReviewsOf
<1>3. ASSUME WorkOK(cursor), WindowSound(cursor)
      PROVE  WorkOK(cursor)' /\ WindowSound(cursor)'
  <2>1. WorkOK(cursor)'
    <3>1. cursor.until \in 0..MaxTime
      BY <1>3 DEF WorkOK, Windows
    <3>2. cursor.until <= now'
      BY <1>1, <1>3, <3>1 DEF WorkOK
    <3> QED
      BY <1>1, <1>3, <3>2 DEF WorkOK, database
  <2>2. /\ cursor' = cursor /\ version' = version /\ edited' = edited /\ deleted' = deleted
        /\ feed' = feed /\ slipped' = slipped /\ stored' = stored /\ details' = details
        /\ reviews' = reviews /\ comments' = comments
    BY <1>1 DEF database
  <2>3. \A i, t : Owed(i, t)' <=> Owed(i, t)
    BY <2>2 DEF Owed, Exists, IsCurrent, Current, ReviewsOf
  <2>4. /\ Listed(cursor)' = Listed(cursor)
        /\ \A i : Unread(cursor, i)' <=> Unread(cursor, i)
        /\ \A i : Waits(cursor, i)' <=> Waits(cursor, i)
    BY <2>2 DEF Listed, Exists, Forgejo, Unread, Waits, Rank, Before, ReadUpTo
  <2>5. HeadRead(cursor)' <=> HeadRead(cursor)
    BY <2>2 DEF HeadRead, Passed, ReviewsOf
  <2>6. WindowSound(cursor)'
    BY <1>3, <2>2, <2>3, <2>4, <2>5 DEF WindowSound
  <2> QED
    BY <2>1, <2>6
<1> QED
  BY <1>1, <1>2, <1>3 DEF IInv, CursorSound, Legacy

\* Every fetch.
LEMMA FetchSound ==
  ASSUME IInv, Fetch
  PROVE  IInv'
<1>1. FetchIssues => Sound
  BY FlatSound DEF FetchIssues, GitHubFlat
<1>2. FetchComments => Sound
  BY FlatSound DEF FetchComments, GitHubFlat
<1>3. FetchInlineComments => Sound
  BY FlatSound DEF FetchInlineComments, GitHubFlat
<1>4. Sound
  BY <1>1, <1>2, <1>3, FetchParentsSound, FetchForgejoListingSound, FetchDetailsSound,
     FetchGitHubReviewsSound, FetchForgejoReviewsSound, FetchReviewCommentsSound DEF Fetch
<1>5. TablesOK'
  BY <1>4, FetchKeepsTables DEF IInv, Sound
<1> QED
  BY <1>4, <1>5 DEF IInv, CursorSound, Sound

\* A stuttering step.
LEMMA StuttersSound ==
  ASSUME IInv, UNCHANGED vars
  PROVE  IInv'
<1>1. UNCHANGED <<now, version, edited, deleted, feed, cursor, stored, details, reviews, comments, slipped>>
  BY DEF vars, forge, database
<1>2. TablesOK'
  BY <1>1 DEF IInv, TablesOK, ReviewsOf
<1>3. CursorSound'
  BY <1>1 DEF IInv, CursorSound, Legacy, WorkOK, WindowSound, Owed, Exists, IsCurrent, Current,
     ReviewsOf, Unread, Waits, HeadRead, Passed, Rank, Listed, Before, ReadUpTo, Forgejo
<1> QED
  BY <1>2, <1>3 DEF IInv

\* Without a cursor, or with one from before PollCursor, nothing is owed yet.
LEMMA InitSound == Init => IInv
<1> SUFFICES ASSUME Init PROVE IInv
  OBVIOUS
<1>1. version \in [Items -> Nat] /\ edited \in [Items -> 0..MaxTime] /\ now \in 0..MaxTime
  BY ClocksAssumption DEF Init
<1>2. stored = [i \in Items |-> 0] \/ stored = version
  BY DEF Init
<1>3. details = stored
  BY DEF Init
<1>4. TablesOK
  BY <1>1, <1>2, <1>3 DEF Init, TablesOK
<1>5. CursorSound
  BY DEF Init, CursorSound
<1> QED
  BY <1>4, <1>5 DEF IInv

\* Whatever is created, edited or deleted while the pages are read, and
\* wherever reading stops and resumes: the invariant that says where what the
\* window owes is still to be found.
THEOREM Invariance == Spec => []IInv
<1>1. IInv /\ [Next]_vars => IInv'
  BY FetchSound, TickSound, EditSound, DeleteSound, StuttersSound DEF Next
<1> QED
  BY InitSound, <1>1, PTL DEF Spec

\* What the invariant says of a window.
LEMMA WindowKnown ==
  ASSUME IInv, cursor # NoCursor, ~IsLegacy
  PROVE  WorkOK(cursor) /\ WindowSound(cursor)
BY DEF IInv, CursorSound, IsLegacy, Legacy

\* The saved cursor and the tables are what the program writes: no window in
\* the future, no state the forge has not had, and no work left over in a
\* complete window.
THEOREM TypeCorrect == Spec => []TypeOK
<1>1. IInv => TypeOK
  <2> SUFFICES ASSUME IInv PROVE TypeOK
    OBVIOUS
  <2>1. TablesOK
    BY DEF IInv
  <2>2. ASSUME cursor # NoCursor, ~IsLegacy
        PROVE  /\ cursor.lastFull <= cursor.until /\ cursor.until <= now
               /\ \A n \in DOMAIN cursor.pending : cursor.pending[n] \in PRs
               /\ cursor.complete => cursor.pending = <<>>
               /\ cursor.pending = <<>> => cursor.childPage = 1 /\ cursor.reviewIds = <<>>
               /\ cursor.childPage = 0 => cursor.reviewIds # <<>>
    <3>1. WorkOK(cursor)
      BY <2>2, WindowKnown
    <3>2. cursor.pending \in Seq(PRs)
      BY <3>1 DEF WorkOK, Windows
    <3>3. \A n \in DOMAIN cursor.pending : cursor.pending[n] \in PRs
      BY <3>2, ElementOfSeq
    <3> QED
      BY <3>1, <3>3 DEF WorkOK
  <2> QED
    BY <2>1, <2>2 DEF TypeOK, TablesOK, CursorOK
<1> QED
  BY Invariance, <1>1, PTL

\* A window that is complete has found every item in its current state, but
\* for those that changed too late for it and those that slipped past it.
THEOREM FindsTheRest == Spec => []NothingElseMissed
<1>1. IInv => NothingElseMissed
  <2> SUFFICES ASSUME IInv, cursor # NoCursor, ~IsLegacy, cursor.complete, NEW i \in Items,
                      Exists(i), ~IsCurrent(i), i \notin slipped
               PROVE  edited[i] >= cursor.until - Overlap
    BY DEF NothingElseMissed
  <2>1. ~Owed(i, cursor.until) /\ cursor \in Windows
    BY WindowKnown DEF WindowSound, WorkOK
  <2>2. edited[i] \in Int /\ cursor.until - Overlap \in Int
    BY <2>1, ClocksAssumption DEF IInv, TablesOK, Windows
  <2> QED
    BY <2>1, <2>2 DEF Owed
<1> QED
  BY Invariance, <1>1, PTL
=============================================================================
