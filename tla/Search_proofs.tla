---------------------------- MODULE Search_proofs ----------------------------
(***************************************************************************)
(* Proofs about Search: what a query answers of the conversations, and     *)
(* what find_commit answers of its hits, whatever is written, joined,      *)
(* parted or deleted before and between its steps.                         *)
(***************************************************************************)
EXTENDS Search, FiniteSetTheorems, SequenceTheorems, TLAPS

-----------------------------------------------------------------------------
(* Sorting and cutting.                                                    *)

\* R says of any two of S which comes first.
IsStrictOrder(S, R) ==
  /\ \A a \in S : <<a, a>> \notin R
  /\ \A a, b \in S : a # b => <<a, b>> \in R \/ <<b, a>> \in R
  /\ \A a, b, c \in S : <<a, b>> \in R /\ <<b, c>> \in R => <<a, c>> \in R

\* How many of S come before d.
Place(S, R, d) == Cardinality({e \in S : <<e, d>> \in R})

LEMMA DocsFinite ==
  ASSUME NEW S \in SUBSET Docs
  PROVE  IsFiniteSet(S) /\ Cardinality(S) \in Nat
BY DataAssumption, FS_Subset, FS_CardinalityType

LEMMA PlaceIsInjective ==
  ASSUME NEW S, IsFiniteSet(S), NEW R, IsStrictOrder(S, R),
         NEW a \in S, NEW b \in S, <<a, b>> \in R
  PROVE  Place(S, R, a) < Place(S, R, b)
<1> DEFINE A == {e \in S : <<e, a>> \in R}
           B == {e \in S : <<e, b>> \in R}
<1>1. A \subseteq B /\ a \in B /\ a \notin A
  BY DEF IsStrictOrder
<1>2. IsFiniteSet(B)
  BY FS_Subset
<1>3. Cardinality(A) <= Cardinality(B) /\ Cardinality(A) # Cardinality(B)
  BY <1>1, <1>2, FS_Subset
<1>4. Cardinality(A) \in Nat /\ Cardinality(B) \in Nat
  BY <1>1, <1>2, FS_Subset, FS_CardinalityType
<1> QED
  BY <1>3, <1>4 DEF Place

\* Every place from the first to the last is taken, by one member of S.
LEMMA PlacesAreTaken ==
  ASSUME NEW S, IsFiniteSet(S), NEW R, IsStrictOrder(S, R)
  PROVE  /\ Cardinality(S) \in Nat
         /\ \A d \in S : Place(S, R, d) \in 0..Cardinality(S) - 1
         /\ \A i \in 1..Cardinality(S) : \E d \in S : Place(S, R, d) = i - 1
<1> DEFINE n == Cardinality(S)
           f == [d \in S |-> Place(S, R, d) + 1]
<1>1. n \in Nat
  BY FS_CardinalityType
<1>2. ASSUME NEW d \in S PROVE Place(S, R, d) \in 0..n - 1
  <2> DEFINE D == {e \in S : <<e, d>> \in R}
  <2>1. D \subseteq S /\ d \notin D
    BY DEF IsStrictOrder
  <2>2. IsFiniteSet(D) /\ Cardinality(D) <= n /\ n # Cardinality(D)
    BY <2>1, FS_Subset
  <2>3. Cardinality(D) \in Nat
    BY <2>2, FS_CardinalityType
  <2> QED
    BY <1>1, <2>2, <2>3 DEF Place
<1>3. f \in [S -> 1..n]
  BY <1>1, <1>2
<1>4. \A a, b \in S : f[a] = f[b] => a = b
  <2> SUFFICES ASSUME NEW a \in S, NEW b \in S, f[a] = f[b], a # b PROVE FALSE
    OBVIOUS
  <2>1. Place(S, R, a) < Place(S, R, b) \/ Place(S, R, b) < Place(S, R, a)
    BY PlaceIsInjective DEF IsStrictOrder
  <2> QED
    BY <1>2, <2>1
<1>5. f \in Injection(S, 1..n)
  BY <1>3, <1>4 DEF Injection, IsInjective
<1>6. IsFiniteSet(1..n) /\ Cardinality(1..n) = n
  BY <1>1, FS_Interval
<1>7. f \in Surjection(S, 1..n)
  <2> HIDE DEF f
  <2> QED
    BY <1>5, <1>6, FS_Injection
<1>8. \A i \in 1..n : \E d \in S : f[d] = i
  BY <1>7 DEF Surjection
<1>9. ASSUME NEW i \in 1..n PROVE \E d \in S : Place(S, R, d) = i - 1
  <2>1. PICK d \in S : f[d] = i
    BY <1>8
  <2>2. Place(S, R, d) + 1 = i /\ Place(S, R, d) \in Int /\ i \in Int
    BY <1>1, <1>2, <2>1
  <2> QED
    BY <2>2
<1> HIDE DEF n
<1> QED
  BY <1>1, <1>2, <1>9 DEF n

\* Sorting is a permutation of the set, in the order.
LEMMA SortedIsInOrder ==
  ASSUME NEW S, IsFiniteSet(S), NEW R, IsStrictOrder(S, R)
  PROVE  /\ Cardinality(S) \in Nat
         /\ Sorted(S, R) \in [1..Cardinality(S) -> S]
         /\ \A d \in S : \E i \in 1..Cardinality(S) : Sorted(S, R)[i] = d
         /\ \A i, j \in 1..Cardinality(S) :
              i < j => <<Sorted(S, R)[i], Sorted(S, R)[j]>> \in R
<1> DEFINE n == Cardinality(S)
           q == Sorted(S, R)
<1>1. n \in Nat
  BY PlacesAreTaken
<1>2. ASSUME NEW i \in 1..n
      PROVE  q[i] \in S /\ Place(S, R, q[i]) = i - 1
  <2>1. q[i] = CHOOSE d \in S : Place(S, R, d) = i - 1
    BY DEF Sorted, Place
  <2>2. \E d \in S : Place(S, R, d) = i - 1
    BY PlacesAreTaken
  <2> HIDE DEF q
  <2> QED
    BY <2>1, <2>2
<1>3. q \in [1..n -> S]
  BY <1>2 DEF Sorted
<1>4. ASSUME NEW d \in S PROVE \E i \in 1..n : q[i] = d
  <2>1. Place(S, R, d) \in 0..n - 1
    BY PlacesAreTaken
  <2>2. PICK i \in 1..n : i - 1 = Place(S, R, d)
    <3>1. Place(S, R, d) + 1 \in 1..n
      BY <1>1, <2>1
    <3> QED
      BY <1>1, <2>1, <3>1
  <2>3. q[i] \in S /\ Place(S, R, q[i]) = Place(S, R, d)
    BY <1>2, <2>2
  <2>4. Place(S, R, d) \in Int
    BY <2>1
  <2>5. q[i] = d
    <3> SUFFICES ASSUME q[i] # d PROVE FALSE
      OBVIOUS
    <3> HIDE DEF q
    <3>1. Place(S, R, d) < Place(S, R, q[i]) \/ Place(S, R, q[i]) < Place(S, R, d)
      BY <2>3, PlaceIsInjective DEF IsStrictOrder
    <3> QED
      BY <2>3, <2>4, <3>1
  <2> QED
    BY <2>5
<1>5. ASSUME NEW i \in 1..n, NEW j \in 1..n, i < j PROVE <<q[i], q[j]>> \in R
  <2>1. /\ q[i] \in S /\ Place(S, R, q[i]) = i - 1
        /\ q[j] \in S /\ Place(S, R, q[j]) = j - 1
    BY <1>2
  <2>2. i - 1 # j - 1 /\ ~(j - 1 < i - 1)
    BY <1>1, <1>5
  <2> HIDE DEF q
  <2>3. q[i] # q[j]
    BY <2>1, <2>2
  <2>4. <<q[i], q[j]>> \in R \/ <<q[j], q[i]>> \in R
    BY <2>1, <2>3 DEF IsStrictOrder
  <2>5. <<q[j], q[i]>> \in R => Place(S, R, q[j]) < Place(S, R, q[i])
    BY <2>1, PlaceIsInjective
  <2> QED
    BY <2>1, <2>2, <2>4, <2>5
<1> HIDE DEF n, q
<1> QED
  BY <1>1, <1>3, <1>4, <1>5 DEF n, q

LEMMA LeastIsLeast ==
  ASSUME NEW a \in Nat, NEW b \in Nat
  PROVE  Least(a, b) \in Nat /\ Least(a, b) <= a /\ Least(a, b) <= b
         /\ (Least(a, b) = a \/ Least(a, b) = b)
BY DEF Least

\* A page of what is sorted: as long as the limit and the set allow, without
\* repetition, in the order, and nothing that is left out comes before it.
LEMMA PageOfSorted ==
  ASSUME NEW S, IsFiniteSet(S), NEW R, IsStrictOrder(S, R), NEW n \in Nat,
         NEW page, page = Page(Sorted(S, R), n)
  PROVE  /\ Cardinality(S) \in Nat
         /\ Len(page) = Least(n, Cardinality(S))
         /\ page \in Seq(S)
         /\ \A i, j \in DOMAIN page : i < j => <<page[i], page[j]>> \in R
         /\ \A i, j \in DOMAIN page : page[i] = page[j] => i = j
         /\ \A d \in S : \/ \E i \in DOMAIN page : page[i] = d
                         \/ Len(page) = n /\ \A i \in DOMAIN page : <<page[i], d>> \in R
<1> DEFINE m == Cardinality(S)
           k == Least(n, m)
<1> SUFFICES ASSUME NEW q, q = Sorted(S, R)
             PROVE  /\ m \in Nat
                    /\ Len(page) = k
                    /\ page \in Seq(S)
                    /\ \A i, j \in DOMAIN page : i < j => <<page[i], page[j]>> \in R
                    /\ \A i, j \in DOMAIN page : page[i] = page[j] => i = j
                    /\ \A d \in S : \/ \E i \in DOMAIN page : page[i] = d
                                    \/ Len(page) = n /\ \A i \in DOMAIN page : <<page[i], d>> \in R
  OBVIOUS
<1>1. /\ m \in Nat
      /\ q \in [1..m -> S]
      /\ \A d \in S : \E i \in 1..m : q[i] = d
      /\ \A i, j \in 1..m : i < j => <<q[i], q[j]>> \in R
  BY SortedIsInOrder
<1> HIDE DEF m
<1>2. q \in Seq(S) /\ Len(q) = m
  BY <1>1
<1>3. page = SubSeq(q, 1, k)
  BY <1>2 DEF Page
<1>4. k \in Nat /\ k <= n /\ k <= m /\ (k = n \/ k = m)
  BY <1>1, LeastIsLeast
<1> HIDE DEF k
<1>5. \A i \in 1..k : q[i] \in S
  BY <1>1, <1>4
<1>6. page \in Seq(S) /\ Len(page) = k /\ \A i \in 1..k : page[i] = q[i]
  <2>1. /\ SubSeq(q, 1, k) \in Seq(S)
        /\ Len(SubSeq(q, 1, k)) = IF 1 <= k THEN k - 1 + 1 ELSE 0
        /\ \A i \in 1 .. k - 1 + 1 : SubSeq(q, 1, k)[i] = q[1 + i - 1]
    BY <1>4, <1>5, SubSeqProperties
  <2>2. k - 1 + 1 = k /\ \A i \in 1..k : 1 + i - 1 = i
    BY <1>4
  <2>3. Len(page) = k
    BY <1>3, <1>4, <2>1
  <2> QED
    BY <1>3, <2>1, <2>2, <2>3
<1>7. DOMAIN page = 1..k /\ 1..k \subseteq 1..m
  BY <1>1, <1>4, <1>6
<1>8. \A i, j \in DOMAIN page : i < j => <<page[i], page[j]>> \in R
  BY <1>1, <1>6, <1>7
<1>9. \A i, j \in DOMAIN page : page[i] = page[j] => i = j
  <2> SUFFICES ASSUME NEW i \in 1..k, NEW j \in 1..k, page[i] = page[j], i # j PROVE FALSE
    BY <1>7
  <2>1. i < j \/ j < i
    BY <1>4
  <2>2. page[i] \in S
    BY <1>5, <1>6
  <2>3. <<page[i], page[i]>> \in R
    BY <1>7, <1>8, <2>1
  <2> QED
    BY <2>2, <2>3 DEF IsStrictOrder
<1>10. ASSUME NEW d \in S
       PROVE  \/ \E i \in DOMAIN page : page[i] = d
              \/ Len(page) = n /\ \A i \in DOMAIN page : <<page[i], d>> \in R
  <2>1. PICK x \in 1..m : q[x] = d
    BY <1>1
  <2>2. CASE x <= k
    <3>1. x \in 1..k
      BY <1>1, <1>4, <2>2
    <3> QED
      BY <1>6, <1>7, <2>1, <3>1
  <2>3. CASE ~(x <= k)
    <3>1. k = n
      BY <1>1, <1>4, <2>3
    <3>2. \A i \in 1..k : i < x
      BY <1>1, <1>4, <2>3
    <3>3. \A i \in 1..k : <<q[i], q[x]>> \in R
      BY <1>1, <1>7, <3>2
    <3> QED
      BY <1>6, <1>7, <2>1, <3>1, <3>3
  <2> QED
    BY <2>2, <2>3
<1> QED
  BY <1>1, <1>6, <1>8, <1>9, <1>10

-----------------------------------------------------------------------------
(* The orders of the queries.                                              *)

\* By a number, and by the id where the number is the same.
LEMMA OrderByKey ==
  ASSUME NEW S \in SUBSET Docs, NEW key \in [S -> Int], NEW R,
         \A a, b \in S :
           <<a, b>> \in R <=> key[a] < key[b] \/ (key[a] = key[b] /\ a < b)
  PROVE  IsStrictOrder(S, R)
<1>1. \A a \in S : a \in Int /\ key[a] \in Int
  BY DataAssumption
<1> QED
  BY <1>1 DEF IsStrictOrder

LEMMA BeforeIsStrict ==
  ASSUME NEW q, NEW S \in SUBSET Docs
  PROVE  IsStrictOrder(S, Order(q, S))
<1> DEFINE key == [d \in S |-> IF q.words THEN Score[d] ELSE -Date[d]]
<1>1. \A d \in S : Score[d] \in Int /\ Date[d] \in Int
  BY DataAssumption
<1>2. key \in [S -> Int]
  BY <1>1
<1>3. ASSUME NEW a \in S, NEW b \in S
      PROVE  <<a, b>> \in Order(q, S) <=> key[a] < key[b] \/ (key[a] = key[b] /\ a < b)
  <2>1. <<a, b>> \in Order(q, S) <=> Before(q, a, b)
    BY DEF Order
  <2>2. CASE q.words
    BY <2>1, <2>2 DEF Before, Better
  <2>3. CASE ~q.words
    <3>1. Before(q, a, b) <=> Date[a] > Date[b] \/ (Date[a] = Date[b] /\ a < b)
      BY <2>3 DEF Before
    <3>2. key[a] = -Date[a] /\ key[b] = -Date[b]
      BY <2>3
    <3> QED
      BY <1>1, <2>1, <3>1, <3>2
  <2> QED
    BY <2>2, <2>3
<1> HIDE DEF key
<1> QED
  BY <1>2, <1>3, OrderByKey

\* The least of a set of numbers.
LEMMA MinIsLowest ==
  ASSUME NEW S \in SUBSET Nat, S # {}
  PROVE  Min(S) \in S /\ \A x \in S : Min(S) <= x
<1>1. PICK k \in S : \A j \in S : ~(<<j, k>> \in OpToRel(<, Nat))
  BY NatLessThanWellFounded, WFMin
<1>2. \A j \in S : ~(j < k)
  BY <1>1 DEF OpToRel
<1>3. \A j \in S : k <= j
  BY <1>2
<1> QED
  BY <1>3 DEF Min

LEMMA CanonicalType ==
  ASSUME TypeOK, NEW d \in Docs
  PROVE  Canonical(d) \in Docs
<1>1. alias[d] \in Copies \cup {None}
  BY DEF TypeOK
<1> QED
  BY <1>1, DataAssumption DEF Canonical

\* A canonical document is its own, and is stored with any of its copies.
LEMMA CanonicalStands ==
  ASSUME TypeOK, NEW d \in Docs
  PROVE  /\ Canonical(Canonical(d)) = Canonical(d)
         /\ d \in Stored => Canonical(d) \in Stored
<1>1. CASE alias[d] = None
  BY <1>1 DEF Canonical
<1>2. CASE alias[d] # None
  <2>1. /\ alias[d] \in Copies
        /\ alias[alias[d].canonical] = alias[d]
        /\ alias[d].canonical \in Stored
    BY <1>2 DEF TypeOK
  <2> QED
    BY <1>2, <2>1 DEF Canonical
<1> QED
  BY <1>1, <1>2

LEMMA EarlierIsStrict ==
  ASSUME TypeOK, NEW after
  PROVE  /\ Mentioned(after) \subseteq Docs
         /\ IsStrictOrder(Mentioned(after), Earlier(after))
<1> DEFINE S == Mentioned(after)
           key == [c \in S |-> FirstMention(c, after)]
<1>1. S \subseteq Docs
  BY CanonicalType DEF Mentioned, Mentions, Stored
<1>2. ASSUME NEW c \in S PROVE FirstMention(c, after) \in Int
  <2> DEFINE D == {Date[d] : d \in Mentions(after) \cap Conversation(c)}
  <2>1. PICK d \in Mentions(after) : Canonical(d) = c
    BY DEF Mentioned
  <2>2. d \in Conversation(c)
    BY <2>1 DEF Conversation, Mentions
  <2>3. D # {}
    BY <2>1, <2>2
  <2>4. D \subseteq Nat
    BY DataAssumption DEF Mentions, Stored
  <2> HIDE DEF D
  <2>5. Min(D) \in Nat
    BY <2>3, <2>4, MinIsLowest
  <2> QED
    BY <2>5 DEF D, FirstMention
<1>3. key \in [S -> Int]
  BY <1>2
<1>4. ASSUME NEW a \in S, NEW b \in S
      PROVE  <<a, b>> \in Earlier(after) <=> key[a] < key[b] \/ (key[a] = key[b] /\ a < b)
  BY DEF Earlier
<1> HIDE DEF S, key
<1>5. IsStrictOrder(S, Earlier(after))
  BY <1>1, <1>3, <1>4, OrderByKey
<1> QED
  BY <1>1, <1>5 DEF S

LEMMA MergesFirstIsStrict ==
  ASSUME TypeOK, NEW commit
  PROVE  /\ Named(commit) \subseteq Docs
         /\ IsStrictOrder(Named(commit), MergesFirst(commit))
         /\ \A a, b \in Named(commit) :
              <<a, b>> \in MergesFirst(commit) => Standing(commit, b) <= Standing(commit, a)
<1> DEFINE S == Named(commit)
           key == [c \in S |-> -Standing(commit, c)]
<1>1. S \subseteq Docs
  BY CanonicalType DEF Named, Relevant, Stored
<1>2. \A c \in S : Standing(commit, c) \in Int
  BY DEF Standing
<1>3. key \in [S -> Int]
  BY <1>2
<1>4. ASSUME NEW a \in S, NEW b \in S
      PROVE  <<a, b>> \in MergesFirst(commit) <=> key[a] < key[b] \/ (key[a] = key[b] /\ a < b)
  <2>1. <<a, b>> \in MergesFirst(commit) <=>
          \/ Standing(commit, a) > Standing(commit, b)
          \/ Standing(commit, a) = Standing(commit, b) /\ a < b
    BY DEF MergesFirst
  <2>2. key[a] = -Standing(commit, a) /\ key[b] = -Standing(commit, b)
    OBVIOUS
  <2> QED
    BY <1>2, <2>1, <2>2
<1>5. \A a, b \in S : <<a, b>> \in MergesFirst(commit) => Standing(commit, b) <= Standing(commit, a)
  <2> SUFFICES ASSUME NEW a \in S, NEW b \in S, <<a, b>> \in MergesFirst(commit)
               PROVE  Standing(commit, b) <= Standing(commit, a)
    OBVIOUS
  <2>1. \/ Standing(commit, a) > Standing(commit, b)
        \/ Standing(commit, a) = Standing(commit, b) /\ a < b
    BY DEF MergesFirst
  <2> QED
    BY <1>2, <2>1
<1> HIDE DEF S, key
<1>6. IsStrictOrder(S, MergesFirst(commit))
  BY <1>1, <1>3, <1>4, OrderByKey
<1> QED
  BY <1>1, <1>5, <1>6 DEF S

-----------------------------------------------------------------------------
(* What is stored stays well formed.                                       *)

LEMMA TypeInit == Init => TypeOK
BY DataAssumption DEF Init, TypeOK, Texts, Stored

\* external_id finds what has the name: a comment for a URL, and the
\* conversation of the one thread for a number.
LEMMA ExternalIdFinds ==
  ASSUME TypeOK, NEW name
  PROVE  /\ ExternalId(name) \in Stored \cup {None}
         /\ name \in Permalinks /\ ExternalId(name) # None => Called[ExternalId(name)] = name
         /\ name \notin Permalinks /\ name # None =>
              \A b \in Stored : Called[b] = name => ExternalId(name) = Canonical(b)
         /\ name \notin Permalinks /\ ExternalId(name) # None =>
              \E b \in Stored : Called[b] = name /\ ExternalId(name) = Canonical(b)
<1> DEFINE bearers == {d \in Stored : Called[d] = name}
           one == CHOOSE d \in bearers : TRUE
<1>1. bearers \subseteq Stored /\ Stored \subseteq Docs
  BY DEF Stored
<1>2. bearers # {} => one \in bearers
  OBVIOUS
<1>3. \A d \in bearers : d \in Stored /\ Called[d] = name
  OBVIOUS
<1>4. \A b \in Stored : Called[b] = name => b \in bearers
  OBVIOUS
<1>5. Cardinality(bearers) = 1 => bearers # {}
  BY FS_EmptySet
<1>6. /\ name \in Permalinks =>
           ExternalId(name) = IF Cardinality(bearers) = 1 THEN one ELSE None
      /\ name \notin Permalinks =>
           ExternalId(name) = IF bearers # {} THEN Canonical(one) ELSE None
  BY DEF ExternalId
<1> HIDE DEF bearers, one
<1>7. bearers # {} => Canonical(one) \in Stored
  BY <1>1, <1>2, CanonicalStands
<1>8. ExternalId(name) \in Stored \cup {None}
  BY <1>1, <1>2, <1>5, <1>6, <1>7
<1>9. name \in Permalinks /\ ExternalId(name) # None => Called[ExternalId(name)] = name
  BY <1>2, <1>3, <1>5, <1>6
<1>10. ASSUME name \notin Permalinks, name # None, NEW b \in Stored, Called[b] = name
       PROVE  ExternalId(name) = Canonical(b)
  <2>1. b \in bearers /\ one \in bearers
    BY <1>2, <1>4, <1>10
  <2>2. Called[one] = Called[b] /\ one \in Docs /\ b \in Docs
    BY <1>1, <1>3, <1>10, <2>1
  <2>3. one = b
    BY <1>10, <2>2, LinksAssumption
  <2> QED
    BY <1>6, <1>10, <2>1, <2>3
<1>11. ASSUME name \notin Permalinks, ExternalId(name) # None
       PROVE  \E b \in Stored : Called[b] = name /\ ExternalId(name) = Canonical(b)
  BY <1>2, <1>3, <1>6, <1>11
<1> QED
  BY <1>8, <1>9, <1>10, <1>11

\* While the stored documents of a name are the same, a URL means the same, and
\* a number is still of a thread or of none.
LEMMA SameBearers ==
  ASSUME NEW name, {d \in Stored : Called[d] = name}' = {d \in Stored : Called[d] = name}
  PROVE  /\ name \in Permalinks => ExternalId(name)' = ExternalId(name)
         /\ UNCHANGED alias => ExternalId(name)' = ExternalId(name)
<1> DEFINE bearers == {d \in Stored : Called[d] = name}
           one == CHOOSE d \in bearers : TRUE
<1>1. bearers' = bearers
  OBVIOUS
<1>2. one' = one
  BY <1>1
<1>3. ExternalId(name) =
        CASE name \in Permalinks /\ Cardinality(bearers) = 1 -> one
          [] name \notin Permalinks /\ bearers # {} -> Canonical(one)
          [] OTHER -> None
  BY DEF ExternalId
<1>4. ExternalId(name)' =
        CASE name \in Permalinks /\ Cardinality(bearers') = 1 -> one'
          [] name \notin Permalinks /\ bearers' # {} -> Canonical(one)'
          [] OTHER -> None
  BY DEF ExternalId
<1> HIDE DEF bearers, one
<1>5. UNCHANGED alias => Canonical(one)' = Canonical(one)
  BY <1>2 DEF Canonical
<1> QED
  BY <1>1, <1>2, <1>3, <1>4, <1>5

RowSet == [from : Docs, to : Docs \cup {None}, name : Names \cup {None}, type : STRING]

\* A row is of an id or of a name; a resolved one is of a stored document: what
\* the URL is found for, the thread that has the number, or the canonical half
\* of a pair of it; and an open one is of a URL, or of nothing that is stored.
RowFollows(r) ==
  /\ r.name = None => r.to # None
  /\ r.name # None /\ r.to # None => r.to \in Stored
  /\ r.name \in Permalinks => r.to \in {None, ExternalId(r.name)}
  /\ r.name \in Names \ Permalinks =>
       /\ r.to = None => \A b \in Stored : Called[b] # r.name
       /\ r.to # None => \/ Called[r.to] = r.name
                         \/ \E p \in Copies : r.to = p.canonical /\ r.name = Called[p.other]

RowsOK == IsFiniteSet(refs) /\ \A r \in refs : RowFollows(r)

\* The rows that a page has made before it repairs them.
Kept(d) == {r \in refs : r.from # d}
Made(d, t) == IF t = "word" THEN {Row(d, link) : link \in Links[d]} ELSE {}

UrlsOf(rows, d) == {Called[d]} \cup {r.name : r \in {s \in rows : d \in {s.from, s.to}}}

LEMMA WriteStores ==
  ASSUME TypeOK, NEW d \in Docs, NEW t \in Texts, Write(d, t)
  PROVE  /\ text' \in [Docs -> Texts]
         /\ Stored' = Stored \cup {d}
         /\ alias' = alias
         /\ \A x : Canonical(x)' = Canonical(x)
<1>1. /\ text' \in [Docs -> Texts]
      /\ Stored' = Stored \cup {d}
  BY DEF TypeOK, Write, Stored
<1>2. alias' = alias /\ \A x : Canonical(x)' = Canonical(x)
  BY DEF Write, Canonical
<1> QED
  BY <1>1, <1>2

\* external_id once the page has written d.
LEMMA WriteFinds ==
  ASSUME TypeOK, NEW d \in Docs, NEW t \in Texts, Write(d, t), NEW name
  PROVE  /\ ExternalId(name)' \in Stored' \cup {None}
         /\ name # Called[d] => ExternalId(name)' = ExternalId(name)
         /\ name \notin Permalinks /\ ExternalId(name)' = None =>
              \A b \in Stored' : Called[b] # name
         /\ name \notin Permalinks /\ ExternalId(name)' # None =>
              \E b \in Stored' : Called[b] = name /\ ExternalId(name)' = Canonical(b)
<1> DEFINE bearers == {x \in Stored : Called[x] = name}'
           one == CHOOSE x \in bearers : TRUE
<1>1. Stored' = Stored \cup {d} /\ alias' = alias
      /\ \A x : Canonical(x)' = Canonical(x)
  BY WriteStores
<1>2. \A x \in Stored' : Canonical(x) \in Stored'
  <2> TAKE x \in Stored'
  <2>1. x \in Docs /\ (alias[x] # None => alias[x].canonical \in Stored)
    BY <1>1 DEF TypeOK, Stored
  <2> QED
    BY <1>1, <2>1 DEF Canonical
<1>3. bearers # {} => one \in bearers
  OBVIOUS
<1>4. bearers = {x \in Stored' : Called[x] = name}
  OBVIOUS
<1>5. Cardinality(bearers) = 1 => bearers # {}
  BY FS_EmptySet
<1>6. ExternalId(name)' =
        CASE name \in Permalinks /\ Cardinality(bearers) = 1 -> one
          [] name \notin Permalinks /\ bearers # {} -> Canonical(one)
          [] OTHER -> None
  BY <1>1 DEF ExternalId
<1>7. name # Called[d] => bearers = {x \in Stored : Called[x] = name}
  BY <1>1, <1>4
<1>8. name # Called[d] => ExternalId(name)' = ExternalId(name)
  BY <1>1, <1>7, SameBearers
<1>9. Stored' \subseteq Docs /\ None \notin Docs
  BY DataAssumption DEF Stored
<1> HIDE DEF bearers, one
<1>10. ExternalId(name)' \in Stored' \cup {None}
  BY <1>2, <1>3, <1>4, <1>5, <1>6
<1>11. ASSUME name \notin Permalinks, ExternalId(name)' = None, NEW b \in Stored', Called[b] = name
       PROVE  FALSE
  <2>1. b \in bearers /\ one \in bearers
    BY <1>3, <1>4, <1>11
  <2>2. Canonical(one) \in Docs
    BY <1>2, <1>4, <1>9, <2>1
  <2> QED
    BY <1>6, <1>9, <1>11, <2>1, <2>2
<1>12. ASSUME name \notin Permalinks, ExternalId(name)' # None
       PROVE  \E b \in Stored' : Called[b] = name /\ ExternalId(name)' = Canonical(b)
  BY <1>3, <1>4, <1>6, <1>12
<1> QED
  BY <1>8, <1>10, <1>11, <1>12

LEMMA WriteKeepsType ==
  ASSUME TypeOK, NEW d \in Docs, NEW t \in Texts, Write(d, t)
  PROVE  TypeOK'
<1>1. /\ text' \in [Docs -> Texts]
      /\ Stored' = Stored \cup {d}
      /\ alias' = alias
  BY WriteStores
<1>2. \A name : ExternalId(name)' \in Stored' \cup {None}
  BY WriteFinds
<1>3. Kept(d) \cup Made(d, t) \subseteq
        [from : Stored', to : Docs \cup {None}, name : Names \cup {None}, type : STRING]
  <2>1. Kept(d) \subseteq [from : Stored', to : Docs \cup {None}, name : Names \cup {None}, type : STRING]
    BY <1>1 DEF TypeOK, Kept
  <2>2. ASSUME NEW link \in Links[d]
        PROVE  Row(d, link) \in
                 [from : Stored', to : Docs \cup {None}, name : Names \cup {None}, type : STRING]
    <3>1. link \in [to : Docs, name : {None}, type : STRING]
                    \cup [to : {None}, name : Names, type : STRING]
      BY LinksAssumption
    <3>2. Stored' \subseteq Docs
      BY <1>1 DEF Stored
    <3>3. Target(link)' \in Docs \cup {None}
      BY <1>2, <3>1, <3>2 DEF Target
    <3> QED
      BY <1>1, <3>1, <3>3 DEF Row
  <2> QED
    BY <2>1, <2>2 DEF Made
<1>4. refs' = Repaired(Kept(d) \cup Made(d, t), d)
  BY DEF Write, Kept, Made
<1>5. refs' \subseteq [from : Stored', to : Docs \cup {None}, name : Names \cup {None}, type : STRING]
  <2> DEFINE rows == Kept(d) \cup Made(d, t)
  <2>1. refs' = {[r EXCEPT !.to = IF r.name \in UrlsOf(rows, d) \cap Permalinks THEN ExternalId(r.name)'
                                  ELSE IF r.to = None /\ r.name = Called[d] THEN d ELSE r.to] : r \in rows}
    BY <1>4 DEF Repaired, UrlsOf
  <2>2. Stored' \subseteq Docs
    BY <1>1 DEF Stored
  <2> HIDE DEF rows
  <2> QED
    BY <1>2, <1>3, <2>1, <2>2 DEF rows
<1>6. \A x \in Docs : alias[x] # None =>
        /\ x \in {alias[x].canonical, alias[x].other}
        /\ {alias[x].canonical, alias[x].origin} \subseteq Stored
        /\ alias[alias[x].canonical] = alias[x]
        /\ x \in Stored
  BY DEF TypeOK
<1>7. alias \in [Docs -> Copies \cup {None}]
  BY DEF TypeOK
<1> QED
  BY <1>1, <1>5, <1>6, <1>7 DEF TypeOK

LEMMA JoinKeepsType ==
  ASSUME TypeOK, NEW p \in Copies, Join(p)
  PROVE  TypeOK'
<1>1. /\ p.canonical \in Docs /\ p.other \in Docs /\ p.canonical # p.other
      /\ p.origin \in {p.canonical, p.other} /\ p # None
  BY DataAssumption DEF Join, Stored, TypeOK
<1>2. text' = text /\ refs' = refs /\ Stored' = Stored
  BY DEF Join, Stored
<1>3. /\ alias' \in [Docs -> Copies \cup {None}]
      /\ alias'[p.canonical] = p /\ alias'[p.other] = p
      /\ \A d \in Docs : d \notin {p.canonical, p.other} => alias'[d] = alias[d]
  BY <1>1 DEF Join, TypeOK
<1>4. ASSUME NEW d \in Docs, alias'[d] # None
      PROVE  /\ d \in {alias'[d].canonical, alias'[d].other}
             /\ {alias'[d].canonical, alias'[d].origin} \subseteq Stored
             /\ alias'[alias'[d].canonical] = alias'[d]
             /\ d \in Stored
  <2>1. CASE d \in {p.canonical, p.other}
    BY <1>1, <1>3, <2>1 DEF Join
  <2>2. CASE d \notin {p.canonical, p.other}
    <3>1. alias'[d] = alias[d] /\ alias[d] # None
      BY <1>3, <1>4, <2>2
    <3>2. /\ d \in {alias[d].canonical, alias[d].other}
          /\ {alias[d].canonical, alias[d].origin} \subseteq Stored
          /\ alias[alias[d].canonical] = alias[d]
          /\ d \in Stored
          /\ alias[d].canonical \in Docs
      BY <3>1, DataAssumption DEF TypeOK, Stored
    <3>3. alias[d].canonical # p.other
      BY <3>1, <3>2 DEF Join
    <3>4. alias[d].canonical = p.canonical => alias[d] = p
      BY <3>1, <3>2 DEF Join
    <3>5. alias'[alias[d].canonical] = alias[d]
      BY <1>3, <3>2, <3>3, <3>4
    <3> QED
      BY <3>1, <3>2, <3>5
  <2> QED
    BY <2>1, <2>2
<1> QED
  BY <1>2, <1>3, <1>4 DEF TypeOK

LEMMA PartKeepsType ==
  ASSUME TypeOK, NEW p \in Copies, Part(p)
  PROVE  TypeOK'
<1>1. text' = text /\ refs' = refs /\ Stored' = Stored
  BY DEF Part, Stored
<1>2. /\ alias' \in [Docs -> Copies \cup {None}]
      /\ \A d \in Docs : alias[d] = p => alias'[d] = None
      /\ \A d \in Docs : alias[d] # p => alias'[d] = alias[d]
  BY DEF Part, TypeOK
<1>3. ASSUME NEW d \in Docs, alias'[d] # None
      PROVE  /\ d \in {alias'[d].canonical, alias'[d].other}
             /\ {alias'[d].canonical, alias'[d].origin} \subseteq Stored
             /\ alias'[alias'[d].canonical] = alias'[d]
             /\ d \in Stored
  <2>1. alias'[d] = alias[d] /\ alias[d] # p /\ alias[d] # None
    BY <1>2, <1>3
  <2>2. /\ d \in {alias[d].canonical, alias[d].other}
        /\ {alias[d].canonical, alias[d].origin} \subseteq Stored
        /\ alias[alias[d].canonical] = alias[d]
        /\ d \in Stored
        /\ alias[d].canonical \in Docs
    BY <2>1, DataAssumption DEF TypeOK, Stored
  <2>3. alias'[alias[d].canonical] = alias[d]
    BY <1>2, <2>1, <2>2
  <2> QED
    BY <2>1, <2>2, <2>3
<1> QED
  BY <1>1, <1>2, <1>3 DEF TypeOK

LEMMA ResetKeepsType ==
  ASSUME TypeOK, NEW type, Reset(type)
  PROVE  TypeOK'
<1> DEFINE gone == {d \in Stored : Type[d] = type}
<1>1. /\ text' = [d \in Docs |-> IF d \in gone THEN "absent" ELSE text[d]]
      /\ alias' = Cascade(gone)
      /\ refs' = {r \in refs : r.from \notin gone /\ r.to \notin gone}
  BY DEF Reset
<1>2. gone \subseteq Stored /\ Stored \subseteq Docs
  BY DEF Stored
<1> HIDE DEF gone
<1>3. text' \in [Docs -> Texts] /\ Stored' = Stored \ gone
  BY <1>1, <1>2 DEF TypeOK, Stored, Texts
<1>4. refs' \subseteq [from : Stored', to : Docs \cup {None}, name : Names \cup {None}, type : STRING]
  BY <1>1, <1>3 DEF TypeOK
<1>5. /\ alias' \in [Docs -> Copies \cup {None}]
      /\ \A d \in Docs : alias'[d] # None =>
           alias'[d] = alias[d] /\ {alias[d].canonical, alias[d].origin, d} \cap gone = {}
      /\ \A d \in Docs : alias[d] # None
           /\ {alias[d].canonical, alias[d].origin, d} \cap gone = {} => alias'[d] = alias[d]
  BY <1>1 DEF TypeOK, Cascade
<1>6. ASSUME NEW d \in Docs, alias'[d] # None
      PROVE  /\ d \in {alias'[d].canonical, alias'[d].other}
             /\ {alias'[d].canonical, alias'[d].origin} \subseteq Stored'
             /\ alias'[alias'[d].canonical] = alias'[d]
             /\ d \in Stored'
  <2>1. alias'[d] = alias[d] /\ alias[d] # None
        /\ {alias[d].canonical, alias[d].origin, d} \cap gone = {}
    BY <1>5, <1>6
  <2>2. /\ d \in {alias[d].canonical, alias[d].other}
        /\ {alias[d].canonical, alias[d].origin} \subseteq Stored
        /\ alias[alias[d].canonical] = alias[d]
        /\ d \in Stored
    BY <2>1 DEF TypeOK
  <2>3. /\ {alias[d].canonical, alias[d].origin} \subseteq Stored'
        /\ d \in Stored'
    BY <1>3, <2>1, <2>2
  <2> DEFINE c == alias[d].canonical
  <2>4. c \in Docs /\ alias[c] # None
        /\ {alias[c].canonical, alias[c].origin, c} \cap gone = {}
    BY <1>2, <2>1, <2>2
  <2>5. alias'[c] = alias[c]
    BY <1>5, <2>4
  <2> QED
    BY <2>1, <2>2, <2>3, <2>5
<1> QED
  BY <1>3, <1>4, <1>5, <1>6 DEF TypeOK

\* The database as it is before and after a query.
LEMMA SameType ==
  ASSUME TypeOK, UNCHANGED <<text, alias, refs>>
  PROVE  TypeOK'
BY DEF TypeOK, Stored

LEMMA TypeStep ==
  ASSUME TypeOK, [Next]_vars
  PROVE  TypeOK'
<1>1. CASE Ask
  BY <1>1, SameType DEF Ask, Search, GetReferences, Timeline
<1>2. CASE Find
  BY <1>2, SameType DEF Find, StartFind, ReadHit, ReadPullRequests, Found, Return
<1>3. CASE Change
  BY <1>3, WriteKeepsType, JoinKeepsType, PartKeepsType, ResetKeepsType DEF Change
<1>4. CASE UNCHANGED vars
  BY <1>4, SameType DEF vars
<1> QED
  BY <1>1, <1>2, <1>3, <1>4 DEF Next

-----------------------------------------------------------------------------
(* The reference rows.                                                     *)

LEMMA TypeOfRow ==
  ASSUME TypeOK, NEW r \in refs
  PROVE  r \in RowSet /\ r.from \in Stored
BY DEF TypeOK, RowSet, Stored

LEMMA UrlsAreNames ==
  /\ None \notin Permalinks /\ None \notin Names /\ None \notin Docs
  /\ \A d \in Docs : d \notin Names /\ d # None
  /\ Permalinks \subseteq Names
BY DataAssumption

\* Joins and parts leave the rows as they are, and what is stored.
LEMMA AliasKeepsRows ==
  ASSUME TypeOK, RowsOK, UNCHANGED <<text, refs>>
  PROVE  RowsOK'
<1>1. Stored' = Stored
  BY DEF Stored
<1>2. \A name \in Permalinks : ExternalId(name)' = ExternalId(name)
  BY <1>1, SameBearers
<1>3. \A r : RowFollows(r) => RowFollows(r)'
  BY <1>1, <1>2 DEF RowFollows
<1> QED
  BY <1>3 DEF RowsOK

LEMMA ResetKeepsRows ==
  ASSUME TypeOK, RowsOK, NEW type, Reset(type)
  PROVE  RowsOK'
<1> DEFINE gone == {d \in Stored : Type[d] = type}
<1>1. /\ text' = [d \in Docs |-> IF d \in gone THEN "absent" ELSE text[d]]
      /\ refs' = {r \in refs : r.from \notin gone /\ r.to \notin gone}
  BY DEF Reset
<1>2. gone \subseteq Stored
  OBVIOUS
<1> HIDE DEF gone
<1>3. Stored' = Stored \ gone
  BY <1>1, <1>2 DEF TypeOK, Stored
<1>4. IsFiniteSet(refs')
  BY <1>1, FS_Subset DEF RowsOK
<1>5. ASSUME NEW r \in refs, r.to \notin gone
      PROVE  RowFollows(r)'
  <2>1. RowFollows(r)
    BY DEF RowsOK
  <2>2. r.name # None /\ r.to # None => r.to \in Stored'
    BY <1>3, <1>5, <2>1 DEF RowFollows
  <2>3. ASSUME r.name \in Permalinks, r.to # None
        PROVE  r.to = ExternalId(r.name)'
    <3> DEFINE bearers == {x \in Stored : Called[x] = r.name}
               one == CHOOSE x \in bearers : TRUE
    <3>1. r.to = IF Cardinality(bearers) = 1 THEN one ELSE None
      BY <2>1, <2>3 DEF RowFollows, ExternalId
    <3>2. Cardinality(bearers) = 1 /\ r.to = one
      BY <2>3, <3>1
    <3>3. PICK b : bearers = {b}
      <4>1. bearers \subseteq Docs
        BY DEF Stored
      <4>2. IsFiniteSet(bearers)
        BY <4>1, DocsFinite
      <4> HIDE DEF bearers
      <4> QED
        BY <3>2, <4>2, FS_Singleton
    <3>4. r.to = b
      BY <3>2, <3>3
    <3>5. bearers' = bearers
      <4>1. b \in Stored /\ Called[b] = r.name
        BY <3>3
      <4>2. b \in Stored'
        BY <1>3, <1>5, <3>4, <4>1
      <4>3. bearers' = {x \in Stored' : Called[x] = r.name}
        OBVIOUS
      <4>4. bearers' \subseteq bearers
        BY <1>3, <4>3
      <4> QED
        BY <3>3, <4>1, <4>2, <4>3, <4>4
    <3>6. ExternalId(r.name)' = ExternalId(r.name)
      BY <2>3, <3>5, SameBearers
    <3> QED
      BY <2>1, <2>3, <3>6 DEF RowFollows
  <2>4. r.name \in Names \ Permalinks /\ r.to = None => \A b \in Stored' : Called[b] # r.name
    BY <1>3, <2>1 DEF RowFollows
  <2> QED
    BY <2>1, <2>2, <2>3, <2>4 DEF RowFollows
<1> QED
  BY <1>1, <1>4, <1>5 DEF RowsOK

\* A page makes its rows and repairs those that its document has to do with.
LEMMA WriteKeepsRows ==
  ASSUME TypeOK, RowsOK, NEW d \in Docs, NEW t \in Texts, Write(d, t)
  PROVE  RowsOK'
<1> DEFINE rows == Kept(d) \cup Made(d, t)
           urls == UrlsOf(rows, d)
           fixed == [r \in rows |->
                       [r EXCEPT !.to = IF r.name \in urls \cap Permalinks THEN ExternalId(r.name)'
                                        ELSE IF r.to = None /\ r.name = Called[d] THEN d ELSE r.to]]
<1>1. TypeOK' /\ Stored' = Stored \cup {d} /\ alias' = alias
  BY WriteKeepsType, WriteStores
<1>2. refs' = {fixed[r] : r \in rows}
  BY DEF Write, Kept, Made, Repaired, UrlsOf
<1>3. IsFiniteSet(refs')
  <2>1. IsFiniteSet(Kept(d))
    BY FS_Subset DEF RowsOK, Kept
  <2>2. IsFiniteSet(Made(d, t))
    <3>1. IsFiniteSet({Row(d, link) : link \in Links[d]})
      <4>1. IsFiniteSet(Links[d])
        BY LinksAssumption
      <4> DEFINE f == [link \in Links[d] |-> Row(d, link)]
                 T == {Row(d, link) : link \in Links[d]}
      <4>2. f \in Surjection(Links[d], T)
        BY DEF Surjection
      <4> HIDE DEF f, T
      <4>3. IsFiniteSet(T)
        BY <4>1, <4>2, FS_Surjection
      <4> QED
        BY <4>3 DEF T
    <3> QED
      BY <3>1, FS_EmptySet DEF Made
  <2>3. IsFiniteSet(rows)
    BY <2>1, <2>2, FS_Union
  <2> DEFINE U == {fixed[r] : r \in rows}
  <2>4. fixed \in Surjection(rows, U)
    BY DEF Surjection
  <2> HIDE DEF fixed, U, rows
  <2>5. IsFiniteSet(U)
    BY <2>3, <2>4, FS_Surjection
  <2> QED
    BY <1>2, <2>5 DEF U
<1>4. Stored' \subseteq Docs /\ None \notin Docs
  BY DataAssumption DEF Stored
<1>5. ASSUME NEW r \in rows
      PROVE  /\ r.name \in Names \cup {None} /\ r.to \in Docs \cup {None}
             /\ r.name = None => r.to # None
             /\ r.name # None /\ r.to # None => r.to \in Stored'
             /\ r.name \in Permalinks => r.name \in urls \/ r.to \in {None, ExternalId(r.name)}
             /\ r.name \in Names \ Permalinks =>
                  /\ r.to = None /\ r.name # Called[d] => \A b \in Stored' : Called[b] # r.name
                  /\ r.to # None => \/ Called[r.to] = r.name
                                    \/ \E p \in Copies : r.to = p.canonical /\ r.name = Called[p.other]
  <2>1. CASE r \in Kept(d)
    <3>1. r \in refs
      BY <2>1 DEF Kept
    <3>2. RowFollows(r) /\ r \in RowSet
      BY <3>1, TypeOfRow DEF RowsOK
    <3>3. \A b \in Stored' : b \in Stored \/ b = d
      BY <1>1
    <3> QED
      BY <1>1, <3>2, <3>3 DEF RowFollows, RowSet
  <2>2. CASE r \in Made(d, t)
    <3>1. PICK link \in Links[d] : r = Row(d, link)
      BY <2>2 DEF Made
    <3>2. link \in [to : Docs, name : {None}, type : STRING]
                    \cup [to : {None}, name : Names, type : STRING]
      BY LinksAssumption
    <3>3. r.from = d /\ r.name = link.name /\ r.to = Target(link)'
      BY <3>1 DEF Row
    <3>4. r.name \in urls
      BY <2>2, <3>3 DEF UrlsOf
    <3>5. CASE link.name = None
      <4>1. r.to = link.to /\ link.to \in Docs
        BY <3>2, <3>3, <3>5, UrlsAreNames DEF Target
      <4> QED
        BY <3>3, <3>5, <4>1, UrlsAreNames
    <3>6. CASE link.name # None
      <4>1. link.name \in Names /\ link.to = None
        BY <3>2, <3>6, UrlsAreNames
      <4>2. r.to = ExternalId(r.name)'
        BY <3>3, <3>6, <4>1 DEF Target
      <4>3. /\ r.to \in Stored' \cup {None}
            /\ r.name \notin Permalinks /\ r.to = None => \A b \in Stored' : Called[b] # r.name
            /\ r.name \notin Permalinks /\ r.to # None =>
                 \E b \in Stored' : Called[b] = r.name /\ r.to = Canonical(b)
        BY <4>2, WriteFinds
      <4>4. ASSUME NEW b \in Stored', r.to = Canonical(b), Called[b] = r.name
            PROVE  \/ Called[r.to] = r.name
                   \/ \E p \in Copies : r.to = p.canonical /\ r.name = Called[p.other]
        <5>1. b \in Docs
          BY <1>4
        <5>2. CASE alias[b] = None
          BY <4>4, <5>2 DEF Canonical
        <5>3. CASE alias[b] # None
          <6>1. alias[b] \in Copies /\ b \in {alias[b].canonical, alias[b].other}
            BY <5>1, <5>3 DEF TypeOK
          <6>2. r.to = alias[b].canonical
            BY <4>4, <5>3 DEF Canonical
          <6> QED
            BY <4>4, <6>1, <6>2
        <5> QED
          BY <5>2, <5>3
      <4> QED
        BY <1>4, <3>3, <3>4, <3>6, <4>1, <4>3, <4>4
    <3> QED
      BY <3>5, <3>6
  <2> QED
    BY <2>1, <2>2
<1>6. Called[d] \in urls
  BY DEF UrlsOf
<1>7. \A name : /\ ExternalId(name)' \in Stored' \cup {None}
                /\ name # Called[d] => ExternalId(name)' = ExternalId(name)
  BY WriteFinds
<1>8. ASSUME NEW r \in rows, NEW s, s = fixed[r]
      PROVE  RowFollows(s)'
  <2> DEFINE to == IF r.name \in urls \cap Permalinks THEN ExternalId(r.name)'
                   ELSE IF r.to = None /\ r.name = Called[d] THEN d ELSE r.to
  <2>1. s.to = to /\ s.name = r.name
    <3>1. r \in [from : Docs, to : Docs \cup {None}, name : Names \cup {None}, type : STRING]
      <4>1. CASE r \in Kept(d)
        BY <4>1, TypeOfRow DEF Kept, RowSet
      <4>2. CASE r \in Made(d, t)
        <5>1. PICK link \in Links[d] : r = Row(d, link)
          BY <4>2 DEF Made
        <5>2. link.type \in STRING
          BY <5>1, LinksAssumption
        <5>3. r = [from |-> d, to |-> r.to, name |-> r.name, type |-> link.type]
          BY <5>1 DEF Row
        <5> QED
          BY <1>5, <5>2, <5>3
      <4> QED
        BY <4>1, <4>2
    <3> QED
      BY <1>8, <3>1
  <2>2. /\ r.name = None => to # None
        /\ r.name # None /\ to # None => to \in Stored'
        /\ r.name \in Permalinks => to \in {None, ExternalId(r.name)'}
        /\ r.name \in Names \ Permalinks =>
             /\ to = None => \A b \in Stored' : Called[b] # r.name
             /\ to # None => \/ Called[to] = r.name
                             \/ \E p \in Copies : to = p.canonical /\ r.name = Called[p.other]
    <3> HIDE DEF rows, urls
    <3>1. CASE r.name \in urls \cap Permalinks
      BY <1>7, <3>1, UrlsAreNames
    <3>2. CASE r.name \notin urls \cap Permalinks /\ r.to = None /\ r.name = Called[d]
      <4>1. to = d /\ d \in Stored' /\ d # None /\ r.name \notin Permalinks
        BY <1>1, <1>4, <1>6, <3>2
      <4>2. r.name # None
        BY <1>5, <3>2
      <4> HIDE DEF to
      <4> QED
        BY <3>2, <4>1, <4>2
    <3>3. CASE r.name \notin urls \cap Permalinks /\ ~(r.to = None /\ r.name = Called[d])
      <4>1. to = r.to
        BY <3>3
      <4>2. r.name \in Permalinks => r.name # Called[d]
        BY <1>6, <3>3
      <4> HIDE DEF to
      <4> QED
        BY <1>5, <1>7, <3>3, <4>1, <4>2
    <3> QED
      BY <3>1, <3>2, <3>3
  <2> HIDE DEF to
  <2> QED
    BY <2>1, <2>2 DEF RowFollows
<1> HIDE DEF rows, fixed
<1>9. \A s \in refs' : RowFollows(s)'
  BY <1>2, <1>8
<1> QED
  BY <1>3, <1>9 DEF RowsOK

LEMMA RowsStep ==
  ASSUME TypeOK, RowsOK, [Next]_vars
  PROVE  RowsOK'
<1>1. CASE UNCHANGED <<text, refs>>
  BY <1>1, AliasKeepsRows
<1>2. CASE Ask
  BY <1>1, <1>2 DEF Ask, Search, GetReferences, Timeline
<1>3. CASE Find
  BY <1>1, <1>3 DEF Find, StartFind, ReadHit, ReadPullRequests, Found, Return
<1>4. CASE Change
  <2>1. ASSUME NEW p \in Copies, Join(p) \/ Part(p) PROVE RowsOK'
    BY <1>1, <2>1 DEF Join, Part
  <2> QED
    BY <1>4, <2>1, WriteKeepsRows, ResetKeepsRows DEF Change
<1>5. CASE UNCHANGED vars
  BY <1>1, <1>5 DEF vars
<1> QED
  BY <1>2, <1>3, <1>4, <1>5 DEF Next

-----------------------------------------------------------------------------
(* What a search answers.                                                  *)

LimitOf(q) == Least(IF q.limit = None THEN 20 ELSE q.limit, MostHits)

\* The conversations that q asks for.
Wanted(q) ==
  {c \in Stored : /\ Canonical(c) = c
                  /\ \E d \in Conversation(c) : ~q.words \/ text[d] = "word"
                  /\ \E f \in Conversation(c) : Fits(f, q)}

LEMMA LimitIsNat ==
  ASSUME NEW q, q.limit \in Nat \cup {None}
  PROVE  LimitOf(q) \in Nat
<1> DEFINE asked == IF q.limit = None THEN 20 ELSE q.limit
<1>1. asked \in Nat
  OBVIOUS
<1> HIDE DEF asked
<1>2. Least(asked, MostHits) \in Nat
  BY <1>1, DataAssumption, LeastIsLeast
<1> QED
  BY <1>2 DEF asked, LimitOf

LEMMA HitsAreStored ==
  ASSUME NEW q
  PROVE  Best(q) \subseteq Hits(q) /\ Hits(q) \subseteq Stored /\ Stored \subseteq Docs
BY DEF Best, Hits, Matches, Stored

LEMMA BetterIsStrict ==
  ASSUME NEW q, NEW d \in Docs, NEW e \in Docs
  PROVE  /\ ~(Better(q, d, e) /\ Better(q, e, d))
         /\ d # e => Better(q, d, e) \/ Better(q, e, d)
         /\ \A x \in Docs : Better(q, d, e) /\ Better(q, e, x) => Better(q, d, x)
<1>1. \A x \in Docs : Score[x] \in Int /\ x \in Int
  BY DataAssumption
<1>2. CASE q.words
  BY <1>1, <1>2 DEF Better
<1>3. CASE ~q.words
  BY <1>1, <1>3 DEF Better
<1> QED
  BY <1>2, <1>3

\* Each conversation with a hit has one best row.
LEMMA BestOfEach ==
  ASSUME NEW q, q.deduplicate, NEW h \in Hits(q)
  PROVE  \E b \in Best(q) : Canonical(b) = Canonical(h) /\ (b = h \/ Better(q, b, h))
<1> DEFINE G == {e \in Hits(q) : Canonical(e) = Canonical(h)}
           R == {p \in G \X G : Better(q, p[1], p[2])}
<1>1. G \subseteq Docs /\ h \in G
  BY HitsAreStored
<1>2. IsFiniteSet(G)
  BY <1>1, DocsFinite
<1>3. \A a, b \in G : <<a, b>> \in R <=> Better(q, a, b)
  OBVIOUS
<1> HIDE DEF G, R
<1>4. IsStrictOrder(G, R)
  <2>1. \A a, b \in G : a \in Docs /\ b \in Docs
    BY <1>1
  <2> QED
    BY <1>3, <2>1, BetterIsStrict DEF IsStrictOrder
<1>5. Cardinality(G) \in Nat /\ Cardinality(G) # 0
  BY <1>1, <1>2, FS_EmptySet, FS_CardinalityType
<1>6. PICK b \in G : Place(G, R, b) = 1 - 1
  <2>1. 1 \in 1..Cardinality(G)
    BY <1>5
  <2> QED
    BY <1>2, <1>4, <2>1, PlacesAreTaken
<1>7. \A e \in G : <<e, b>> \notin R
  <2> SUFFICES ASSUME NEW e \in G, <<e, b>> \in R PROVE FALSE
    OBVIOUS
  <2>1. Place(G, R, e) < 0
    BY <1>2, <1>4, <1>6, PlaceIsInjective
  <2>2. Place(G, R, e) \in 0..Cardinality(G) - 1
    BY <1>2, <1>4, PlacesAreTaken
  <2> QED
    BY <1>5, <2>1, <2>2
<1>8. \A e \in G : ~Better(q, e, b)
  BY <1>3, <1>7
<1>9. b = h \/ Better(q, b, h)
  BY <1>1, <1>8, BetterIsStrict
<1>10. b \in Best(q)
  BY <1>8 DEF G, Best
<1> QED
  BY <1>9, <1>10 DEF G

\* The best rows are as many as the conversations that are wanted.
LEMMA BestAreWanted ==
  ASSUME TypeOK, NEW q, q.deduplicate
  PROVE  /\ IsFiniteSet(Best(q))
         /\ Cardinality(Best(q)) = Cardinality(Wanted(q))
         /\ \A d \in Best(q) : Canonical(d) \in Wanted(q)
         /\ \A d, e \in Best(q) : Canonical(d) = Canonical(e) => d = e
<1> DEFINE B == Best(q)
           W == Wanted(q)
           f == [d \in B |-> Canonical(d)]
<1>1. B \subseteq Docs /\ IsFiniteSet(B)
  BY HitsAreStored, DocsFinite
<1>2. ASSUME NEW d \in B PROVE Canonical(d) \in W
  <2>1. d \in Stored /\ d \in Matches(q) /\ d \in Docs
    BY HitsAreStored DEF Best, Hits
  <2>2. /\ Canonical(Canonical(d)) = Canonical(d)
        /\ Canonical(d) \in Stored
    BY <2>1, CanonicalStands
  <2>3. d \in Conversation(Canonical(d)) /\ (~q.words \/ text[d] = "word")
    BY <2>1 DEF Conversation, Matches
  <2>4. \E e \in Conversation(Canonical(d)) : Fits(e, q)
    BY DEF Best, Hits
  <2> QED
    BY <2>2, <2>3, <2>4 DEF Wanted
<1>3. ASSUME NEW d \in B, NEW e \in B, Canonical(d) = Canonical(e) PROVE d = e
  <2>1. d \in Hits(q) /\ e \in Hits(q) /\ d \in Docs /\ e \in Docs
    BY <1>1, HitsAreStored
  <2>2. ~Better(q, e, d) /\ ~Better(q, d, e)
    BY <1>3, <2>1 DEF Best
  <2> QED
    BY <2>1, <2>2, BetterIsStrict
<1>4. ASSUME NEW c \in W PROVE \E d \in B : Canonical(d) = c
  <2>1. PICK d \in Conversation(c) : ~q.words \/ text[d] = "word"
    BY DEF Wanted
  <2>2. PICK e \in Conversation(c) : Fits(e, q)
    BY DEF Wanted
  <2>3. d \in Matches(q) /\ Canonical(d) = c
    BY <2>1 DEF Conversation, Matches
  <2>4. d \in Hits(q)
    BY <2>2, <2>3 DEF Hits
  <2> QED
    BY <2>3, <2>4, BestOfEach
<1>5. f \in Surjection(B, W) /\ f \in Injection(B, W)
  <2>1. f \in [B -> W]
    BY <1>2
  <2>2. \A c \in W : \E d \in B : f[d] = c
    BY <1>4
  <2>3. \A d, e \in B : f[d] = f[e] => d = e
    BY <1>3
  <2> HIDE DEF f, B, W
  <2> QED
    BY <2>1, <2>2, <2>3 DEF Surjection, Injection, IsInjective
<1>6. Cardinality(B) = Cardinality(W)
  <2> HIDE DEF f, B, W
  <2>1. Cardinality(W) = Cardinality(B) <=> f \in Injection(B, W)
    BY <1>1, <1>5, FS_Surjection
  <2> QED
    BY <1>5, <2>1
<1> QED
  BY <1>1, <1>2, <1>3, <1>6

\* The contract of a search, for the rows that it ranks and the ids it returns.
IsAnswer(q, matched, ids) ==
  LET found == {ids[i] : i \in DOMAIN ids}
  IN  /\ ids \in Seq(Wanted(q))
      /\ \A i, j \in DOMAIN ids : ids[i] = ids[j] => i = j
      /\ Cardinality(found) = Len(ids)
      /\ found \subseteq Wanted(q)
      /\ Len(ids) = Least(LimitOf(q), Cardinality(Wanted(q)))
      /\ \A c \in Wanted(q) \ found : \A d \in Matches(q) \cap Conversation(c) :
           \A i \in DOMAIN matched : ~Better(q, d, matched[i]) \/ ~q.words

LEMMA SearchIsComplete ==
  ASSUME TypeOK, NEW q, q.limit \in Nat \cup {None}, q.deduplicate
  PROVE  IsAnswer(q, Ranked(q), Ids(q))
<1> SUFFICES ASSUME NEW matched, matched = Ranked(q), NEW ids, ids = Ids(q)
             PROVE  IsAnswer(q, matched, ids)
  OBVIOUS
<1> DEFINE found == {ids[i] : i \in DOMAIN ids}
           B == Best(q)
           R == Order(q, B)
           n == LimitOf(q)
<1>1. B \subseteq Docs /\ IsFiniteSet(B) /\ IsStrictOrder(B, R)
  BY HitsAreStored, DocsFinite, BeforeIsStrict
<1>2. n \in Nat
  BY LimitIsNat
<1>3. matched = Page(Sorted(B, R), n)
  BY DEF Ranked, LimitOf
<1> HIDE DEF R, n
<1>4. /\ Cardinality(B) \in Nat
      /\ Len(matched) = Least(n, Cardinality(B))
      /\ matched \in Seq(B)
      /\ \A i, j \in DOMAIN matched : matched[i] = matched[j] => i = j
      /\ \A d \in B : \/ \E i \in DOMAIN matched : matched[i] = d
                      \/ \A i \in DOMAIN matched : <<matched[i], d>> \in R
  <2> HIDE DEF B
  <2>1. /\ Cardinality(B) \in Nat
        /\ Len(matched) = Least(n, Cardinality(B))
        /\ matched \in Seq(B)
        /\ \A i, j \in DOMAIN matched : i < j => <<matched[i], matched[j]>> \in R
        /\ \A i, j \in DOMAIN matched : matched[i] = matched[j] => i = j
        /\ \A d \in B : \/ \E i \in DOMAIN matched : matched[i] = d
                        \/ /\ Len(matched) = n
                           /\ \A i \in DOMAIN matched : <<matched[i], d>> \in R
    BY <1>1, <1>2, <1>3, PageOfSorted
  <2> QED
    BY <2>1
<1> DEFINE k == Len(matched)
<1>5. k \in Nat /\ DOMAIN matched = 1..k /\ \A i \in 1..k : matched[i] \in B
  BY <1>4
<1>6. ids = [i \in 1..k |-> Canonical(matched[i])]
  BY <1>5 DEF Ids
<1>7. \A i \in 1..k : ids[i] \in Wanted(q)
  BY <1>5, <1>6, BestAreWanted
<1>8. DOMAIN ids = 1..k /\ Len(ids) = k /\ ids \in Seq(Wanted(q))
  <2>1. ids \in [1..k -> Wanted(q)]
    BY <1>6, <1>7
  <2> HIDE DEF k
  <2> QED
    BY <1>5, <2>1
<1>9. found \subseteq Wanted(q)
  BY <1>7, <1>8
<1>10. \A i, j \in 1..k : ids[i] = ids[j] => i = j
  BY <1>4, <1>5, <1>6, BestAreWanted
<1>11. Cardinality(found) = k
  <2>1. ids \in Surjection(1..k, found) /\ ids \in Injection(1..k, found)
    <3>1. ids \in [1..k -> found]
      BY <1>6, <1>8
    <3>2. \A c \in found : \E i \in 1..k : ids[i] = c
      BY <1>8
    <3> HIDE DEF found, k
    <3> QED
      BY <1>10, <3>1, <3>2 DEF Surjection, Injection, IsInjective
  <2> HIDE DEF found, k
  <2>2. IsFiniteSet(1..k) /\ Cardinality(1..k) = k
    BY <1>5, FS_Interval
  <2>3. Cardinality(found) = Cardinality(1..k) <=> ids \in Injection(1..k, found)
    BY <2>1, <2>2, FS_Surjection
  <2> QED
    BY <2>1, <2>2, <2>3
<1>12. ASSUME NEW c \in Wanted(q) \ found, NEW d \in Matches(q) \cap Conversation(c),
              NEW i \in DOMAIN matched, q.words
       PROVE  ~Better(q, d, matched[i])
  <2>1. Canonical(d) = c
    BY DEF Conversation
  <2>2. d \in Hits(q)
    <3>1. PICK e \in Conversation(c) : Fits(e, q)
      BY DEF Wanted
    <3> QED
      BY <2>1, <3>1 DEF Hits
  <2>3. PICK b \in B : Canonical(b) = c /\ (b = d \/ Better(q, b, d))
    BY <2>1, <2>2, BestOfEach
  <2>4. ~\E j \in DOMAIN matched : matched[j] = b
    <3> SUFFICES ASSUME NEW j \in DOMAIN matched, matched[j] = b PROVE FALSE
      OBVIOUS
    <3>1. ids[j] = c /\ j \in DOMAIN ids
      BY <1>5, <1>6, <1>8, <2>3
    <3> QED
      BY <3>1
  <2>5. <<matched[i], b>> \in R
    BY <1>4, <2>4
  <2>6. Better(q, matched[i], b)
    BY <1>12, <2>5 DEF R, Order, Before
  <2>7. matched[i] \in Docs /\ b \in Docs /\ d \in Docs
    BY <1>1, <1>5, <2>2, HitsAreStored
  <2>8. Better(q, matched[i], d)
    BY <2>3, <2>6, <2>7, BetterIsStrict
  <2> QED
    BY <2>7, <2>8, BetterIsStrict
<1>13. k = Least(n, Cardinality(Wanted(q)))
  BY <1>4, BestAreWanted
<1> HIDE DEF found, k, B
<1> QED
  BY <1>8, <1>9, <1>10, <1>11, <1>12, <1>13 DEF IsAnswer, found, n

-----------------------------------------------------------------------------
(* The answers last until the database changes.                            *)

AnswersOK == AnswerIsComplete /\ ReferencesAreCombined /\ EventsAreConversations

LEMMA SameDatabase ==
  ASSUME UNCHANGED <<text, alias>>
  PROVE  /\ Stored' = Stored
         /\ \A d : Canonical(d)' = Canonical(d)
         /\ \A c : Conversation(c)' = Conversation(c)
         /\ \A q : Matches(q)' = Matches(q)
         /\ \A q : Wanted(q)' = Wanted(q)
         /\ \A a : Mentions(a)' = Mentions(a)
<1>1. Stored' = Stored
  BY DEF Stored
<1>2. \A d : Canonical(d)' = Canonical(d)
  BY DEF Canonical
<1>3. \A c : Conversation(c)' = Conversation(c)
  BY DEF Conversation, Stored, Canonical
<1>4. \A q : Matches(q)' = Matches(q)
  BY DEF Matches, Stored
<1>5. \A q : Wanted(q)' = Wanted(q)
  BY DEF Wanted, Conversation, Stored, Canonical
<1>6. \A a : Mentions(a)' = Mentions(a)
  BY DEF Mentions, Stored
<1> QED
  BY <1>1, <1>2, <1>3, <1>4, <1>5, <1>6

\* What AnswerIsComplete says of the conversations.
SearchAnswered ==
  answer.kind = "search" /\ answer.query.deduplicate =>
    LET q == answer.query
        found == {answer.ids[i] : i \in DOMAIN answer.ids}
    IN  /\ Cardinality(found) = Len(answer.ids)
        /\ found \subseteq Wanted(q)
        /\ Len(answer.ids) = Least(LimitOf(q), Cardinality(Wanted(q)))
        /\ \A c \in Wanted(q) \ found : \A d \in Matches(q) \cap Conversation(c) :
             \A i \in DOMAIN answer.matched : ~Better(q, d, answer.matched[i]) \/ ~q.words

LEMMA CompleteIsOfWanted ==
  /\ AnswerIsComplete <=> KeepsToItsHost /\ SearchAnswered
  /\ AnswerIsComplete' <=> KeepsToItsHost' /\ SearchAnswered'
<1>1. AnswerIsComplete <=> KeepsToItsHost /\ SearchAnswered
  BY DEF AnswerIsComplete, SearchAnswered, Wanted, LimitOf
<1>2. AnswerIsComplete' <=> KeepsToItsHost' /\ SearchAnswered'
  BY DEF AnswerIsComplete, SearchAnswered, Wanted, LimitOf
<1> QED
  BY <1>1, <1>2

\* A database that changes takes the answer with it.
LEMMA NoAnswerIsRight ==
  ASSUME answer' = NoAnswer
  PROVE  AnswersOK'
BY DEF AnswersOK, AnswerIsComplete, KeepsToItsHost, ReferencesAreCombined,
       EventsAreConversations, NoAnswer

LEMMA SameReferences ==
  ASSUME UNCHANGED <<text, alias>>
  PROVE  /\ \A n : ExternalId(n)' = ExternalId(n)
         /\ \A n, d : Meaning(n, d)' = Meaning(n, d)
         /\ \A e : MeaningOf(e)' = MeaningOf(e) /\ OfACopy(e)' = OfACopy(e)
         /\ \A r : Told(r)' = Told(r) /\ Misled(r)' = Misled(r) /\ Late(r)' = Late(r)
<1>1. \A n : {d \in Stored : Called[d] = n}' = {d \in Stored : Called[d] = n}
  BY SameDatabase
<1>2. \A n : ExternalId(n)' = ExternalId(n)
  BY <1>1, SameBearers
<1>3. \A n, d : Meaning(n, d)' = Meaning(n, d)
  BY <1>2, SameDatabase DEF Meaning
<1>4. \A e : MeaningOf(e)' = MeaningOf(e) /\ OfACopy(e)' = OfACopy(e)
  BY <1>2, <1>3, SameDatabase DEF MeaningOf, OfACopy
<1>5. \A r : Told(r)' = Told(r) /\ Misled(r)' = Misled(r) /\ Late(r)' = Late(r)
  BY <1>2, <1>3, SameDatabase DEF Told, Misled, Late
<1> QED
  BY <1>2, <1>3, <1>4, <1>5

\* The rows that should be told of: those that mean the conversation.
Meant(entity, kind) ==
  {r \in refs : Meaning(r.name, r.to) = MeaningOf(entity) /\ (kind = None \/ r.type = kind)}

ReferencesAnswered ==
  answer.kind = "references" /\ (\A r \in refs : ~Misled(r)) =>
    LET wanted == {Told(r) : r \in Meant(answer.entity, answer.type)}
    IN  /\ answer.found \subseteq wanted
        /\ (\A r \in refs : ~Late(r)) /\ ~OfACopy(answer.entity) =>
             Cardinality(answer.found) = Least(ReferenceLimit(answer.limit), Cardinality(wanted))

LEMMA CombinedIsOfMeant ==
  /\ ReferencesAreCombined <=> ReferencesAnswered
  /\ ReferencesAreCombined' <=> ReferencesAnswered'
<1>1. ReferencesAreCombined <=> ReferencesAnswered
  BY DEF ReferencesAreCombined, ReferencesAnswered, Meant
<1>2. ReferencesAreCombined' <=> ReferencesAnswered'
  BY DEF ReferencesAreCombined, ReferencesAnswered, Meant
<1> QED
  BY <1>1, <1>2

LEMMA SameAnswers ==
  ASSUME AnswersOK, UNCHANGED <<text, alias, refs, answer>>
  PROVE  AnswersOK'
<1>1. AnswerIsComplete'
  <2>1. KeepsToItsHost /\ SearchAnswered
    BY CompleteIsOfWanted DEF AnswersOK
  <2>2. KeepsToItsHost'
    BY <2>1 DEF KeepsToItsHost
  <2>3. SearchAnswered'
    BY <2>1, SameDatabase DEF SearchAnswered
  <2> QED
    BY <2>2, <2>3, CompleteIsOfWanted
<1>2. ReferencesAreCombined'
  <2>1. ReferencesAnswered
    BY CombinedIsOfMeant DEF AnswersOK
  <2>2. \A e, k : Meant(e, k)' = Meant(e, k)
    BY SameReferences DEF Meant
  <2>3. ReferencesAnswered'
    BY <2>1, <2>2, SameReferences DEF ReferencesAnswered
  <2> QED
    BY <2>3, CombinedIsOfMeant
<1>3. EventsAreConversations'
  BY SameDatabase DEF AnswersOK, EventsAreConversations
<1> QED
  BY <1>1, <1>2, <1>3 DEF AnswersOK

LEMMA SearchAnswers ==
  ASSUME TypeOK, NEW q \in Queries, Search(q)
  PROVE  AnswersOK'
<1>1. UNCHANGED <<text, alias, refs>>
  BY DEF Search
<1>0. q.limit \in Nat \cup {None}
  BY DataAssumption DEF Queries
<1>2. CASE ~q.words /\ ~HasFilter(q)
  <2>1. answer' = [kind |-> "error"]
    BY <1>2 DEF Search
  <2> QED
    BY <2>1 DEF AnswersOK, AnswerIsComplete, KeepsToItsHost, ReferencesAreCombined,
                EventsAreConversations
<1>3. CASE q.words \/ HasFilter(q)
  <2>1. answer' = [kind |-> "search", query |-> q, matched |-> Ranked(q), ids |-> Ids(q)]
    BY <1>3 DEF Search
  <2> DEFINE matched == Ranked(q)
             ids == Ids(q)
  <2>2. /\ answer'.kind = "search" /\ answer'.query = q
        /\ answer'.matched = matched /\ answer'.ids = ids
    BY <2>1
  <2>3. SearchAnswered'
    <3> SUFFICES ASSUME q.deduplicate PROVE SearchAnswered'
      BY <2>2 DEF SearchAnswered
    <3>1. IsAnswer(q, matched, ids)
      BY <1>0, SearchIsComplete
    <3> HIDE DEF matched, ids
    <3> QED
      BY <1>1, <2>2, <3>1, SameDatabase DEF SearchAnswered, IsAnswer
  <2>4. ASSUME ~q.deduplicate, q.repos # {}, NEW i \in DOMAIN ids
        PROVE  Repo[ids[i]] \in {NameOf[r] : r \in q.repos}
    <3>1. Best(q) \subseteq Docs /\ IsFiniteSet(Best(q)) /\ IsStrictOrder(Best(q), Order(q, Best(q)))
      BY HitsAreStored, DocsFinite, BeforeIsStrict
    <3>2. LimitOf(q) \in Nat /\ matched = Page(Sorted(Best(q), Order(q, Best(q))), LimitOf(q))
      BY <1>0, LimitIsNat DEF Ranked, LimitOf
    <3> HIDE DEF matched
    <3>3. matched \in Seq(Best(q))
      BY <3>1, <3>2, PageOfSorted
    <3>4. i \in DOMAIN matched /\ ids[i] = matched[i]
      BY <2>4 DEF Ids, matched
    <3>5. ids[i] \in Hits(q)
      BY <3>3, <3>4, HitsAreStored
    <3>6. Fits(ids[i], q)
      BY <2>4, <3>5 DEF Hits
    <3> QED
      BY <2>4, <3>6 DEF Fits, ReposOf
  <2> HIDE DEF matched, ids
  <2>5. KeepsToItsHost'
    BY <2>2, <2>4 DEF KeepsToItsHost
  <2>6. ReferencesAreCombined' /\ EventsAreConversations'
    BY <2>2 DEF ReferencesAreCombined, EventsAreConversations
  <2> QED
    BY <2>3, <2>5, <2>6, CompleteIsOfWanted DEF AnswersOK
<1> QED
  BY <1>2, <1>3

\* RowsFollow, said of each row, follows from what the rows are kept to.
LEMMA RowsAreFollowed ==
  ASSUME TypeOK, RowsOK
  PROVE  RowsFollow
<1>1. ASSUME NEW r \in refs, Late(r)
      PROVE  r.name \in Permalinks
  <2>1. r \in RowSet /\ RowFollows(r)
    BY TypeOfRow DEF RowsOK
  <2>2. r.to = None /\ r.name \in Names /\ ExternalId(r.name) # None
    BY <1>1, <2>1 DEF Late, RowFollows, RowSet
  <2> SUFFICES ASSUME r.name \notin Permalinks PROVE FALSE
    OBVIOUS
  <2>3. \E b \in Stored : Called[b] = r.name
    BY <2>2, ExternalIdFinds
  <2> QED
    BY <2>1, <2>2, <2>3 DEF RowFollows
<1>2. ASSUME NEW r \in refs, Misled(r)
      PROVE  \E p \in Copies : r.to = p.canonical /\ r.name = Called[p.other]
  <2>1. r \in RowSet /\ RowFollows(r)
    BY TypeOfRow DEF RowsOK
  <2>2. r.name \in Names /\ r.to \in Stored /\ Canonical(r.to) # Meaning(r.name, r.to) /\ r.to # None
    BY <1>2, <2>1 DEF Misled, RowFollows, RowSet
  <2>3. r.to \in Docs /\ Stored \subseteq Docs
    BY <2>2 DEF Stored
  <2>4. Canonical(r.to) \in Docs /\ Canonical(Canonical(r.to)) = Canonical(r.to)
    BY <2>3, CanonicalType, CanonicalStands
  <2>5. ExternalId(r.name) \notin {r.to, Canonical(r.to)}
    BY <2>2, <2>3, <2>4, UrlsAreNames DEF Meaning
  <2>6. r.name \notin Permalinks
    BY <2>1, <2>2, <2>5 DEF RowFollows
  <2>7. Called[r.to] # r.name
    BY <2>2, <2>5, <2>6, ExternalIdFinds, UrlsAreNames
  <2> QED
    BY <2>1, <2>2, <2>6, <2>7 DEF RowFollows
<1> QED
  BY <1>1, <1>2 DEF RowsFollow

\* A row that is not misled is returned as what it means; it is of the group
\* of what it means too, unless it is late.
LEMMA RowTells ==
  ASSUME TypeOK, RowsOK, NEW r \in refs, ~Misled(r)
  PROVE  /\ Combined(r) = Told(r)
         /\ ~Late(r) => Group(r) = Told(r)
         /\ r.to # None => Meaning(r.name, r.to) = Canonical(r.to)
         /\ r.to = None /\ ~Late(r) => Meaning(r.name, r.to) = r.name
         /\ r.to = None => r.name \in Names
<1>1. r \in RowSet /\ RowFollows(r)
  BY TypeOfRow DEF RowsOK
<1>2. /\ r.name \in Names \cup {None} /\ r.to \in Docs \cup {None}
      /\ r.name = None => r.to # None
      /\ r.name \in Permalinks => r.to \in {None, ExternalId(r.name)}
  BY <1>1 DEF RowSet, RowFollows
<1>3. r.to # None => Meaning(r.name, r.to) = Canonical(r.to)
  <2>1. CASE r.name = None
    BY <2>1 DEF Meaning
  <2>2. CASE r.name # None
    BY <2>2 DEF Misled
  <2> QED
    BY <2>1, <2>2
<1>4. r.to = None => r.name \in Names
  BY <1>2
<1>5. r.to = None /\ ~Late(r) => Meaning(r.name, r.to) = r.name
  BY <1>4, UrlsAreNames DEF Late, Meaning
<1>6. ~Late(r) => Group(r) = Told(r)
  BY <1>3, <1>5 DEF Group, Told
<1>7. Combined(r) = Told(r)
  <2>1. CASE r.to # None /\ r.name \notin Permalinks
    BY <1>3, <2>1 DEF Combined, Target, Told
  <2>2. CASE r.name \in Permalinks \/ r.to = None
    <3>1. r.name \in Names /\ r.name # None
      BY <1>4, <2>2, UrlsAreNames
    <3>2. Target(r) = ExternalId(r.name)
      BY <2>2, <3>1 DEF Target
    <3>3. Meaning(r.name, r.to) =
            IF Target(r) # None THEN Canonical(Target(r)) ELSE r.name
      BY <3>1, <3>2 DEF Meaning
    <3> QED
      BY <3>3 DEF Combined, Told
  <2> QED
    BY <2>1, <2>2
<1> QED
  BY <1>3, <1>4, <1>5, <1>6, <1>7

\* An entity is looked for as the conversation it means, unless it is the URL
\* of a copy, or as itself.
LEMMA EntityMeans ==
  ASSUME TypeOK, NEW entity \in Docs \cup Names
  PROVE  /\ EntityTarget(entity) \in Docs =>
              MeaningOf(entity) = Canonical(EntityTarget(entity)) /\ MeaningOf(entity) \in Docs
         /\ EntityTarget(entity) \in Docs /\ ~OfACopy(entity) => MeaningOf(entity) = EntityTarget(entity)
         /\ EntityTarget(entity) \notin Docs =>
              entity \in Names /\ EntityTarget(entity) = entity /\ MeaningOf(entity) = entity
<1>1. CASE entity \in Docs
  BY <1>1, CanonicalType, CanonicalStands DEF EntityTarget, MeaningOf, Meaning
<1>2. CASE entity \notin Docs /\ ExternalId(entity) # None
  <2> DEFINE e == ExternalId(entity)
  <2>1. e \in Docs /\ entity \in Names /\ entity # None
    BY <1>2, ExternalIdFinds, UrlsAreNames DEF Stored
  <2>2. Canonical(e) \in Docs
    BY <2>1, CanonicalType
  <2>3. EntityTarget(entity) = e /\ MeaningOf(entity) = Canonical(e)
    BY <1>2, <2>1 DEF EntityTarget, MeaningOf, Meaning
  <2>4. entity \notin Permalinks => Canonical(e) = e
    <3> SUFFICES ASSUME entity \notin Permalinks PROVE Canonical(e) = e
      OBVIOUS
    <3>1. PICK b \in Stored : e = Canonical(b)
      BY <1>2, ExternalIdFinds
    <3>2. b \in Docs
      BY <3>1 DEF Stored
    <3> QED
      BY <3>1, <3>2, CanonicalStands
  <2>5. ~OfACopy(entity) => Canonical(e) = e
    BY <1>2, <2>4 DEF OfACopy
  <2> QED
    BY <2>1, <2>2, <2>3, <2>5
<1>3. CASE entity \notin Docs /\ ExternalId(entity) = None
  BY <1>3, UrlsAreNames DEF EntityTarget, MeaningOf, Meaning
<1> QED
  BY <1>1, <1>2, <1>3

\* The rows of the query mean what is asked for; and those that mean it are
\* rows of the query unless they are late.
LEMMA RowsMean ==
  ASSUME TypeOK, RowsOK, NEW entity \in Docs \cup Names, NEW kind,
         \A r \in refs : ~Misled(r)
  PROVE  /\ RowsOf(entity, kind) \subseteq Meant(entity, kind)
         /\ (\A r \in refs : ~Late(r)) /\ ~OfACopy(entity) =>
              Meant(entity, kind) \subseteq RowsOf(entity, kind)
<1> DEFINE target == EntityTarget(entity)
           meaning == MeaningOf(entity)
<1>1. /\ target \in Docs => meaning = Canonical(target) /\ meaning \in Docs
      /\ target \in Docs /\ ~OfACopy(entity) => meaning = target
      /\ target \notin Docs => entity \in Names /\ target = entity /\ meaning = entity
  BY EntityMeans
<1>2. ASSUME NEW r \in refs
      PROVE  /\ r.to # None => Meaning(r.name, r.to) = Canonical(r.to)
             /\ r.to = None /\ ~Late(r) => Meaning(r.name, r.to) = r.name
             /\ r.to = None => r.name \in Names
             /\ r.to # None => Canonical(r.to) \in Docs /\ Canonical(Canonical(r.to)) = Canonical(r.to)
             /\ r.name = entity => Meaning(r.name, r.to) = meaning
  <2>1. r \in RowSet
    BY TypeOfRow
  <2>2. r.to # None => Canonical(r.to) \in Docs /\ Canonical(Canonical(r.to)) = Canonical(r.to)
    BY <2>1, CanonicalType, CanonicalStands DEF RowSet
  <2>3. r.name = entity => entity \notin Docs /\ entity # None
    BY <2>1, UrlsAreNames DEF RowSet
  <2>4. r.name = entity => Meaning(r.name, r.to) = meaning
    BY <2>3 DEF MeaningOf, Meaning
  <2> QED
    BY <2>2, <2>4, RowTells
<1> HIDE DEF target, meaning
<1>3. ASSUME NEW r \in refs, r.name = entity \/ (r.to # None /\ Canonical(r.to) = target)
      PROVE  Meaning(r.name, r.to) = meaning
  <2>1. CASE r.name = entity
    BY <1>2, <2>1
  <2>2. CASE r.to # None /\ Canonical(r.to) = target
    BY <1>1, <1>2, <2>2
  <2> QED
    BY <1>3, <2>1, <2>2
<1>4. ASSUME NEW r \in refs, ~Late(r), ~OfACopy(entity), Meaning(r.name, r.to) = meaning
      PROVE  r.name = entity \/ (r.to # None /\ Canonical(r.to) = target)
  <2>1. CASE r.to # None
    <3>1. Canonical(r.to) = meaning /\ meaning \in Docs
      BY <1>2, <1>4, <2>1
    <3>2. target \in Docs
      BY <1>1, <3>1, UrlsAreNames
    <3> QED
      BY <1>1, <1>4, <2>1, <3>1, <3>2
  <2>2. CASE r.to = None
    <3>1. r.name = meaning /\ r.name \in Names
      BY <1>2, <1>4, <2>2
    <3>2. target \notin Docs
      BY <1>1, <3>1, UrlsAreNames
    <3> QED
      BY <1>1, <3>1, <3>2
  <2> QED
    BY <2>1, <2>2
<1> QED
  BY <1>3, <1>4 DEF RowsOf, Meant, target, meaning

\* One row of each of some groups: the groups are as many as the rows.
LEMMA GroupsOfPage ==
  ASSUME NEW page, IsFiniteSet(page), \A r, s \in page : Group(r) = Group(s) => r = s
  PROVE  Cardinality({Group(r) : r \in page}) = Cardinality(page)
<1> DEFINE f == [r \in page |-> Group(r)]
           T == {Group(r) : r \in page}
<1>1. f \in Bijection(page, T)
  BY DEF Bijection, Injection, IsInjective, Surjection
<1>2. ExistsBijection(page, T)
  BY <1>1 DEF ExistsBijection
<1> HIDE DEF T
<1>3. Cardinality(T) = Cardinality(page)
  BY <1>2, FS_Bijection
<1> QED
  BY <1>3 DEF T

LEMMA ReferencesAnswer ==
  ASSUME TypeOK, RowsOK, NEW entity \in Docs \cup Names, NEW kind, NEW limit,
         GetReferences(entity, kind, limit)
  PROVE  AnswersOK'
<1> DEFINE rows == RowsOf(entity, kind)
           meant == Meant(entity, kind)
           size == Least(ReferenceLimit(limit), Cardinality({Group(r) : r \in rows}))
<1>1. UNCHANGED <<text, alias, refs>>
  BY DEF GetReferences
<1>2. PICK page \in kSubset(size, rows) :
        /\ \A r, s \in page : Group(r) = Group(s) => r = s
        /\ answer' = [kind |-> "references", entity |-> entity, type |-> kind,
                      limit |-> limit, found |-> {Combined(r) : r \in page}]
  BY DEF GetReferences
<1>3. /\ answer'.kind = "references" /\ answer'.entity = entity /\ answer'.type = kind
      /\ answer'.limit = limit /\ answer'.found = {Combined(r) : r \in page}
  BY <1>2
<1>4. rows \subseteq refs /\ meant \subseteq refs
  BY DEF RowsOf, Meant
<1> HIDE DEF rows, meant
<1>5. page \subseteq rows /\ Cardinality(page) = size
  BY <1>2 DEF kSubset
<1>6. IsFiniteSet(page)
  <2>1. page \subseteq refs
    BY <1>4, <1>5
  <2> QED
    BY <2>1, FS_Subset DEF RowsOK
<1>7. ASSUME \A r \in refs : ~Misled(r)
      PROVE  /\ {Combined(r) : r \in page} \subseteq {Told(r) : r \in meant}
             /\ (\A r \in refs : ~Late(r)) /\ ~OfACopy(entity) =>
                  Cardinality({Combined(r) : r \in page}) =
                    Least(ReferenceLimit(limit), Cardinality({Told(r) : r \in meant}))
  <2>1. /\ rows \subseteq meant
        /\ (\A r \in refs : ~Late(r)) /\ ~OfACopy(entity) => meant \subseteq rows
    BY <1>7, RowsMean DEF rows, meant
  <2>2. \A r \in refs : Combined(r) = Told(r) /\ (~Late(r) => Group(r) = Told(r))
    BY <1>7, RowTells
  <2>3. {Combined(r) : r \in page} \subseteq {Told(r) : r \in meant}
    BY <1>4, <1>5, <2>1, <2>2
  <2>4. ASSUME \A r \in refs : ~Late(r), ~OfACopy(entity)
        PROVE  Cardinality({Combined(r) : r \in page}) =
                 Least(ReferenceLimit(limit), Cardinality({Told(r) : r \in meant}))
    <3>1. meant = rows
      BY <2>1, <2>4
    <3>2. {Combined(r) : r \in page} = {Group(r) : r \in page}
      <4>1. \A r \in page : Combined(r) = Group(r)
        BY <1>4, <1>5, <2>2, <2>4
      <4> QED
        BY <4>1
    <3>3. {Group(r) : r \in rows} = {Told(r) : r \in meant}
      <4>1. \A r \in rows : Group(r) = Told(r)
        BY <1>4, <2>2, <2>4
      <4> QED
        BY <3>1, <4>1
    <3>4. Cardinality({Group(r) : r \in page}) = size
      BY <1>2, <1>5, <1>6, GroupsOfPage
    <3> QED
      BY <3>2, <3>3, <3>4
  <2> QED
    BY <2>3, <2>4
<1>8. ReferencesAnswered'
  <2>1. Meant(entity, kind)' = meant
    BY <1>1, SameReferences DEF Meant, meant
  <2>2. (\A r \in refs : ~Misled(r))' <=> \A r \in refs : ~Misled(r)
    BY <1>1, SameReferences
  <2>3. /\ (\A r \in refs : ~Late(r))' <=> \A r \in refs : ~Late(r)
        /\ OfACopy(entity)' = OfACopy(entity)
        /\ \A r : Told(r)' = Told(r)
    BY <1>1, SameReferences
  <2> QED
    BY <1>3, <1>7, <2>1, <2>2, <2>3 DEF ReferencesAnswered
<1>9. ReferencesAreCombined'
  BY <1>8, CombinedIsOfMeant
<1>10. AnswerIsComplete' /\ EventsAreConversations'
  BY <1>3 DEF AnswerIsComplete, KeepsToItsHost, EventsAreConversations
<1> QED
  BY <1>9, <1>10 DEF AnswersOK

LEMMA TimelineAnswers ==
  ASSUME TypeOK, NEW after, Timeline(after)
  PROVE  AnswersOK'
<1> DEFINE S == Mentioned(after)
           events == Events(after)
<1>1. UNCHANGED <<text, alias, refs>>
  BY DEF Timeline
<1>2. /\ answer'.kind = "timeline" /\ answer'.after = after
      /\ answer'.events = events
  BY DEF Timeline
<1>3. S \subseteq Docs /\ IsFiniteSet(S) /\ IsStrictOrder(S, Earlier(after))
  BY EarlierIsStrict, DocsFinite
<1>4. EventLimit \in Nat /\ events = Page(Sorted(S, Earlier(after)), EventLimit)
  BY DataAssumption DEF Events
<1> HIDE DEF S, events
<1>5. /\ events \in Seq(S)
      /\ \A i, j \in DOMAIN events : events[i] = events[j] => i = j
      /\ \A d \in S : \/ \E i \in DOMAIN events : events[i] = d
                      \/ Len(events) = EventLimit
  <2>1. PICK R : R = Earlier(after)
    OBVIOUS
  <2>2. PICK T : T = S
    OBVIOUS
  <2>3. IsFiniteSet(T) /\ IsStrictOrder(T, R) /\ EventLimit \in Nat
        /\ events = Page(Sorted(T, R), EventLimit)
    BY <1>3, <1>4, <2>1, <2>2
  <2>4. /\ events \in Seq(T)
        /\ \A i, j \in DOMAIN events : events[i] = events[j] => i = j
        /\ \A d \in T : \/ \E i \in DOMAIN events : events[i] = d
                        \/ Len(events) = EventLimit
    BY ONLY <2>3, PageOfSorted
  <2> QED
    BY <2>2, <2>4
<1>6. \A c \in S : Canonical(c) = c
  BY CanonicalStands DEF S, Mentioned, Mentions, Stored
<1>7. \A i \in DOMAIN events : events[i] \in S
  BY <1>5
<1>8. \A d \in Mentions(after) :
        Len(events) < EventLimit => Canonical(d) \in {events[i] : i \in DOMAIN events}
  <2> SUFFICES ASSUME NEW d \in Mentions(after), Len(events) < EventLimit
               PROVE  \E i \in DOMAIN events : events[i] = Canonical(d)
    OBVIOUS
  <2>1. Canonical(d) \in S
    BY DEF S, Mentioned
  <2>2. Len(events) # EventLimit
    BY <1>4, <1>5
  <2> QED
    BY <1>5, <2>1, <2>2
<1>9. EventsAreConversations'
  BY <1>1, <1>2, <1>5, <1>6, <1>7, <1>8, SameDatabase DEF EventsAreConversations
<1>10. AnswerIsComplete' /\ ReferencesAreCombined'
  BY <1>2 DEF AnswerIsComplete, KeepsToItsHost, ReferencesAreCombined
<1> QED
  BY <1>9, <1>10 DEF AnswersOK

LEMMA AnswersStep ==
  ASSUME TypeOK, RowsOK, AnswersOK, [Next]_vars
  PROVE  AnswersOK'
<1>1. CASE Ask
  BY <1>1, SearchAnswers, ReferencesAnswer, TimelineAnswers DEF Ask
<1>2. CASE Find
  BY <1>2, SameAnswers DEF Find, StartFind, ReadHit, ReadPullRequests, Found, Return
<1>3. CASE Change
  <2>1. answer' = NoAnswer
    BY <1>3 DEF Change, Write, Join, Part, Reset
  <2> QED
    BY <2>1, NoAnswerIsRight
<1>4. CASE UNCHANGED vars
  BY <1>4, SameAnswers DEF vars
<1> QED
  BY <1>1, <1>2, <1>3, <1>4 DEF Next

-----------------------------------------------------------------------------
(* The steps of find_commit.                                               *)

ContextSet == [hit : Docs, doc : Docs, prs : Seq(Docs)]

FindingSet ==
  [phase : {"reading", "prs", "done"}, hits : Seq(Docs), next : Nat \ {0},
   contexts : Seq(ContextSet), joined : BOOLEAN, lost : SUBSET Docs]

\* The hits that have been answered or passed over.
Past(w) == IF w.phase = "prs" THEN w.next ELSE w.next - 1

\* The hits are conversations, each once, and until a pair is joined a hit is
\* the canonical document of its own.
HitsStand(w) ==
  /\ \A i, j \in DOMAIN w.hits : w.hits[i] = w.hits[j] => i = j
  /\ \A i \in DOMAIN w.hits : w.hits[i] \in Stored \cup w.lost
  /\ ~w.joined => \A i \in DOMAIN w.hits : Canonical(w.hits[i]) = w.hits[i]

\* The answers so far are to different hits, and to all that are past but those
\* that were removed.
ContextsFollow(w) ==
  /\ \A i, j \in DOMAIN w.contexts : w.contexts[i].hit = w.contexts[j].hit => i = j
  /\ ~w.joined => \A i \in DOMAIN w.contexts : w.contexts[i].doc = w.contexts[i].hit
  /\ \A j \in DOMAIN w.contexts :
       \E i \in DOMAIN w.hits : i <= Past(w) /\ w.hits[i] = w.contexts[j].hit
  /\ \A i \in DOMAIN w.hits : i <= Past(w) =>
       w.hits[i] \in w.lost \/ \E j \in DOMAIN w.contexts : w.contexts[j].hit = w.hits[i]

PhaseOK(w) ==
  /\ w.next <= Len(w.hits) + 1
  /\ w.phase = "prs" => w.next <= Len(w.hits) /\ w.contexts # <<>>
  /\ w.phase = "done" => w.next > Len(w.hits)

FindingOK ==
  finding # Idle =>
    finding \in FindingSet /\ HitsStand(finding) /\ ContextsFollow(finding) /\ PhaseOK(finding)

LEMMA FindingAnswers ==
  ASSUME FindingOK
  PROVE  EveryHitIsAnswered
<1> SUFFICES ASSUME finding # Idle PROVE EveryHitIsAnswered
  BY DEF EveryHitIsAnswered
<1> DEFINE w == finding
<1>1. w \in FindingSet /\ HitsStand(w) /\ ContextsFollow(w) /\ PhaseOK(w)
  BY DEF FindingOK
<1>2. ASSUME NEW i \in DOMAIN w.contexts, NEW j \in DOMAIN w.contexts,
             i # j, w.contexts[i].doc = w.contexts[j].doc
      PROVE  w.joined
  BY <1>1, <1>2 DEF ContextsFollow
<1>3. ASSUME w.phase = "done", NEW i \in DOMAIN w.hits
      PROVE  \/ w.hits[i] \in w.lost
             \/ \E j \in DOMAIN w.contexts : w.contexts[j].hit = w.hits[i]
  <2>1. w.next > Len(w.hits) /\ w.next \in Nat /\ Len(w.hits) \in Nat /\ i \in 1..Len(w.hits)
    BY <1>1, <1>3 DEF PhaseOK, FindingSet
  <2>2. i <= Past(w)
    BY <1>3, <2>1 DEF Past
  <2> QED
    BY <1>1, <2>2 DEF ContextsFollow
<1> QED
  BY <1>2, <1>3 DEF EveryHitIsAnswered

LEMMA FindingIsOK ==
  ASSUME NEW w, finding' = w,
         w \in FindingSet, HitsStand(w)', ContextsFollow(w), PhaseOK(w)
  PROVE  FindingOK'
BY DEF FindingOK, HitsStand, ContextsFollow, PhaseOK

LEMMA StartIsOK ==
  ASSUME TypeOK, NEW repos, StartFind(repos)
  PROVE  FindingOK'
<1> DEFINE q == CommitQuery(repos)
<1> SUFFICES ASSUME NEW hits, hits = Ids(q),
                    NEW w, w = [phase |-> "reading", hits |-> hits, next |-> 1,
                                contexts |-> <<>>, joined |-> FALSE, lost |-> {}],
                    finding' = w
             PROVE  FindingOK'
  BY DEF StartFind
<1>1. UNCHANGED <<text, alias>>
  BY DEF StartFind
<1>2. q.limit \in Nat \cup {None} /\ q.deduplicate
  BY DataAssumption DEF CommitQuery
<1>3. IsAnswer(q, Ranked(q), hits)
  <2> HIDE DEF q
  <2> QED
    BY <1>2, SearchIsComplete
<1> HIDE DEF q
<1>4. /\ hits \in Seq(Wanted(q))
      /\ \A i, j \in DOMAIN hits : hits[i] = hits[j] => i = j
  BY <1>3 DEF IsAnswer
<1>5. \A i \in DOMAIN hits : hits[i] \in Wanted(q)
  BY <1>4
<1>6. \A c \in Wanted(q) : c \in Stored /\ Canonical(c) = c /\ c \in Docs
  BY DEF Wanted, Stored
<1>7. hits \in Seq(Docs)
  BY <1>4, <1>5, <1>6
<1>8. w \in FindingSet
  BY <1>7 DEF FindingSet
<1>9. /\ w.hits = hits /\ w.next = 1 /\ w.contexts = <<>> /\ w.phase = "reading"
      /\ w.lost = {} /\ w.joined = FALSE
  OBVIOUS
<1>10. HitsStand(w)'
  <2>1. \A i \in DOMAIN hits : hits[i] \in Stored' /\ Canonical(hits[i])' = hits[i]
    BY <1>1, <1>5, <1>6, SameDatabase
  <2> QED
    BY <1>4, <1>9, <2>1 DEF HitsStand
<1>11. Past(w) = 0
  BY <1>9 DEF Past
<1>12. ContextsFollow(w)
  BY <1>7, <1>9, <1>11 DEF ContextsFollow
<1>13. PhaseOK(w)
  BY <1>7, <1>9 DEF PhaseOK
<1> QED
  BY <1>8, <1>10, <1>12, <1>13, FindingIsOK

\* What another task does: joined may rise, the removed are noted.
LEMMA MarkedIsOK ==
  ASSUME FindingOK, finding # Idle, NEW isJoined \in BOOLEAN, NEW removed \in SUBSET Docs,
         finding' = Marked(isJoined, removed),
         Stored \subseteq Stored' \cup removed,
         ~isJoined => \A d \in Docs : Canonical(d) = d => Canonical(d)' = d
  PROVE  /\ FindingOK'
         /\ finding'.phase = finding.phase
<1> SUFFICES ASSUME NEW v, v = finding, NEW w, w = finding'
             PROVE  FindingOK' /\ w.phase = v.phase
  OBVIOUS
<1>1. v \in FindingSet /\ HitsStand(v) /\ ContextsFollow(v) /\ PhaseOK(v)
  BY DEF FindingOK
<1>2. w = [v EXCEPT !.joined = @ \/ isJoined, !.lost = @ \cup removed]
  BY DEF Marked
<1> DEFINE nowJoined == v.joined \/ isJoined
           nowLost == v.lost \cup removed
<1>3. nowJoined \in BOOLEAN /\ nowLost \in SUBSET Docs /\ (~nowJoined => ~v.joined /\ ~isJoined)
  BY <1>1 DEF FindingSet
<1>4. w = [v EXCEPT !.joined = nowJoined, !.lost = nowLost]
  BY <1>2
<1> HIDE DEF nowJoined, nowLost
<1>5. w \in FindingSet
  BY <1>1, <1>3, <1>4 DEF FindingSet
<1>6. /\ w.phase = v.phase /\ w.hits = v.hits /\ w.next = v.next
      /\ w.contexts = v.contexts /\ w.joined = nowJoined /\ w.lost = nowLost
  BY <1>1, <1>4 DEF FindingSet
<1>7. /\ w \in FindingSet
      /\ w.phase = v.phase /\ w.hits = v.hits /\ w.next = v.next
      /\ w.contexts = v.contexts
      /\ w.lost = v.lost \cup removed
  BY <1>5, <1>6 DEF nowLost
<1>8. ~w.joined => ~v.joined /\ ~isJoined
  BY <1>3, <1>6
<1>9. HitsStand(w)'
  <2>1. \A i \in DOMAIN v.hits : v.hits[i] \in Docs
    BY <1>1 DEF FindingSet
  <2>2. \A i \in DOMAIN v.hits : v.hits[i] \in Stored' \cup w.lost
    BY <1>1, <1>7 DEF HitsStand
  <2>3. ~w.joined => \A i \in DOMAIN v.hits : Canonical(v.hits[i])' = v.hits[i]
    BY <1>1, <1>8, <2>1 DEF HitsStand
  <2>4. \A i, j \in DOMAIN v.hits : v.hits[i] = v.hits[j] => i = j
    BY <1>1 DEF HitsStand
  <2> QED
    BY <1>7, <2>2, <2>3, <2>4 DEF HitsStand
<1>10. Past(w) = Past(v)
  BY <1>7 DEF Past
<1>11. ContextsFollow(w)
  BY <1>1, <1>7, <1>8, <1>10 DEF ContextsFollow
<1>12. PhaseOK(w)
  BY <1>1, <1>7 DEF PhaseOK
<1> QED
  BY <1>7, <1>9, <1>11, <1>12, FindingIsOK

LEMMA SameHits ==
  ASSUME NEW w, HitsStand(w), UNCHANGED <<text, alias>>
  PROVE  HitsStand(w)'
BY SameDatabase DEF HitsStand

LEMMA ReadHitIsOK ==
  ASSUME TypeOK, FindingOK, finding # Idle, ReadHit
  PROVE  FindingOK'
<1> SUFFICES ASSUME NEW v, v = finding, NEW w, w = finding'
             PROVE  FindingOK'
  OBVIOUS
<1>1. v \in FindingSet /\ HitsStand(v) /\ ContextsFollow(v) /\ PhaseOK(v)
  BY DEF FindingOK
<1>2. v.phase = "reading" /\ v.next <= Len(v.hits) /\ v.next \in Nat \ {0}
      /\ v.hits \in Seq(Docs)
      /\ v.next \in DOMAIN v.hits /\ v.contexts \in Seq(ContextSet)
  <2>1. v.phase = "reading" /\ v.next <= Len(v.hits)
    BY DEF ReadHit
  <2>2. v.hits \in Seq(Docs) /\ v.next \in Nat \ {0} /\ v.contexts \in Seq(ContextSet)
    BY <1>1 DEF FindingSet
  <2> QED
    BY <2>1, <2>2
<1>3. UNCHANGED <<text, alias>>
  BY DEF ReadHit
<1> DEFINE hit == v.hits[v.next]
           doc == Canonical(hit)
<1>4. hit \in Docs /\ doc \in Docs
  BY <1>2, CanonicalType
<1>5. Past(v) = v.next - 1
  BY <1>2 DEF Past
<1>6. CASE doc \notin Stored
  <2>1. w = [v EXCEPT !.next = @ + 1]
    BY <1>6 DEF ReadHit
  <2>2. w \in FindingSet /\ w.phase = v.phase /\ w.hits = v.hits /\ w.contexts = v.contexts
        /\ w.joined = v.joined /\ w.lost = v.lost /\ w.next = v.next + 1
    <3>1. v \in FindingSet /\ v.next + 1 \in Nat \ {0} /\ w = [v EXCEPT !.next = v.next + 1]
      BY <1>1, <1>2, <2>1
    <3> QED
      BY ONLY <3>1 DEF FindingSet
  <2>3. HitsStand(w)'
    <3>1. HitsStand(w)
      BY <1>1, <2>2 DEF HitsStand
    <3> QED
      BY <1>3, <3>1, SameHits
  <2>4. hit \in v.lost
    <3>1. hit \in Stored \cup v.lost
      BY <1>1, <1>2 DEF HitsStand
    <3>2. hit \notin Stored
      BY <1>4, <1>6, CanonicalStands
    <3> QED
      BY <3>1, <3>2
  <2>5. Past(w) = v.next
    BY <1>2, <2>2 DEF Past
  <2> HIDE DEF hit, doc
  <2>6. ContextsFollow(w)
    <3>1. /\ \A i, j \in DOMAIN v.contexts : v.contexts[i].hit = v.contexts[j].hit => i = j
          /\ ~v.joined => \A i \in DOMAIN v.contexts : v.contexts[i].doc = v.contexts[i].hit
      BY <1>1 DEF ContextsFollow
    <3>2. \A i \in DOMAIN v.hits : i <= v.next <=> i <= v.next - 1 \/ i = v.next
      BY <1>2
    <3>3. \A j \in DOMAIN v.contexts :
            \E i \in DOMAIN v.hits : i <= v.next /\ v.hits[i] = v.contexts[j].hit
      BY <1>1, <1>5, <3>2 DEF ContextsFollow
    <3>4. \A i \in DOMAIN v.hits : i <= v.next =>
            v.hits[i] \in v.lost \/ \E j \in DOMAIN v.contexts : v.contexts[j].hit = v.hits[i]
      BY <1>1, <1>5, <2>4, <3>2 DEF ContextsFollow, hit
    <3> QED
      BY <2>2, <2>5, <3>1, <3>3, <3>4 DEF ContextsFollow
  <2>7. PhaseOK(w)
    BY <1>2, <2>2 DEF PhaseOK
  <2> QED
    BY <2>2, <2>3, <2>6, <2>7, FindingIsOK
<1>7. CASE doc \in Stored
  <2> DEFINE context == [hit |-> hit, doc |-> doc, prs |-> <<>>]
             contexts == Append(v.contexts, context)
             phase == IF Type[doc] = "commit" THEN "prs" ELSE "reading"
             next == IF Type[doc] = "commit" THEN v.next ELSE v.next + 1
             n == Len(v.contexts)
  <2>1. w = [v EXCEPT !.contexts = contexts, !.phase = phase, !.next = next]
    BY <1>7 DEF ReadHit
  <2>2. context \in ContextSet /\ context.hit = hit /\ context.doc = doc
    BY <1>4 DEF ContextSet
  <2> HIDE DEF context
  <2>3. /\ n \in Nat /\ contexts \in Seq(ContextSet)
        /\ DOMAIN contexts = 1..n + 1 /\ DOMAIN v.contexts = 1..n
        /\ contexts[n + 1] = context
        /\ \A j \in 1..n : contexts[j] = v.contexts[j]
        /\ contexts # <<>>
    BY <1>2, <2>2
  <2>4. phase \in {"reading", "prs"} /\ next \in Nat \ {0}
        /\ (phase = "prs" => next = v.next) /\ (phase = "reading" => next = v.next + 1)
    BY <1>2
  <2> HIDE DEF contexts, phase, next, n
  <2>5. w \in FindingSet
    BY <1>1, <2>1, <2>3, <2>4 DEF FindingSet
  <2>6. w.hits = v.hits /\ w.joined = v.joined /\ w.lost = v.lost
        /\ w.contexts = contexts /\ w.phase = phase /\ w.next = next
    BY <1>1, <2>1 DEF FindingSet
  <2>7. HitsStand(w)'
    <3>1. HitsStand(w)
      BY <1>1, <2>6 DEF HitsStand
    <3> QED
      BY <1>3, <3>1, SameHits
  <2>8. Past(w) = v.next
    BY <1>2, <2>4, <2>6 DEF Past
  <2>9. \A j \in 1..n : v.contexts[j].hit # hit
    <3> SUFFICES ASSUME NEW j \in 1..n, v.contexts[j].hit = hit PROVE FALSE
      OBVIOUS
    <3>1. PICK i \in DOMAIN v.hits : i <= v.next - 1 /\ v.hits[i] = hit
      BY <1>1, <1>5, <2>3 DEF ContextsFollow
    <3>2. i = v.next
      BY <1>1, <1>2, <3>1 DEF HitsStand
    <3> QED
      BY <1>2, <3>1, <3>2
  <2>10. ~v.joined => doc = hit
    BY <1>1, <1>2 DEF HitsStand
  <2> HIDE DEF doc
  <2>11. ContextsFollow(w)
    <3>1. /\ \A i, j \in 1..n : v.contexts[i].hit = v.contexts[j].hit => i = j
          /\ ~v.joined => \A i \in 1..n : v.contexts[i].doc = v.contexts[i].hit
          /\ \A j \in 1..n : \E i \in DOMAIN v.hits : i <= v.next - 1 /\ v.hits[i] = v.contexts[j].hit
          /\ \A i \in DOMAIN v.hits : i <= v.next - 1 =>
               v.hits[i] \in v.lost \/ \E j \in 1..n : v.contexts[j].hit = v.hits[i]
      BY <1>1, <1>5, <2>3 DEF ContextsFollow
    <3>2. \A i \in DOMAIN v.hits : i <= v.next <=> i <= v.next - 1 \/ i = v.next
      BY <1>2
    <3>3. \A j \in 1..n + 1 : j \in 1..n \/ j = n + 1
      BY <2>3
    <3>4. 1..n \subseteq 1..n + 1 /\ n + 1 \in 1..n + 1
      BY <2>3
    <3>5. \A i, j \in 1..n + 1 : contexts[i].hit = contexts[j].hit => i = j
      BY <2>2, <2>3, <2>9, <3>1, <3>3
    <3>6. ~v.joined => \A i \in 1..n + 1 : contexts[i].doc = contexts[i].hit
      BY <2>2, <2>3, <2>10, <3>1, <3>3
    <3>7. \A j \in 1..n + 1 : \E i \in DOMAIN v.hits : i <= v.next /\ v.hits[i] = contexts[j].hit
      <4> SUFFICES ASSUME NEW j \in 1..n + 1
                   PROVE  \E i \in DOMAIN v.hits : i <= v.next /\ v.hits[i] = contexts[j].hit
        OBVIOUS
      <4>1. CASE j \in 1..n
        BY <2>3, <3>1, <3>2, <4>1
      <4>2. CASE j = n + 1
        BY <1>2, <2>2, <2>3, <3>2, <4>2
      <4> QED
        BY <3>3, <4>1, <4>2
    <3>8. \A i \in DOMAIN v.hits : i <= v.next =>
            v.hits[i] \in v.lost \/ \E j \in 1..n + 1 : contexts[j].hit = v.hits[i]
      BY <2>2, <2>3, <3>1, <3>2, <3>4
    <3> QED
      BY <2>3, <2>6, <2>8, <3>5, <3>6, <3>7, <3>8 DEF ContextsFollow
  <2>12. PhaseOK(w)
    BY <1>2, <2>3, <2>4, <2>6 DEF PhaseOK
  <2> QED
    BY <2>5, <2>7, <2>11, <2>12, FindingIsOK
<1> QED
  BY <1>6, <1>7

MergesOf(commit) == {Canonical(d) : d \in {e \in Relevant(commit) : MergeOf[e] = commit}}

MergesAhead(commit, prs) ==
  \A i \in DOMAIN prs :
    prs[i] \notin MergesOf(commit) => MergesOf(commit) \subseteq {prs[j] : j \in 1 .. i - 1}

\* The pull requests that merged a commit are listed first.
LEMMA PullRequestsInOrder ==
  ASSUME TypeOK, NEW commit
  PROVE  /\ PullRequestsOf(commit) \in Seq(Docs)
         /\ MergesAhead(commit, PullRequestsOf(commit))
<1> SUFFICES ASSUME NEW prs, prs = PullRequestsOf(commit),
                    NEW merges, merges = MergesOf(commit)
             PROVE  prs \in Seq(Docs) /\ MergesAhead(commit, prs)
  OBVIOUS
<1> DEFINE S == Named(commit)
           R == MergesFirst(commit)
<1>1. S \subseteq Docs /\ IsFiniteSet(S) /\ IsStrictOrder(S, R)
      /\ \A a, b \in S : <<a, b>> \in R => Standing(commit, b) <= Standing(commit, a)
  BY MergesFirstIsStrict, DocsFinite
<1>2. prs = Page(Sorted(S, R), PrLimit) /\ PrLimit \in Nat
  BY DataAssumption DEF PullRequestsOf
<1>3. merges \subseteq S
  BY DEF MergesOf, Named
<1>4. \A c : c \in merges <=> Standing(commit, c) = 2
  <2>1. \A c : c \in merges <=> commit \in {MergeOf[d] : d \in {e \in Relevant(commit) : Canonical(e) = c}}
    BY DEF MergesOf
  <2> QED
    BY <2>1 DEF Standing
<1>5. \A c : Standing(commit, c) \in {0, 1, 2}
  BY DEF Standing
<1> HIDE DEF S, R
<1>6. /\ prs \in Seq(S)
      /\ \A i, j \in DOMAIN prs : i < j => <<prs[i], prs[j]>> \in R
      /\ \A d \in S : \/ \E i \in DOMAIN prs : prs[i] = d
                      \/ \A i \in DOMAIN prs : <<prs[i], d>> \in R
  <2>1. /\ Cardinality(S) \in Nat
        /\ Len(prs) = Least(PrLimit, Cardinality(S))
        /\ prs \in Seq(S)
        /\ \A i, j \in DOMAIN prs : i < j => <<prs[i], prs[j]>> \in R
        /\ \A i, j \in DOMAIN prs : prs[i] = prs[j] => i = j
        /\ \A d \in S : \/ \E i \in DOMAIN prs : prs[i] = d
                        \/ Len(prs) = PrLimit /\ \A i \in DOMAIN prs : <<prs[i], d>> \in R
    BY <1>1, <1>2, PageOfSorted
  <2> QED
    BY <2>1
<1>7. prs \in Seq(Docs)
  BY <1>1, <1>6
<1>8. ASSUME NEW i \in DOMAIN prs, prs[i] \notin merges, NEW c \in merges
      PROVE  c \in {prs[j] : j \in 1 .. i - 1}
  <2>1. prs[i] \in S /\ c \in S
    BY <1>3, <1>6
  <2>2. Standing(commit, c) = 2 /\ Standing(commit, prs[i]) \in {0, 1}
    BY <1>4, <1>5, <1>8
  <2>3. <<prs[i], c>> \notin R
    <3> SUFFICES ASSUME <<prs[i], c>> \in R PROVE FALSE
      OBVIOUS
    <3>1. Standing(commit, c) <= Standing(commit, prs[i])
      BY <1>1, <2>1
    <3> QED
      BY <2>2, <3>1
  <2>4. PICK j \in DOMAIN prs : prs[j] = c
    BY <1>6, <2>1, <2>3
  <2>5. j # i /\ ~(i < j)
    BY <1>6, <1>8, <2>3, <2>4
  <2>6. i \in Nat /\ j \in Nat /\ j >= 1
    BY <1>6
  <2>7. j \in 1 .. i - 1
    BY <2>5, <2>6
  <2> QED
    BY <2>4, <2>7
<1> QED
  BY <1>7, <1>8 DEF MergesAhead

LEMMA ReadPullRequestsIsOK ==
  ASSUME TypeOK, FindingOK, finding # Idle, ReadPullRequests
  PROVE  /\ FindingOK'
         /\ LET last == Len(finding.contexts)
            IN  finding'.contexts[last].prs = PullRequestsOf(finding.contexts[last].doc)
<1> SUFFICES ASSUME NEW v, v = finding, NEW w, w = finding'
             PROVE  /\ FindingOK'
                    /\ w.contexts[Len(v.contexts)].prs = PullRequestsOf(v.contexts[Len(v.contexts)].doc)
  OBVIOUS
<1>1. v \in FindingSet /\ HitsStand(v) /\ ContextsFollow(v) /\ PhaseOK(v)
  BY DEF FindingOK
<1>2. v.phase = "prs" /\ UNCHANGED <<text, alias>>
  BY DEF ReadPullRequests
<1> DEFINE last == Len(v.contexts)
           prs == PullRequestsOf(v.contexts[last].doc)
           contexts == [v.contexts EXCEPT ![last].prs = prs]
<1>3. /\ v.contexts \in Seq(ContextSet) /\ v.hits \in Seq(Docs) /\ v.next \in Nat \ {0}
      /\ last \in DOMAIN v.contexts /\ v.next <= Len(v.hits)
  <2>1. v.contexts \in Seq(ContextSet) /\ v.contexts # <<>>
    BY <1>1, <1>2 DEF FindingSet, PhaseOK
  <2>2. last \in Nat /\ DOMAIN v.contexts = 1..last /\ last # 0
    BY <2>1
  <2>3. last \in DOMAIN v.contexts
    BY <2>2
  <2> QED
    BY <1>1, <1>2, <2>1, <2>3 DEF FindingSet, PhaseOK
<1>4. prs \in Seq(Docs)
  BY PullRequestsInOrder
<1>5. w = [v EXCEPT !.contexts = contexts, !.phase = "reading", !.next = v.next + 1]
  BY DEF ReadPullRequests
<1> HIDE DEF prs
<1>6. /\ contexts \in Seq(ContextSet)
      /\ DOMAIN contexts = DOMAIN v.contexts
      /\ contexts[last].prs = prs
      /\ \A j \in DOMAIN v.contexts :
           contexts[j].hit = v.contexts[j].hit /\ contexts[j].doc = v.contexts[j].doc
  <2>1. \A j \in DOMAIN v.contexts : v.contexts[j] \in ContextSet
    BY <1>3
  <2> DEFINE new == [v.contexts[last] EXCEPT !.prs = prs]
  <2>2. new \in ContextSet /\ new.prs = prs
        /\ new.hit = v.contexts[last].hit /\ new.doc = v.contexts[last].doc
    BY <1>3, <1>4, <2>1 DEF ContextSet
  <2>3. contexts = [v.contexts EXCEPT ![last] = new]
    OBVIOUS
  <2> HIDE DEF new, contexts, last
  <2>4. contexts \in Seq(ContextSet) /\ DOMAIN contexts = DOMAIN v.contexts
        /\ contexts[last] = new
        /\ \A j \in DOMAIN v.contexts : j # last => contexts[j] = v.contexts[j]
    BY <1>3, <2>2, <2>3
  <2> QED
    BY <2>2, <2>4
<1> HIDE DEF contexts
<1>7. w \in FindingSet
  <2> DEFINE next == v.next + 1
  <2>1. next \in Nat \ {0}
    BY <1>3
  <2>2. w = [v EXCEPT !.contexts = contexts, !.phase = "reading", !.next = next]
    BY <1>5
  <2> HIDE DEF next
  <2> QED
    BY <1>1, <1>6, <2>1, <2>2 DEF FindingSet
<1>8. w.hits = v.hits /\ w.joined = v.joined /\ w.lost = v.lost
      /\ w.contexts = contexts /\ w.phase = "reading" /\ w.next = v.next + 1
  BY <1>1, <1>5 DEF FindingSet
<1>9. Past(w) = v.next /\ Past(v) = v.next
  BY <1>2, <1>3, <1>8 DEF Past
<1>10. ContextsFollow(w)
  BY <1>1, <1>6, <1>8, <1>9 DEF ContextsFollow
<1>11. PhaseOK(w)
  BY <1>3, <1>8 DEF PhaseOK
<1>12. HitsStand(w)'
  <2>1. HitsStand(w)
    BY <1>1, <1>8 DEF HitsStand
  <2> QED
    BY <1>2, <2>1, SameHits
<1>13. FindingOK'
  BY <1>7, <1>10, <1>11, <1>12, FindingIsOK
<1> QED
  BY <1>6, <1>8, <1>13 DEF prs

LEMMA FoundIsOK ==
  ASSUME FindingOK, finding # Idle, Found
  PROVE  FindingOK'
<1> SUFFICES ASSUME NEW v, v = finding, NEW w, w = finding'
             PROVE  FindingOK'
  OBVIOUS
<1>1. v \in FindingSet /\ HitsStand(v) /\ ContextsFollow(v) /\ PhaseOK(v)
  BY DEF FindingOK
<1>2. v.phase = "reading" /\ v.next > Len(v.hits) /\ UNCHANGED <<text, alias>>
      /\ w = [v EXCEPT !.phase = "done"]
  BY DEF Found
<1>3. w \in FindingSet
  BY <1>1, <1>2 DEF FindingSet
<1>4. w.hits = v.hits /\ w.joined = v.joined /\ w.lost = v.lost
      /\ w.contexts = v.contexts /\ w.phase = "done" /\ w.next = v.next
  BY <1>1, <1>2 DEF FindingSet
<1>5. Past(w) = Past(v)
  BY <1>2, <1>4 DEF Past
<1>6. ContextsFollow(w) /\ PhaseOK(w)
  BY <1>1, <1>2, <1>4, <1>5 DEF ContextsFollow, PhaseOK
<1>7. HitsStand(w)'
  <2>1. HitsStand(w)
    BY <1>1, <1>4 DEF HitsStand
  <2> QED
    BY <1>2, <2>1, SameHits
<1> QED
  BY <1>3, <1>6, <1>7, FindingIsOK

\* A change of the database that does not touch the running find_commit.
LEMMA ChangeKeepsFinding ==
  ASSUME FindingOK, UNCHANGED finding, Stored \subseteq Stored',
         \A d \in Docs : Canonical(d) = d => Canonical(d)' = d
  PROVE  FindingOK'
<1> SUFFICES ASSUME finding # Idle, NEW w, w = finding, w = finding'
             PROVE  FindingOK'
  BY DEF FindingOK, Idle
<1>1. w \in FindingSet /\ HitsStand(w) /\ ContextsFollow(w) /\ PhaseOK(w)
  BY DEF FindingOK
<1>2. \A i \in DOMAIN w.hits : w.hits[i] \in Docs
  BY <1>1 DEF FindingSet
<1>3. HitsStand(w)'
  BY <1>1, <1>2 DEF HitsStand
<1> QED
  BY <1>1, <1>3, FindingIsOK

LEMMA ChangeIsOK ==
  ASSUME TypeOK, FindingOK, Change
  PROVE  FindingOK' /\ finding'.phase = finding.phase
<1>1. ASSUME NEW d \in Docs, NEW t \in Texts, Write(d, t)
      PROVE  FindingOK' /\ finding'.phase = finding.phase
  <2>1. finding' = finding /\ Stored \subseteq Stored'
    BY <1>1 DEF Write, TypeOK, Stored
  <2>2. \A x \in Docs : Canonical(x)' = Canonical(x)
    BY <1>1 DEF Write, Canonical
  <2> QED
    BY <2>1, <2>2, ChangeKeepsFinding
<1>2. ASSUME NEW p \in Copies, Part(p)
      PROVE  FindingOK' /\ finding'.phase = finding.phase
  <2>1. finding' = finding /\ Stored \subseteq Stored'
    BY <1>2 DEF Part, Stored
  <2>2. \A x \in Docs : alias'[x] = alias[x] \/ alias'[x] = None
    BY <1>2 DEF Part
  <2>3. \A x \in Docs : Canonical(x) = x => Canonical(x)' = x
    BY <2>2 DEF Canonical
  <2> QED
    BY <2>1, <2>3, ChangeKeepsFinding
<1>3. ASSUME finding = Idle, finding' = Idle
      PROVE  FindingOK' /\ finding'.phase = finding.phase
  BY <1>3 DEF FindingOK, Idle
<1>4. ASSUME NEW p \in Copies, Join(p)
      PROVE  FindingOK' /\ finding'.phase = finding.phase
  <2>1. finding' = Marked(TRUE, {}) /\ Stored \subseteq Stored' \cup {}
    BY <1>4 DEF Join, Stored
  <2>2. CASE finding = Idle
    BY <1>3, <2>1, <2>2 DEF Marked
  <2>3. CASE finding # Idle
    <3> DEFINE isJoined == TRUE
               removed == {}
    <3>1. /\ isJoined \in BOOLEAN /\ isJoined /\ removed \in SUBSET Docs
          /\ finding' = Marked(isJoined, removed)
          /\ Stored \subseteq Stored' \cup removed
      BY <2>1
    <3> HIDE DEF isJoined, removed
    <3> QED
      BY <2>3, <3>1, MarkedIsOK
  <2> QED
    BY <2>2, <2>3
<1>5. ASSUME NEW type, Reset(type)
      PROVE  FindingOK' /\ finding'.phase = finding.phase
  <2> DEFINE gone == {d \in Stored : Type[d] = type}
  <2>1. /\ text' = [d \in Docs |-> IF d \in gone THEN "absent" ELSE text[d]]
        /\ alias' = Cascade(gone)
        /\ finding' = Marked(FALSE, gone)
    BY <1>5 DEF Reset
  <2>2. gone \in SUBSET Docs
    BY DEF Stored
  <2> HIDE DEF gone
  <2>3. Stored \subseteq Stored' \cup gone
    BY <2>1 DEF Stored
  <2>4. \A x \in Docs : alias'[x] = alias[x] \/ alias'[x] = None
    BY <2>1 DEF Cascade
  <2>5. \A x \in Docs : Canonical(x) = x => Canonical(x)' = x
    BY <2>4 DEF Canonical
  <2>6. CASE finding = Idle
    BY <1>3, <2>1, <2>6 DEF Marked
  <2>7. CASE finding # Idle
    BY <2>1, <2>2, <2>3, <2>5, <2>7, MarkedIsOK
  <2> QED
    BY <2>6, <2>7
<1> QED
  BY <1>1, <1>2, <1>4, <1>5 DEF Change

LEMMA FindingStep ==
  ASSUME TypeOK, FindingOK, [Next]_vars
  PROVE  FindingOK'
<1>1. ASSUME UNCHANGED <<text, alias, finding>>
      PROVE  FindingOK'
  <2>1. Stored' = Stored /\ \A d \in Docs : Canonical(d)' = Canonical(d)
    BY <1>1, SameDatabase
  <2> QED
    BY <1>1, <2>1, ChangeKeepsFinding
<1>2. CASE Ask
  BY <1>1, <1>2 DEF Ask, Search, GetReferences, Timeline
<1>3. CASE Find
  <2>1. ASSUME finding.phase # "idle" PROVE finding # Idle
    BY <2>1 DEF Idle
  <2>2. CASE \E repos \in Places : StartFind(repos)
    BY <2>2, StartIsOK
  <2>3. CASE ReadHit
    BY <2>1, <2>3, ReadHitIsOK DEF ReadHit
  <2>4. CASE ReadPullRequests
    <3>1. finding # Idle
      BY <2>1, <2>4 DEF ReadPullRequests
    <3> QED
      BY <2>4, <3>1, ReadPullRequestsIsOK
  <2>5. CASE Found
    BY <2>1, <2>5, FoundIsOK DEF Found
  <2>6. CASE Return
    BY <2>6 DEF Return, FindingOK
  <2> QED
    BY <1>3, <2>2, <2>3, <2>4, <2>5, <2>6 DEF Find
<1>4. CASE Change
  BY <1>4, ChangeIsOK
<1>5. CASE UNCHANGED vars
  BY <1>1, <1>5 DEF vars
<1> QED
  BY <1>2, <1>3, <1>4, <1>5 DEF Next

-----------------------------------------------------------------------------
(* The theorems.                                                           *)

IInv == TypeOK /\ RowsOK /\ AnswersOK /\ FindingOK

LEMMA Inductive == Spec => []IInv
<1>1. Init => IInv
  <2> SUFFICES ASSUME Init PROVE IInv
    OBVIOUS
  <2>1. TypeOK
    BY TypeInit
  <2>2. AnswersOK
    BY DEF Init, AnswersOK, AnswerIsComplete, KeepsToItsHost, ReferencesAreCombined,
           EventsAreConversations, NoAnswer
  <2>3. FindingOK
    BY DEF Init, FindingOK
  <2>4. RowsOK
    BY FS_EmptySet DEF Init, RowsOK
  <2> QED
    BY <2>1, <2>2, <2>3, <2>4 DEF IInv
<1>2. IInv /\ [Next]_vars => IInv'
  BY TypeStep, RowsStep, AnswersStep, FindingStep DEF IInv
<1> QED
  BY <1>1, <1>2, PTL DEF Spec

\* A search answers with every conversation that it should, best first, each
\* once and by an id that can be read, or fills its limit.
THEOREM SearchIsRight == Spec => []AnswerIsComplete
<1>1. IInv => AnswerIsComplete
  BY DEF IInv, AnswersOK
<1> QED
  BY <1>1, Inductive, PTL

\* Copies count once wherever references and mentions are counted.
THEOREM CountsAreRight == Spec => []CopiesCountOnce
<1>1. IInv => CopiesCountOnce
  BY RowsAreFollowed DEF IInv, AnswersOK, CopiesCountOnce
<1> QED
  BY <1>1, Inductive, PTL

\* find_commit answers for each of its hits that was not removed.
THEOREM FindIsRight == Spec => []EveryHitIsAnswered
<1>1. IInv => EveryHitIsAnswered
  BY FindingAnswers DEF IInv
<1> QED
  BY <1>1, Inductive, PTL

\* A pull request that merged the commit is listed before one that names it.
THEOREM MergesAreListedFirst == Spec => MergesComeFirst
<1> DEFINE A ==
      finding.phase = "prs" /\ finding'.phase = "reading" =>
      LET last == Len(finding.contexts)
          commit == finding.contexts[last].doc
          prs == finding'.contexts[last].prs
          merges == {Canonical(d) : d \in {e \in Stored :
                       /\ Type[e] \in PullRequests
                       /\ MergeOf[e] = commit
                       /\ Repo[e] \in SameProject(Repo[commit])}}
      IN  \A i \in DOMAIN prs : prs[i] \notin merges => merges \subseteq {prs[j] : j \in 1 .. i - 1}
<1>1. IInv /\ [Next]_vars => [A]_vars
  <2> SUFFICES ASSUME IInv, [Next]_vars, finding.phase = "prs", finding'.phase = "reading"
               PROVE  A
    OBVIOUS
  <2>1. finding # Idle
    BY DEF Idle
  <2>2. ReadPullRequests
    <3>1. ~Change
      BY ChangeIsOK DEF IInv
    <3>2. finding' # finding
      OBVIOUS
    <3>3. ~Ask
      BY <3>2 DEF Ask, Search, GetReferences, Timeline
    <3>4. Find
      BY <3>1, <3>2, <3>3 DEF Next, vars
    <3> QED
      BY <2>1, <3>4 DEF Find, StartFind, ReadHit, Found, Return
  <2> DEFINE last == Len(finding.contexts)
             commit == finding.contexts[last].doc
             prs == finding'.contexts[last].prs
  <2>3. prs = PullRequestsOf(commit)
    BY <2>1, <2>2, ReadPullRequestsIsOK DEF IInv
  <2>4. MergesAhead(commit, prs)
    <3> HIDE DEF prs, commit
    <3> QED
      BY <2>3, PullRequestsInOrder DEF IInv
  <2>5. MergesOf(commit) = {Canonical(d) : d \in {e \in Stored :
                              /\ Type[e] \in PullRequests
                              /\ MergeOf[e] = commit
                              /\ Repo[e] \in SameProject(Repo[commit])}}
    BY DEF MergesOf, Relevant
  <2> QED
    BY <2>4, <2>5 DEF MergesAhead
<1>2. Spec => [][A]_vars
  BY <1>1, Inductive, PTL DEF Spec
<1> QED
  BY <1>2 DEF MergesComeFirst

=============================================================================
