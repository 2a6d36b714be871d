--------------------------- MODULE Reconcile_proofs ---------------------------
(***************************************************************************)
(* Proofs about Reconcile, for every set of documents, every history of    *)
(* pages and resets and every order in which links and children are read.  *)
(*                                                                         *)
(* The functions of the model map tables to tables, so the argument is     *)
(* about tables: `Good` is kept by each of bind, record_link,              *)
(* invalidate_exact and observe, in this order, and then by every step.    *)
(***************************************************************************)
EXTENDS Reconcile, FiniteSetTheorems, SequenceTheorems, TLAPS

Tables ==
  [body : [Docs -> Texts \cup {Absent}], links : SUBSET Links,
   alias : [Docs -> Rows \cup {NoRow}]]

\* What bind relies on when it takes a link from the table.
LinkOK(t, l) ==
  /\ Stored(t, l.doc)
  /\ l.origin \in {l.doc, l.target}
  /\ l.doc \in Forgejo <=> l.target \notin Forgejo

KeysOK(t) == \A l, m \in t.links : l.doc = m.doc /\ l.target = m.target => l = m

Star(t) ==
  \A d \in Docs : t.alias[d] # NoRow =>
    /\ Stored(t, d)
    /\ t.alias[t.alias[d].canonical] = t.alias[d]
    /\ t.alias[t.alias[d].origin] = t.alias[d]
    /\ Kind[t.alias[d].canonical] = Kind[d]

OnePerHost(t) ==
  \A d, e \in Threads :
    d # e /\ t.alias[d] # NoRow /\ t.alias[e] # NoRow /\ Repo[d] = Repo[e]
    => t.alias[d].canonical # t.alias[e].canonical

First(t) == \A d \in Threads : t.alias[d] # NoRow => t.alias[d].canonical \in Forgejo

Groups(t) == Star(t) /\ OnePerHost(t) /\ First(t)

Good(t) ==
  /\ t \in Tables
  /\ \A l \in t.links : LinkOK(t, l)
  /\ KeysOK(t)
  /\ Groups(t)

-----------------------------------------------------------------------------
(* bind                                                                    *)

LEMMA StoredType == \A t, id : Stored(t, id) => id \in Docs
BY DEF Stored

LEMMA ThreadKind ==
  ASSUME NEW d \in Docs, NEW e \in Docs, Kind[d] = Kind[e]
  PROVE  d \in Threads <=> e \in Threads
BY DEF Threads

LEMMA MemberKind ==
  ASSUME NEW t, t \in Tables, Star(t), NEW g, NEW m \in Members(t, g)
  PROVE  m \in Docs /\ g \in Docs /\ Kind[g] = Kind[m] /\ t.alias[g] = t.alias[m]
         /\ t.alias[m] # NoRow /\ Stored(t, m)
BY DEF Members, Star, Tables, Rows

LEMMA StoredCanonical ==
  ASSUME NEW t, t \in Tables, Star(t), NEW a, Stored(t, a)
  PROVE  /\ a \in Docs
         /\ CanonicalId(t, a) \in Docs
         /\ Kind[CanonicalId(t, a)] = Kind[a]
         /\ t.alias[a] # NoRow => CanonicalId(t, a) = t.alias[a].canonical
<1>1. a \in Docs /\ ActualId(t, a) = a
  BY DEF Stored, ActualId
<1>2. CASE t.alias[a] = NoRow
  BY <1>1, <1>2 DEF CanonicalId
<1>3. CASE t.alias[a] # NoRow
  BY <1>1, <1>3 DEF CanonicalId, Star, Tables, Rows
<1> QED BY <1>1, <1>2, <1>3

\* Whoever shares a row with a member of the joined groups is a member too.
LEMMA JoinedClosed ==
  ASSUME NEW t, t \in Tables, Star(t), NEW a, NEW b, Stored(t, a), Stored(t, b),
         NEW d \in Docs, NEW e \in Joined(t, a, b),
         t.alias[d] # NoRow, t.alias[e] = t.alias[d]
  PROVE  d \in Joined(t, a, b)
<1>1. CASE e \in Members(t, CanonicalId(t, a)) \cup Members(t, CanonicalId(t, b))
  BY <1>1 DEF Joined, Members
<1>2. CASE e = a
  <2>1. CanonicalId(t, a) = t.alias[d].canonical
    BY <1>2, StoredCanonical
  <2> QED BY <2>1 DEF Joined, Members
<1>3. CASE e = b
  <2>1. CanonicalId(t, b) = t.alias[d].canonical
    BY <1>3, StoredCanonical
  <2> QED BY <2>1 DEF Joined, Members
<1> QED BY <1>1, <1>2, <1>3 DEF Joined

LEMMA JoinedKind ==
  ASSUME NEW t, t \in Tables, Star(t), NEW a, NEW b, Stored(t, a), Stored(t, b),
         Kind[a] = Kind[b], NEW e \in Joined(t, a, b)
  PROVE  e \in Docs /\ Stored(t, e) /\ Kind[e] = Kind[a]
<1>1. CASE e \in {a, b}
  BY <1>1, StoredType
<1>2. CASE e \in Members(t, CanonicalId(t, a))
  BY <1>2, MemberKind, StoredCanonical
<1>3. CASE e \in Members(t, CanonicalId(t, b))
  BY <1>3, MemberKind, StoredCanonical
<1> QED BY <1>1, <1>2, <1>3 DEF Joined

\* bind keeps the groups well formed, whatever evidence it is called with, and
\* touches nothing but the aliases.
LEMMA BindGood ==
  ASSUME NEW t, Good(t), NEW a \in Ids, NEW b \in Ids, NEW o \in {a, b},
         NEW ev \in Evidence, a \in Forgejo <=> b \notin Forgejo
  PROVE  /\ Good(Bind(t, a, b, o, ev))
         /\ Bind(t, a, b, o, ev).body = t.body
         /\ Bind(t, a, b, o, ev).links = t.links
<1> DEFINE u == Bind(t, a, b, o, ev)
           J == Joined(t, a, b)
           p == Preferred(a, b, o)
           row == [canonical |-> p, origin |-> o, evidence |-> ev]
<1>0. t \in Tables /\ Star(t) /\ OnePerHost(t) /\ First(t)
  BY DEF Good, Groups
<1>1. CASE ~MayBind(t, a, b, o)
  BY <1>1 DEF Bind
<1>2. CASE MayBind(t, a, b, o)
  <2>1. /\ Stored(t, a)
        /\ Stored(t, b)
        /\ Kind[a] = Kind[b]
        /\ ~Conflict(J)
        /\ p \in J
        /\ o \in J
    BY <1>2 DEF MayBind, Joined
  <2>2. \A e \in J : e \in Docs /\ Stored(t, e) /\ Kind[e] = Kind[a]
    BY <1>0, <2>1, JoinedKind
  <2>3. row \in Rows
    BY <2>1, <2>2 DEF Rows
  <2>4. u = [t EXCEPT !.alias = [d \in Docs |-> IF d \in J THEN row ELSE @[d]]]
    BY <1>2 DEF Bind
  <2>5. /\ u \in Tables
        /\ u.body = t.body
        /\ u.links = t.links
        /\ \A d \in Docs : u.alias[d] = IF d \in J THEN row ELSE t.alias[d]
    <3> HIDE DEF row, J, p
    <3> QED BY <1>0, <2>3, <2>4 DEF Tables
  <2>6. \A id : Stored(u, id) <=> Stored(t, id)
    BY <2>5 DEF Stored
  <2>7. \A d \in Docs, e \in J : t.alias[d] # NoRow /\ t.alias[e] = t.alias[d] => d \in J
    BY <1>0, <2>1, JoinedClosed
  <2>8. \A d \in Docs : d \notin J /\ t.alias[d] # NoRow =>
          /\ t.alias[d].canonical \in Docs /\ t.alias[d].canonical \notin J
          /\ t.alias[d].origin \in Docs /\ t.alias[d].origin \notin J
    <3> SUFFICES ASSUME NEW d \in Docs, d \notin J, t.alias[d] # NoRow
                 PROVE  /\ t.alias[d].canonical \in Docs /\ t.alias[d].canonical \notin J
                        /\ t.alias[d].origin \in Docs /\ t.alias[d].origin \notin J
      OBVIOUS
    <3>1. t.alias[d].canonical \in Docs
      BY <1>0 DEF Tables, Rows
    <3>2. t.alias[d].origin \in Docs
      BY <1>0 DEF Tables, Rows
    <3>3. t.alias[t.alias[d].canonical] = t.alias[d] /\ t.alias[t.alias[d].origin] = t.alias[d]
      BY <1>0 DEF Star
    <3> HIDE DEF J
    <3> QED BY <2>7, <3>1, <3>2, <3>3
  <2>9. Star(u)
    <3> SUFFICES ASSUME NEW d \in Docs, u.alias[d] # NoRow
                 PROVE  /\ Stored(u, d)
                        /\ u.alias[u.alias[d].canonical] = u.alias[d]
                        /\ u.alias[u.alias[d].origin] = u.alias[d]
                        /\ Kind[u.alias[d].canonical] = Kind[d]
      BY DEF Star
    <3>1. CASE d \in J
      <4>1. u.alias[d] = row /\ u.alias[p] = row /\ u.alias[o] = row
        BY <2>1, <2>2, <2>5, <3>1
      <4>2. row.canonical = p /\ row.origin = o
        OBVIOUS
      <4>3. Stored(u, d) /\ Kind[p] = Kind[d]
        BY <2>1, <2>2, <2>6, <3>1
      <4> HIDE DEF row, p, u, J
      <4> QED BY <4>1, <4>2, <4>3
    <3>2. CASE d \notin J
      <4>1. u.alias[d] = t.alias[d]
        BY <2>5, <3>2
      <4>2. /\ u.alias[t.alias[d].canonical] = t.alias[t.alias[d].canonical]
            /\ u.alias[t.alias[d].origin] = t.alias[t.alias[d].origin]
        BY <2>5, <2>8, <3>2, <4>1
      <4> HIDE DEF row, p, u, J
      <4> QED BY <1>0, <2>6, <4>1, <4>2 DEF Star
    <3> QED BY <3>1, <3>2
  <2>10. OnePerHost(u)
    <3> SUFFICES ASSUME NEW d \in Threads, NEW e \in Threads, d # e, Repo[d] = Repo[e],
                        u.alias[d] # NoRow, u.alias[e] # NoRow,
                        u.alias[d].canonical = u.alias[e].canonical
                 PROVE  FALSE
      BY DEF OnePerHost
    <3>0. d \in Docs /\ e \in Docs /\ row.canonical = p
      BY DEF Threads
    <3> HIDE DEF row, p, u
    <3>1. CASE d \in J /\ e \in J
      BY <2>1, <3>1 DEF Conflict
    <3> HIDE DEF J
    <3>2. CASE d \in J /\ e \notin J
      BY <2>1, <2>5, <2>8, <3>0, <3>2
    <3>3. CASE d \notin J /\ e \in J
      BY <2>1, <2>5, <2>8, <3>0, <3>3
    <3>4. CASE d \notin J /\ e \notin J
      BY <1>0, <2>5, <3>0, <3>4 DEF OnePerHost
    <3> QED BY <3>1, <3>2, <3>3, <3>4
  <2>11. First(u)
    <3> SUFFICES ASSUME NEW d \in Threads, u.alias[d] # NoRow
                 PROVE  u.alias[d].canonical \in Forgejo
      BY DEF First
    <3>0. d \in Docs /\ row.canonical = p
      BY DEF Threads
    <3>1. CASE d \in J
      <4>1. a \in Docs /\ Kind[d] = Kind[a]
        BY <2>1, <2>2, <3>1, StoredType
      <4>2. a \in Threads
        BY <3>0, <4>1, ThreadKind
      <4>3. p \in Forgejo
        BY <4>2 DEF Preferred
      <4> HIDE DEF row, p, u, J
      <4> QED BY <2>5, <3>0, <3>1, <4>3
    <3> HIDE DEF row, p, u, J
    <3>2. CASE d \notin J
      BY <1>0, <2>5, <3>0, <3>2 DEF First
    <3> QED BY <3>1, <3>2
  <2> QED BY <2>5, <2>6, <2>9, <2>10, <2>11 DEF Good, Groups, LinkOK, KeysOK
<1> QED BY <1>1, <1>2

LEMMA RecordLinkGood ==
  ASSUME NEW t, Good(t), NEW a \in Ids, NEW b \in Ids, NEW o \in {a, b},
         NEW ev \in Evidence, a \in Forgejo <=> b \notin Forgejo, Stored(t, a)
  PROVE  /\ Good(RecordLink(t, a, b, o, ev))
         /\ RecordLink(t, a, b, o, ev).body = t.body
<1> DEFINE link == [doc |-> a, target |-> b, origin |-> o, evidence |-> ev]
           known == \E l \in t.links : l.doc = a /\ l.target = b
           u == [t EXCEPT !.links = IF known THEN @ ELSE @ \cup {link}]
<1>1. t \in Tables /\ a \in Docs
  BY StoredType DEF Good
<1>2. link \in Links
  BY <1>1 DEF Links
<1>3. u \in Tables /\ u.body = t.body /\ u.alias = t.alias
      /\ u.links = IF known THEN t.links ELSE t.links \cup {link}
  <2> HIDE DEF link, known
  <2> QED BY <1>1, <1>2 DEF Tables
<1>4. /\ link.doc = a /\ link.target = b /\ link.origin = o
  OBVIOUS
<1>5. \A l \in u.links : LinkOK(u, l)
  <2> SUFFICES ASSUME NEW l \in u.links PROVE LinkOK(u, l)
    OBVIOUS
  <2>1. CASE l \in t.links
    BY <1>3, <2>1 DEF Good, LinkOK, Stored
  <2>2. CASE l = link
    <3> HIDE DEF link, u
    <3> QED BY <1>3, <1>4, <2>2 DEF LinkOK, Stored
  <2> HIDE DEF link, u
  <2> QED BY <1>3, <2>1, <2>2
<1>6. KeysOK(u)
  <2>1. KeysOK(t)
    BY DEF Good
  <2> HIDE DEF link, u
  <2> QED BY <1>3, <1>4, <2>1 DEF KeysOK
<1>7. Groups(u)
  <2> HIDE DEF u
  <2> QED BY <1>3 DEF Good, Groups, Star, OnePerHost, First, Stored
<1>8. Good(u)
  BY <1>3, <1>5, <1>6, <1>7 DEF Good
<1>9. Good(Bind(u, a, b, o, ev)) /\ Bind(u, a, b, o, ev).body = t.body
  <2> HIDE DEF u
  <2> QED BY <1>3, <1>8, BindGood
<1>10. RecordLink(t, a, b, o, ev) = IF a = b THEN t ELSE Bind(u, a, b, o, ev)
  BY DEF RecordLink
<1> QED BY <1>9, <1>10

-----------------------------------------------------------------------------
(* observe                                                                 *)

\* actual_id stays on the forge of the id it is given.
LEMMA ActualSide ==
  ASSUME NEW t, NEW id \in Ids
  PROVE  ActualId(t, id) \in Ids /\ (ActualId(t, id) \in Forgejo <=> id \in Forgejo)
BY DocumentsAssumption, ForgesAssumption DEF ActualId

LEMMA MirrorLinksGood ==
  ASSUME NEW t, Good(t), NEW d \in Docs, Stored(t, d)
  PROVE  Good(MirrorLinks(t, d)) /\ MirrorLinks(t, d).body = t.body
<1> DEFINE origin == ActualId(t, Origin[d])
           first == RecordLink(t, d, origin, origin, "mirror")
           parent == ActualId(t, Parent[d])
           thread == ActualId(t, OriginParent[d])
           primary == IF parent \in Forgejo THEN parent ELSE thread
<1>0. d \in Ids
  BY DocumentsAssumption
<1>1. CASE Origin[d] = NoId \/ t.body[d] \notin Wrapped
  BY <1>1 DEF MirrorLinks
<1>2. CASE ~(Origin[d] = NoId \/ t.body[d] \notin Wrapped)
  <2>1. Origin[d] \in Ids /\ (d \in Forgejo <=> Origin[d] \notin Forgejo)
    BY <1>2, DocumentsAssumption, ForgesAssumption
  <2>2. origin \in Ids /\ (d \in Forgejo <=> origin \notin Forgejo)
    BY <2>1, ActualSide
  <2>3. Good(first) /\ first.body = t.body
    <3> HIDE DEF origin
    <3> QED BY <1>0, <2>2, RecordLinkGood DEF Evidence
  <2>4. CASE NoId \in {Parent[d], OriginParent[d]} \/ ~Stored(t, parent)
    BY <1>2, <2>3, <2>4 DEF MirrorLinks
  <2>5. CASE ~(NoId \in {Parent[d], OriginParent[d]} \/ ~Stored(t, parent))
    <3>1. /\ Parent[d] \in Ids /\ (d \in Forgejo <=> Parent[d] \in Forgejo)
          /\ OriginParent[d] \in Ids /\ (d \in Forgejo <=> OriginParent[d] \notin Forgejo)
      BY <2>5, DocumentsAssumption, ForgesAssumption
    <3>2. /\ parent \in Ids
          /\ thread \in Ids
          /\ parent \in Forgejo <=> thread \notin Forgejo
      BY <3>1, ActualSide
    <3>3. Stored(first, parent)
      BY <2>3, <2>5 DEF Stored
    <3>4. /\ Good(RecordLink(first, parent, thread, primary, "parent"))
          /\ RecordLink(first, parent, thread, primary, "parent").body = t.body
      <4> HIDE DEF first, parent, thread
      <4> QED BY <2>3, <3>2, <3>3, RecordLinkGood DEF Evidence
    <3> QED BY <1>2, <2>5, <3>4 DEF MirrorLinks
  <2> QED BY <2>4, <2>5
<1> QED BY <1>1, <1>2

\* Rows that go together stay together: taking aliases away by a rule that
\* treats equal rows alike leaves well-formed groups.
LEMMA CullGroups ==
  ASSUME NEW t, t \in Tables, Groups(t), NEW u, u \in Tables,
         \A d \in Docs : u.alias[d] # NoRow => u.alias[d] = t.alias[d] /\ Stored(u, d),
         \A d, e \in Docs : u.alias[d] # NoRow /\ t.alias[e] = t.alias[d]
                            /\ e \in {t.alias[d].canonical, t.alias[d].origin}
                            => u.alias[e] = t.alias[e]
  PROVE  Groups(u)
<1>1. Star(u)
  <2> SUFFICES ASSUME NEW d \in Docs, u.alias[d] # NoRow
               PROVE  /\ Stored(u, d)
                      /\ u.alias[u.alias[d].canonical] = u.alias[d]
                      /\ u.alias[u.alias[d].origin] = u.alias[d]
                      /\ Kind[u.alias[d].canonical] = Kind[d]
    BY DEF Star
  <2>1. u.alias[d] = t.alias[d] /\ Stored(u, d)
    OBVIOUS
  <2>2. t.alias[d].canonical \in Docs /\ t.alias[d].origin \in Docs
    BY <2>1 DEF Tables, Rows
  <2>3. /\ t.alias[t.alias[d].canonical] = t.alias[d]
        /\ t.alias[t.alias[d].origin] = t.alias[d]
        /\ Kind[t.alias[d].canonical] = Kind[d]
    BY <2>1 DEF Groups, Star
  <2> QED BY <2>1, <2>2, <2>3
<1>2. OnePerHost(u) /\ First(u)
  BY DEF Groups, OnePerHost, First, Threads
<1> QED BY <1>1, <1>2 DEF Groups

LEMMA InvalidateGood ==
  ASSUME NEW t, Good(t), NEW id
  PROVE  Good(InvalidateExact(t, id)) /\ InvalidateExact(t, id).body = t.body
<1> DEFINE M == Members(t, CanonicalId(t, id))
           u == InvalidateExact(t, id)
<1>0. t \in Tables /\ Groups(t) /\ KeysOK(t)
  BY DEF Good
<1>1. u = [t EXCEPT
        !.links = {l \in @ : l.evidence = "exact" => {l.doc, l.target} \cap M = {}},
        !.alias = [d \in Docs |-> IF d \in M /\ @[d].evidence = "exact" THEN NoRow ELSE @[d]]]
  BY DEF InvalidateExact
<1>2. /\ u \in Tables
      /\ u.body = t.body
      /\ u.links \subseteq t.links
      /\ \A d \in Docs : u.alias[d] = IF d \in M /\ t.alias[d].evidence = "exact"
                                      THEN NoRow ELSE t.alias[d]
  <2> DEFINE L == {l \in t.links : l.evidence = "exact" => {l.doc, l.target} \cap M = {}}
             K == [d \in Docs |-> IF d \in M /\ t.alias[d].evidence = "exact"
                                  THEN NoRow ELSE t.alias[d]]
  <2> HIDE DEF M
  <2>1. u = [t EXCEPT !.links = L, !.alias = K]
    BY <1>1, Zenon
  <2>2. L \subseteq t.links
    OBVIOUS
  <2>3. K \in [Docs -> Rows \cup {NoRow}]
    BY <1>0 DEF Tables
  <2>4. \A d \in Docs : K[d] = IF d \in M /\ t.alias[d].evidence = "exact"
                                THEN NoRow ELSE t.alias[d]
    OBVIOUS
  <2> HIDE DEF L, K, u
  <2>5. u \in Tables /\ u.body = t.body /\ u.links = L /\ u.alias = K
    BY <1>0, <2>1, <2>2, <2>3 DEF Tables
  <2> QED BY <2>2, <2>4, <2>5
<1> HIDE DEF u
<1>3. \A k : Stored(u, k) <=> Stored(t, k)
  BY <1>2 DEF Stored
<1>4. \A d, e \in Docs : t.alias[d] # NoRow /\ t.alias[e] = t.alias[d] => (d \in M <=> e \in M)
  BY DEF Members
<1>5. Groups(u)
  <2>1. \A d \in Docs : u.alias[d] # NoRow => u.alias[d] = t.alias[d] /\ Stored(u, d)
    BY <1>0, <1>2, <1>3 DEF Groups, Star
  <2>2. \A d, e \in Docs : u.alias[d] # NoRow /\ t.alias[e] = t.alias[d] => u.alias[e] = t.alias[e]
    BY <1>2, <1>4, <2>1
  <2> QED BY <1>0, <1>2, <2>1, <2>2, CullGroups
<1>6. Good(u)
  BY <1>0, <1>2, <1>3, <1>5 DEF Good, LinkOK, KeysOK
<1> QED BY <1>2, <1>6 DEF u

LEMMA ExactLinksGood ==
  ASSUME NEW t, Good(t), NEW d \in Docs, Stored(t, d)
  PROVE  Good(ExactLinks(t, d)) /\ ExactLinks(t, d).body = t.body
<1> DEFINE found == ExactCandidates(t, d)
           other == CHOOSE e \in found : TRUE
           origin == IF (d \in Threads) = (d \in Forgejo) THEN d ELSE other
<1>1. CASE found = {}
  BY <1>1 DEF ExactLinks
<1>2. CASE found # {}
  <2>1. other \in found
    BY <1>2
  <2>2. other \in Docs /\ {d, other} \in SameData
    <3> HIDE DEF other
    <3> QED BY <2>1 DEF ExactCandidates, Fingerprint
  <2>3. d \in Ids /\ other \in Ids /\ (d \in Forgejo <=> other \notin Forgejo)
    <3> HIDE DEF other
    <3> QED BY <2>2, DocumentsAssumption, ForgesAssumption
  <2>4. /\ Good(RecordLink(t, d, other, origin, "exact"))
        /\ RecordLink(t, d, other, origin, "exact").body = t.body
    <3> HIDE DEF other
    <3> QED BY <2>3, RecordLinkGood DEF Evidence
  <2>5. ExactLinks(t, d) \in {InvalidateExact(t, d), InvalidateExact(t, other),
                              RecordLink(t, d, other, origin, "exact")}
    BY <1>2 DEF ExactLinks
  <2> HIDE DEF other, origin
  <2> QED BY <2>4, <2>5, InvalidateGood
<1> QED BY <1>1, <1>2

LEMMA ObserveGood ==
  ASSUME NEW t, Good(t), NEW d \in Docs, Stored(t, d)
  PROVE  Good(Observe(t, d)) /\ Observe(t, d).body = t.body
<1>1. Good(MirrorLinks(t, d)) /\ MirrorLinks(t, d).body = t.body
  BY MirrorLinksGood
<1>2. Stored(MirrorLinks(t, d), d)
  BY <1>1 DEF Stored
<1> QED BY <1>1, <1>2, ExactLinksGood DEF Observe

-----------------------------------------------------------------------------
(* The inductive invariant.                                                *)

InTransaction ==
  /\ phase \in {"idle", "observe", "settle", "bind", "children"}
  /\ page \in Seq(Docs)
  /\ todo \in Seq(Docs)
  /\ \A i \in DOMAIN page : Stored(db, page[i])
  /\ \A i \in DOMAIN todo : Stored(db, todo[i])
  /\ binding \subseteq db.links
  /\ \A c \in children : Stored(db, c)
  /\ phase = "idle" => page = <<>> /\ todo = <<>>
  /\ phase \in {"bind", "children"} => todo # <<>>
  /\ phase # "bind" => binding = {}
  /\ phase # "children" => children = {}

IInv == Good(db) /\ InTransaction

LEMMA GoodInit == Init => IInv
<1> SUFFICES ASSUME Init PROVE IInv
  OBVIOUS
<1>1. db \in Tables /\ db.links = {} /\ \A d \in Docs : db.alias[d] = NoRow
  BY DEF Init, Tables
<1>2. Good(db)
  BY <1>1 DEF Good, KeysOK, Groups, Star, OnePerHost, First, Threads
<1>3. InTransaction
  BY DEF Init, InTransaction
<1> QED BY <1>2, <1>3 DEF IInv

\* Writing documents changes no row of the other tables.
LEMMA WriteGood ==
  ASSUME NEW t, Good(t), NEW f \in [Docs -> Texts],
         NEW S \in SUBSET Docs, NEW u,
         u = [t EXCEPT !.body = [d \in Docs |-> IF d \in S THEN f[d] ELSE @[d]]]
  PROVE  Good(u) /\ \A d \in Docs : Stored(u, d) <=> d \in S \/ Stored(t, d)
<1>1. t \in Tables
  BY DEF Good
<1>2. u \in Tables /\ u.alias = t.alias /\ u.links = t.links
      /\ \A d \in Docs : u.body[d] = IF d \in S THEN f[d] ELSE t.body[d]
  BY <1>1 DEF Tables
<1>3. \A d \in Docs : Stored(u, d) <=> d \in S \/ Stored(t, d)
  BY <1>2, DocumentsAssumption DEF Stored
<1>4. \A l \in u.links : LinkOK(u, l)
  BY <1>2, <1>3, StoredType DEF Good, LinkOK
<1>5. Groups(u)
  BY <1>1, <1>2, <1>3 DEF Good, Groups, Star, OnePerHost, First
<1> QED BY <1>2, <1>3, <1>4, <1>5 DEF Good, KeysOK

LEMMA ResetGood ==
  ASSUME Good(db), NEW type, Reset(type)
  PROVE  Good(db')
<1> DEFINE gone == {d \in Docs : SourceType(d) = type}
<1>0. db \in Tables /\ Groups(db)
  BY DEF Good
<1>1. /\ db' \in Tables
      /\ db'.links \subseteq db.links
      /\ \A l \in db'.links : l.doc \notin gone
      /\ \A d \in Docs : db'.body[d] = IF d \in gone THEN Absent ELSE db.body[d]
      /\ \A d \in Docs : db'.alias[d] =
           IF \/ d \in gone
              \/ db.alias[d] # NoRow
                 /\ {db.alias[d].canonical, db.alias[d].origin} \cap gone # {}
           THEN NoRow ELSE db.alias[d]
  <2>1. Reset(type)
    OBVIOUS
  <2> HIDE DEF gone
  <2>2. db' = [body  |-> [d \in Docs |-> IF d \in gone THEN Absent ELSE db.body[d]],
                links |-> {l \in db.links : l.doc \notin gone},
                alias |-> [d \in Docs |->
                            IF \/ d \in gone
                               \/ db.alias[d] # NoRow
                                  /\ {db.alias[d].canonical, db.alias[d].origin} \cap gone # {}
                            THEN NoRow ELSE db.alias[d]]]
    BY <2>1 DEF Reset, gone
  <2> QED BY <1>0, <2>2 DEF Tables
<1> HIDE DEF gone
<1>2. \A k : k \notin gone => (Stored(db', k) <=> Stored(db, k))
  BY <1>1 DEF Stored
<1>3. \A l \in db'.links : LinkOK(db', l)
  BY <1>1, <1>2 DEF Good, LinkOK
<1>4. Groups(db')
  <2>1. \A d \in Docs : db'.alias[d] # NoRow => db'.alias[d] = db.alias[d] /\ Stored(db', d)
    BY <1>0, <1>1, <1>2 DEF Groups, Star
  <2>2. \A d, e \in Docs : db'.alias[d] # NoRow /\ db.alias[e] = db.alias[d]
                           /\ e \in {db.alias[d].canonical, db.alias[d].origin}
                           => db'.alias[e] = db.alias[e]
    BY <1>1
  <2> QED BY <1>0, <1>1, <2>1, <2>2, CullGroups
<1> QED BY <1>1, <1>3, <1>4 DEF Good, KeysOK

LEMMA PagesAreSequences == \A p \in Pages : p \in Seq(Docs)
<1> SUFFICES ASSUME NEW p \in Pages PROVE p \in Seq(Docs)
  OBVIOUS
<1>1. PICK n \in 1..MaxPage : p \in [1..n -> Docs]
  BY DEF Pages
<1>2. n \in Nat
  BY DocumentsAssumption
<1> QED BY <1>1, <1>2

LEMMA HeadAndTail ==
  ASSUME InTransaction, todo # <<>>
  PROVE  /\ Head(todo) \in Docs /\ Stored(db, Head(todo))
         /\ Tail(todo) \in Seq(Docs)
         /\ \A i \in DOMAIN Tail(todo) : Stored(db, Tail(todo)[i])
<1>1. todo \in Seq(Docs) /\ \A i \in DOMAIN todo : Stored(db, todo[i])
  BY DEF InTransaction
<1>2. /\ Head(todo) = todo[1]
      /\ Tail(todo) \in Seq(Docs)
      /\ Len(Tail(todo)) = Len(todo) - 1
      /\ \A i \in 1..Len(Tail(todo)) : Tail(todo)[i] = todo[i + 1]
      /\ Len(todo) \in Nat \ {0}
  BY <1>1, HeadTailProperties
<1>3. 1 \in DOMAIN todo /\ \A i \in DOMAIN Tail(todo) : i + 1 \in DOMAIN todo
  BY <1>1, <1>2
<1> QED BY <1>1, <1>2, <1>3, StoredType

LEMMA InvStep == IInv /\ [Next]_vars => IInv'
<1> SUFFICES ASSUME IInv, [Next]_vars PROVE IInv'
  OBVIOUS
<1>0. Good(db) /\ InTransaction
  BY DEF IInv
<1>1. CASE CommitPage
  <2>0. PICK p \in Pages : \E text \in [DOMAIN p -> Texts] :
          /\ \A i \in DOMAIN p : text[i] \in Bodies[p[i]]
          /\ db' = [db EXCEPT !.body = [d \in Docs |->
                      IF \E i \in DOMAIN p : p[i] = d
                      THEN text[CHOOSE i \in DOMAIN p : p[i] = d] ELSE @[d]]]
          /\ Begin(p)
    BY <1>1 DEF CommitPage
  <2>1. PICK text \in [DOMAIN p -> Texts] :
          /\ db' = [db EXCEPT !.body = [d \in Docs |->
                      IF \E i \in DOMAIN p : p[i] = d
                      THEN text[CHOOSE i \in DOMAIN p : p[i] = d] ELSE @[d]]]
          /\ Begin(p)
    BY <2>0
  <2> DEFINE S == {d \in Docs : \E i \in DOMAIN p : p[i] = d}
             at(d) == CHOOSE i \in DOMAIN p : p[i] = d
             f == [d \in Docs |-> IF d \in S THEN text[at(d)] ELSE CHOOSE x \in Texts : TRUE]
  <2>2. p \in Seq(Docs) /\ \A i \in DOMAIN p : p[i] \in S
    BY PagesAreSequences
  <2>3. \A d \in S : at(d) \in DOMAIN p
    OBVIOUS
  <2>4. CASE S = {}
    <3>1. p = <<>>
      BY <2>2, <2>4
    <3>2. db' = [db EXCEPT !.body = [d \in Docs |-> @[d]]]
      BY <2>1, <3>1
    <3>3. db' = db
      BY <1>0, <3>2 DEF Good, Tables
    <3> QED BY <1>0, <1>1, <2>1, <2>2, <3>1, <3>3 DEF IInv, InTransaction, Begin, CommitPage
  <2>5. CASE S # {}
    <3>1. Texts # {}
      BY <2>3, <2>5
    <3>2. f \in [Docs -> Texts]
      BY <2>3, <3>1
    <3>3. db' = [db EXCEPT !.body = [d \in Docs |-> IF d \in S THEN f[d] ELSE @[d]]]
      BY <2>1
    <3>a. S \in SUBSET Docs
      OBVIOUS
    <3> HIDE DEF S, f
    <3>4. Good(db') /\ \A d \in Docs : Stored(db', d) <=> d \in S \/ Stored(db, d)
      BY <1>0, <3>a, <3>2, <3>3, WriteGood
    <3>5. \A i \in DOMAIN p : Stored(db', p[i])
      BY <2>2, <3>4 DEF S
    <3> QED BY <1>0, <1>1, <2>1, <2>2, <3>4, <3>5 DEF IInv, InTransaction, Begin, CommitPage
  <2> QED BY <2>4, <2>5
<1>2. CASE Revisit
  <2>1. PICK p \in Pages : (\A i \in DOMAIN p : Stored(db, p[i])) /\ Begin(p)
    BY <1>2 DEF Revisit
  <2> QED BY <1>0, <1>2, <2>1, PagesAreSequences DEF IInv, InTransaction, Begin, Revisit
<1>3. CASE ObserveNext
  <2>1. Good(db') /\ db'.body = db.body
    BY <1>0, <1>3, HeadAndTail, ObserveGood DEF ObserveNext
  <2>2. \A k : Stored(db', k) <=> Stored(db, k)
    BY <2>1 DEF Stored
  <2> QED BY <1>0, <1>3, <2>1, <2>2, HeadAndTail DEF IInv, InTransaction, ObserveNext
<1>4. CASE AllObserved
  BY <1>0, <1>4 DEF IInv, InTransaction, AllObserved
<1>5. CASE ReadLinks
  BY <1>0, <1>5 DEF IInv, InTransaction, ReadLinks
<1>6. CASE BindNext
  <2>1. PICK l \in binding :
          /\ db' = Bind(db, l.doc, l.target, l.origin, l.evidence)
          /\ binding' = binding \ {l}
    BY <1>6 DEF BindNext
  <2>2. l \in db.links /\ l \in Links /\ LinkOK(db, l)
    BY <1>0 DEF InTransaction, Good, Tables
  <2>3. Good(db') /\ db'.body = db.body /\ db'.links = db.links
    <3>1. /\ l.doc \in Ids /\ l.target \in Ids /\ l.evidence \in Evidence
          /\ l.origin \in {l.doc, l.target} /\ (l.doc \in Forgejo <=> l.target \notin Forgejo)
      BY <2>2, DocumentsAssumption DEF Links, LinkOK
    <3> QED BY <1>0, <2>1, <3>1, BindGood
  <2>4. \A k : Stored(db', k) <=> Stored(db, k)
    BY <2>3 DEF Stored
  <2> QED BY <1>0, <1>6, <2>1, <2>3, <2>4 DEF IInv, InTransaction, BindNext
<1>7. CASE ReadChildren
  BY <1>0, <1>7 DEF IInv, InTransaction, ReadChildren, Children
<1>8. CASE ObserveChild
  <2>1. PICK c \in children : db' = Observe(db, c) /\ children' = children \ {c}
    BY <1>8 DEF ObserveChild
  <2>2. c \in Docs /\ Stored(db, c)
    BY <1>0, StoredType DEF InTransaction
  <2>3. Good(db') /\ db'.body = db.body
    BY <1>0, <2>1, <2>2, ObserveGood
  <2>4. \A k : Stored(db', k) <=> Stored(db, k)
    BY <2>3 DEF Stored
  <2> QED BY <1>0, <1>8, <2>1, <2>3, <2>4 DEF IInv, InTransaction, ObserveChild
<1>9. CASE Settled
  BY <1>0, <1>9, HeadAndTail DEF IInv, InTransaction, Settled
<1>10. CASE Commit
  BY <1>0, <1>10 DEF IInv, InTransaction, Commit
<1>11. CASE \E type \in world.resets : Reset(type)
  <2>1. PICK type \in world.resets : Reset(type)
    BY <1>11
  <2>2. Good(db')
    BY <1>0, <2>1, ResetGood
  <2> QED BY <1>0, <2>1, <2>2 DEF IInv, InTransaction, Reset, transaction
<1>12. CASE UNCHANGED vars
  BY <1>0, <1>12 DEF IInv, InTransaction, vars, transaction
<1> QED BY <1>1, <1>2, <1>3, <1>4, <1>5, <1>6, <1>7, <1>8, <1>9, <1>10, <1>11, <1>12 DEF Next

LEMMA Invariant == Spec => []IInv
BY GoodInit, InvStep, PTL DEF Spec

-----------------------------------------------------------------------------
(* The results.                                                            *)

\* The tables keep their keys and foreign keys, and reconcile's loops only
\* ever visit documents and links that are there.
THEOREM TypeCorrect == Spec => []TypeOK
<1>1. IInv /\ world \in Worlds => TypeOK
  BY StoredType DEF IInv, Good, InTransaction, Tables, LinkOK, KeysOK, TypeOK
<1>2. Init => world \in Worlds
  BY DEF Init
<1>3. world \in Worlds /\ [Next]_vars => (world \in Worlds)'
  BY DEF Next, vars
<1> QED BY Invariant, <1>1, <1>2, <1>3, PTL DEF Spec

\* Every group is one star whatever was merged, invalidated or deleted.
THEOREM StarsHold == Spec => []GroupsAreStars
<1>1. IInv => GroupsAreStars
  BY DEF IInv, Good, Groups, Star, GroupsAreStars
<1> QED BY Invariant, <1>1, PTL

\* No evidence joins two threads of one host.
THEOREM HostsApart == Spec => []OneThreadPerHost
<1>1. IInv => OneThreadPerHost
  BY DEF IInv, Good, Groups, OnePerHost, OneThreadPerHost
<1> QED BY Invariant, <1>1, PTL

\* A joined thread is shown at its Forgejo location.
THEOREM ShownOnForgejo == Spec => []ForgejoFirst
<1>1. IInv => ForgejoFirst
  BY DEF IInv, Good, Groups, First, ForgejoFirst
<1> QED BY Invariant, <1>1, PTL

-----------------------------------------------------------------------------
(* No link is left that could be bound: late parents and late originals.   *)

\* Documents of one group have one row.
LEMMA SameCanonical ==
  ASSUME NEW t, t \in Tables, Star(t), NEW a, NEW b, Stored(t, a), Stored(t, b),
         CanonicalId(t, a) = CanonicalId(t, b)
  PROVE  a = b \/ (t.alias[a] # NoRow /\ t.alias[a] = t.alias[b])
<1>1. /\ a \in Docs /\ b \in Docs /\ ActualId(t, a) = a /\ ActualId(t, b) = b
  BY DEF Stored, ActualId
<1>2. t.alias[a] = NoRow => CanonicalId(t, a) = a
  BY <1>1 DEF CanonicalId
<1>3. t.alias[b] = NoRow => CanonicalId(t, b) = b
  BY <1>1 DEF CanonicalId
<1>4. t.alias[a] # NoRow => CanonicalId(t, a) = t.alias[a].canonical
                            /\ t.alias[t.alias[a].canonical] = t.alias[a]
  BY <1>1, StoredCanonical DEF Star
<1>5. t.alias[b] # NoRow => CanonicalId(t, b) = t.alias[b].canonical
                            /\ t.alias[t.alias[b].canonical] = t.alias[b]
  BY <1>1, StoredCanonical DEF Star
<1> QED BY <1>2, <1>3, <1>4, <1>5

\* As groups grow, nothing becomes possible to bind that was not before.
LEMMA GrowingGroups ==
  ASSUME NEW t, t \in Tables, Star(t), NEW u, u \in Tables, Star(u),
         NEW a, NEW b, NEW o \in {a, b}, Stored(t, a), Stored(t, b),
         \A x \in Docs, e \in {a, b} :
           t.alias[x] # NoRow /\ t.alias[x] = t.alias[e]
           => u.alias[x] # NoRow /\ u.alias[x] = u.alias[e],
         MayBind(u, a, b, o)
  PROVE  MayBind(t, a, b, o)
<1>1. /\ Stored(u, a) /\ Stored(u, b) /\ Kind[a] = Kind[b]
      /\ CanonicalId(u, a) # CanonicalId(u, b) /\ ~Conflict(Joined(u, a, b))
  BY DEF MayBind
<1>2. a \in Docs /\ b \in Docs
  BY StoredType
<1>3. CanonicalId(t, a) # CanonicalId(t, b)
  <2> SUFFICES ASSUME CanonicalId(t, a) = CanonicalId(t, b) PROVE FALSE
    OBVIOUS
  <2>1. a # b
    BY <1>1
  <2>2. t.alias[a] # NoRow /\ t.alias[a] = t.alias[b]
    BY <2>1, SameCanonical
  <2>3. u.alias[a] # NoRow /\ u.alias[a] = u.alias[b]
    BY <1>2, <2>2
  <2> QED BY <1>1, <2>3, StoredCanonical
<1>4. ASSUME NEW e \in {a, b}, NEW x \in Members(t, CanonicalId(t, e))
      PROVE  x = e \/ x \in Members(u, CanonicalId(u, e))
  <2>1. x \in Docs /\ t.alias[x] # NoRow /\ t.alias[x].canonical = CanonicalId(t, e) /\ Stored(t, x)
    BY <1>4 DEF Members, Star
  <2>2. CanonicalId(t, x) = CanonicalId(t, e) /\ Stored(t, e) /\ Stored(u, e)
    BY <1>1, <2>1, StoredCanonical
  <2>3. x = e \/ t.alias[x] = t.alias[e]
    BY <2>1, <2>2, SameCanonical
  <2>4. x = e \/ (u.alias[x] # NoRow /\ u.alias[x] = u.alias[e])
    BY <2>1, <2>3
  <2> QED BY <2>1, <2>2, <2>4, StoredCanonical DEF Members
<1>5. Joined(t, a, b) \subseteq Joined(u, a, b)
  BY <1>4 DEF Joined
<1>6. ~Conflict(Joined(t, a, b))
  BY <1>1, <1>5 DEF Conflict
<1>7. Preferred(a, b, o) \in Joined(t, a, b) /\ Stored(t, o)
  BY DEF Preferred, Joined
<1> QED BY <1>1, <1>3, <1>6, <1>7 DEF MayBind

\* What could be bound in u could be bound in t.
NoneNew(t, u) ==
  \A l \in u.links :
    MayBind(u, l.doc, l.target, l.origin) => l \in t.links /\ MayBind(t, l.doc, l.target, l.origin)

\* Rows are rewritten, never taken away; those that say "exact" are old ones.
RowsStay(t, u) ==
  \A x \in Docs :
    /\ t.alias[x] # NoRow => u.alias[x] # NoRow
    /\ u.alias[x] # NoRow /\ u.alias[x].evidence = "exact" => u.alias[x] = t.alias[x]

\* bind binds what it is given and leaves nothing else behind.
LEMMA BindLeavesNone ==
  ASSUME NEW t, Good(t), NEW a \in Ids, NEW b \in Ids, NEW o \in {a, b},
         NEW ev \in Evidence, a \in Forgejo <=> b \notin Forgejo
  PROVE  /\ \A c, d, e : e \in {c, d} /\ MayBind(Bind(t, a, b, o, ev), c, d, e)
              => MayBind(t, c, d, e) /\ ~(c = a /\ d = b)
         /\ ev # "exact" => RowsStay(t, Bind(t, a, b, o, ev))
<1>0. t \in Tables /\ Star(t)
  BY DEF Good, Groups
<1>1. CASE ~MayBind(t, a, b, o)
  <2>1. Bind(t, a, b, o, ev) = t
    BY <1>1 DEF Bind
  <2>2. ASSUME NEW e \in {a, b}, MayBind(t, a, b, e) PROVE FALSE
    <3>1. Preferred(a, b, o) \in Joined(t, a, b) /\ Stored(t, o)
      BY <2>2 DEF Preferred, Joined, MayBind
    <3> QED BY <1>1, <2>2, <3>1 DEF MayBind
  <2> QED BY <2>1, <2>2 DEF RowsStay
<1>2. CASE MayBind(t, a, b, o)
  <2>1. PICK J : J = Joined(t, a, b)
    OBVIOUS
  <2>2. PICK row : row = [canonical |-> Preferred(a, b, o), origin |-> o, evidence |-> ev]
    OBVIOUS
  <2>3. PICK u : u = Bind(t, a, b, o, ev)
    OBVIOUS
  <2>4. u = [t EXCEPT !.alias = [d \in Docs |-> IF d \in J THEN row ELSE @[d]]]
    BY <1>2, <2>1, <2>2, <2>3 DEF Bind
  <2>5. u.body = t.body /\ \A d \in Docs : u.alias[d] = IF d \in J THEN row ELSE t.alias[d]
    BY <1>0, <2>4 DEF Tables
  <2>6. u \in Tables /\ Star(u)
    BY <2>3, BindGood DEF Good, Groups
  <2>7. \A k : Stored(u, k) <=> Stored(t, k)
    BY <2>5 DEF Stored
  <2>8. Stored(t, a) /\ Stored(t, b) /\ a \in J /\ b \in J /\ a \in Docs /\ b \in Docs
    BY <1>2, <2>1, StoredType DEF MayBind, Joined
  <2>9. row # NoRow /\ row.canonical = Preferred(a, b, o) /\ row.evidence = ev
    <3>1. u.alias[a] = row
      BY <2>5, <2>8
    <3>2. Preferred(a, b, o) \in Docs /\ o \in Docs
      BY <2>8 DEF Preferred
    <3>3. row \in Rows
      BY <2>2, <3>2 DEF Rows
    <3> QED BY <2>2, <3>3, RowsAssumption
  <2>10. \A d \in Docs, e \in J : t.alias[d] # NoRow /\ t.alias[e] = t.alias[d] => d \in J
    BY <1>0, <2>1, <2>8, JoinedClosed
  <2>11. ASSUME NEW c, NEW d, NEW e \in {c, d}, MayBind(u, c, d, e)
         PROVE  MayBind(t, c, d, e) /\ ~(c = a /\ d = b)
    <3>1. /\ c \in Docs /\ d \in Docs /\ Stored(t, c) /\ Stored(t, d) /\ Stored(u, c) /\ Stored(u, d)
          /\ CanonicalId(u, c) # CanonicalId(u, d)
      BY <2>7, <2>11, StoredType DEF MayBind
    <3>2. ASSUME NEW x \in Docs, NEW y \in {c, d}, t.alias[x] # NoRow, t.alias[x] = t.alias[y]
          PROVE  u.alias[x] # NoRow /\ u.alias[x] = u.alias[y]
      <4>1. y \in Docs /\ (x \in J <=> y \in J)
        BY <2>10, <3>1, <3>2
      <4> QED BY <2>5, <2>9, <3>2, <4>1
    <3>3. MayBind(t, c, d, e)
      BY <1>0, <2>6, <2>11, <3>1, <3>2, GrowingGroups
    <3>4. ASSUME c = a, d = b PROVE FALSE
      <4>1. u.alias[c] = row /\ u.alias[d] = row
        BY <2>5, <2>8, <3>4
      <4>2. CanonicalId(u, c) = row.canonical /\ CanonicalId(u, d) = row.canonical
        BY <2>6, <2>9, <3>1, <4>1, StoredCanonical
      <4> QED BY <3>1, <4>2
    <3> QED BY <3>3, <3>4
  <2>12. ev # "exact" => RowsStay(t, u)
    BY <2>5, <2>9 DEF RowsStay
  <2> QED BY <2>3, <2>11, <2>12
<1> QED BY <1>1, <1>2

\* Only aliases and bodies count.
LEMMA SameTables ==
  ASSUME NEW t, NEW u, u.body = t.body, u.alias = t.alias, NEW a, NEW b, NEW o
  PROVE  MayBind(u, a, b, o) <=> MayBind(t, a, b, o)
<1>1. \A id : Stored(u, id) <=> Stored(t, id)
  BY DEF Stored
<1>2. \A id : CanonicalId(u, id) = CanonicalId(t, id)
  BY <1>1 DEF CanonicalId, ActualId
<1>3. \A g : Members(u, g) = Members(t, g)
  BY DEF Members
<1>4. Joined(u, a, b) = Joined(t, a, b)
  BY <1>2, <1>3 DEF Joined
<1> QED BY <1>1, <1>2, <1>4 DEF MayBind

\* A new link is bound at once, if it can be.
LEMMA RecordLinkLeavesNone ==
  ASSUME NEW t, Good(t), NEW a \in Ids, NEW b \in Ids, NEW o \in {a, b},
         NEW ev \in Evidence, a \in Forgejo <=> b \notin Forgejo, Stored(t, a)
  PROVE  /\ NoneNew(t, RecordLink(t, a, b, o, ev))
         /\ ev # "exact" => RowsStay(t, RecordLink(t, a, b, o, ev))
<1>1. PICK link : link = [doc |-> a, target |-> b, origin |-> o, evidence |-> ev]
  OBVIOUS
<1>2. PICK v : v = [t EXCEPT !.links = IF \E l \in t.links : l.doc = a /\ l.target = b
                                       THEN @ ELSE @ \cup {link}]
  OBVIOUS
<1>3. RecordLink(t, a, b, o, ev) = Bind(v, a, b, o, ev)
  BY <1>1, <1>2 DEF RecordLink
<1>4. t \in Tables /\ a \in Docs /\ link \in Links /\ link.doc = a /\ link.target = b /\ link.origin = o
  BY <1>1, StoredType DEF Good, Links
<1>5. v \in Tables /\ v.body = t.body /\ v.alias = t.alias
      /\ v.links \subseteq t.links \cup {link}
  BY <1>2, <1>4 DEF Tables
<1>6. Good(v)
  <2>1. \A k : Stored(v, k) <=> Stored(t, k)
    BY <1>5 DEF Stored
  <2>2. \A l \in v.links : LinkOK(v, l)
    BY <1>4, <1>5, <2>1 DEF Good, LinkOK
  <2>3. KeysOK(v)
    <3>1. KeysOK(t) /\ (v.links = t.links \/
             (v.links = t.links \cup {link} /\ ~\E l \in t.links : l.doc = a /\ l.target = b))
      BY <1>2, <1>4 DEF Good, Tables
    <3> QED BY <1>4, <3>1 DEF KeysOK
  <2>4. Groups(v)
    BY <1>5, <2>1 DEF Good, Groups, Star, OnePerHost, First
  <2> QED BY <1>5, <2>2, <2>3, <2>4 DEF Good
<1>7. PICK u : u = Bind(v, a, b, o, ev)
  OBVIOUS
<1>8. u.links = v.links
  BY <1>6, <1>7, BindGood
<1>9. ASSUME NEW l \in u.links, MayBind(u, l.doc, l.target, l.origin)
      PROVE  l \in t.links /\ MayBind(t, l.doc, l.target, l.origin)
  <2>1. l.origin \in {l.doc, l.target}
    BY <1>6, <1>8 DEF Good, LinkOK
  <2>2. MayBind(v, l.doc, l.target, l.origin) /\ ~(l.doc = a /\ l.target = b)
    BY <1>6, <1>7, <1>9, <2>1, BindLeavesNone
  <2> QED BY <1>4, <1>5, <1>8, <2>2, SameTables
<1>10. ev # "exact" => RowsStay(t, u)
  <2>1. ev # "exact" => RowsStay(v, u)
    BY <1>6, <1>7, BindLeavesNone
  <2> QED BY <1>5, <2>1 DEF RowsStay
<1> QED BY <1>3, <1>7, <1>9, <1>10 DEF NoneNew

LEMMA MirrorLinksLeavesNone ==
  ASSUME NEW t, Good(t), NEW d \in Docs, Stored(t, d)
  PROVE  NoneNew(t, MirrorLinks(t, d)) /\ RowsStay(t, MirrorLinks(t, d))
<1> DEFINE origin == ActualId(t, Origin[d])
           first == RecordLink(t, d, origin, origin, "mirror")
           parent == ActualId(t, Parent[d])
           thread == ActualId(t, OriginParent[d])
           primary == IF parent \in Forgejo THEN parent ELSE thread
           second == RecordLink(first, parent, thread, primary, "parent")
<1>0. d \in Ids
  BY DocumentsAssumption
<1>1. CASE Origin[d] = NoId \/ t.body[d] \notin Wrapped
  <2>1. MirrorLinks(t, d) = t
    BY <1>1 DEF MirrorLinks
  <2> QED BY <2>1 DEF NoneNew, RowsStay
<1>2. CASE ~(Origin[d] = NoId \/ t.body[d] \notin Wrapped)
  <2>1. Origin[d] \in Ids /\ (d \in Forgejo <=> Origin[d] \notin Forgejo)
    BY <1>2, DocumentsAssumption, ForgesAssumption
  <2>2. origin \in Ids /\ (d \in Forgejo <=> origin \notin Forgejo)
    BY <2>1, ActualSide
  <2>3. /\ Good(first) /\ first.body = t.body
        /\ NoneNew(t, first) /\ RowsStay(t, first)
    <3> HIDE DEF origin
    <3> QED BY <1>0, <2>2, RecordLinkGood, RecordLinkLeavesNone DEF Evidence
  <2>4. CASE NoId \in {Parent[d], OriginParent[d]} \/ ~Stored(t, parent)
    BY <1>2, <2>3, <2>4 DEF MirrorLinks
  <2>5. CASE ~(NoId \in {Parent[d], OriginParent[d]} \/ ~Stored(t, parent))
    <3>1. /\ Parent[d] \in Ids /\ (d \in Forgejo <=> Parent[d] \in Forgejo)
          /\ OriginParent[d] \in Ids /\ (d \in Forgejo <=> OriginParent[d] \notin Forgejo)
      BY <2>5, DocumentsAssumption, ForgesAssumption
    <3>2. /\ parent \in Ids
          /\ thread \in Ids
          /\ parent \in Forgejo <=> thread \notin Forgejo
      BY <3>1, ActualSide
    <3>3. Stored(first, parent)
      BY <2>3, <2>5 DEF Stored
    <3>4. NoneNew(first, second) /\ RowsStay(first, second)
      <4> HIDE DEF first, parent, thread
      <4> QED BY <2>3, <3>2, <3>3, RecordLinkLeavesNone DEF Evidence
    <3>5. MirrorLinks(t, d) = second
      BY <1>2, <2>5 DEF MirrorLinks
    <3> HIDE DEF first, second
    <3>6. NoneNew(t, second)
      BY <2>3, <3>4 DEF NoneNew
    <3>7. RowsStay(t, second)
      BY <2>3, <3>4 DEF RowsStay
    <3> QED BY <3>5, <3>6, <3>7
  <2> QED BY <2>4, <2>5
<1> QED BY <1>1, <1>2

\* No end of a link of u between two stored documents has lost its row since t.
Supported(t, u) ==
  \A l \in u.links : Stored(u, l.doc) /\ Stored(u, l.target) =>
    \A e \in {l.doc, l.target} : t.alias[e] # NoRow => u.alias[e] # NoRow

\* Rows that go together go together, so a cull that spares the ends of a link
\* spares their groups.
LEMMA CullLeavesNone ==
  ASSUME NEW t, Good(t), NEW u, Good(u), u.links \subseteq t.links,
         \A k : Stored(u, k) => Stored(t, k),
         \A x \in Docs : u.alias[x] # NoRow => u.alias[x] = t.alias[x],
         Supported(t, u),
         \A l \in u.links, x \in Docs : \A e \in {l.doc, l.target} :
           /\ MayBind(u, l.doc, l.target, l.origin)
           /\ t.alias[x] # NoRow /\ t.alias[x] = t.alias[e] /\ u.alias[e] # NoRow
           => u.alias[x] # NoRow
  PROVE  NoneNew(t, u)
<1> SUFFICES ASSUME NEW l \in u.links, MayBind(u, l.doc, l.target, l.origin)
             PROVE  l \in t.links /\ MayBind(t, l.doc, l.target, l.origin)
  BY DEF NoneNew
<1>1. t \in Tables /\ Star(t) /\ u \in Tables /\ Star(u) /\ LinkOK(u, l)
  BY DEF Good, Groups
<1>2. PICK a, b, o : a = l.doc /\ b = l.target /\ o = l.origin
  OBVIOUS
<1>3. MayBind(u, a, b, o) /\ o \in {a, b} /\ Stored(u, a) /\ Stored(u, b)
  BY <1>1, <1>2 DEF LinkOK, MayBind
<1>4. a \in Docs /\ b \in Docs /\ Stored(t, a) /\ Stored(t, b)
  BY <1>3, StoredType
<1>5. ASSUME NEW x \in Docs, NEW e \in {a, b}, t.alias[x] # NoRow, t.alias[x] = t.alias[e]
      PROVE  u.alias[x] # NoRow /\ u.alias[x] = u.alias[e]
  <2>1. u.alias[e] # NoRow
    BY <1>2, <1>3, <1>5 DEF Supported
  <2>2. u.alias[x] # NoRow
    BY <1>2, <1>3, <1>5, <2>1
  <2> QED BY <1>4, <1>5, <2>1, <2>2
<1>6. MayBind(t, a, b, o)
  BY <1>1, <1>3, <1>4, <1>5, GrowingGroups
<1> QED BY <1>2, <1>6

\* invalidate_exact, where it withdraws no support, frees nothing to be bound.
LEMMA InvalidateLeavesNone ==
  ASSUME NEW t, Good(t), NEW id, Supported(t, InvalidateExact(t, id))
  PROVE  /\ NoneNew(t, InvalidateExact(t, id))
         /\ \A x \in Docs : t.alias[x] # NoRow /\ InvalidateExact(t, id).alias[x] = NoRow
                            => t.alias[x].evidence = "exact"
<1>1. PICK M : M = Members(t, CanonicalId(t, id))
  OBVIOUS
<1>2. PICK u : u = InvalidateExact(t, id)
  OBVIOUS
<1>3. PICK L : L = {l \in t.links : l.evidence = "exact" => {l.doc, l.target} \cap M = {}}
  OBVIOUS
<1>4. PICK K : K = [d \in Docs |-> IF d \in M /\ t.alias[d].evidence = "exact"
                                   THEN NoRow ELSE t.alias[d]]
  OBVIOUS
<1>5. u = [t EXCEPT !.links = L, !.alias = K]
  BY <1>1, <1>2, <1>3, <1>4, Zenon DEF InvalidateExact
<1>6. u.links = L /\ u.alias = K
  BY <1>5 DEF Good, Tables
<1>7. Good(u) /\ u.body = t.body
  BY <1>2, InvalidateGood
<1>8. u.links \subseteq t.links
  BY <1>3, <1>6
<1>9. \A d \in Docs : u.alias[d] = IF d \in M /\ t.alias[d].evidence = "exact"
                                   THEN NoRow ELSE t.alias[d]
  BY <1>4, <1>6
<1>10. \A k : Stored(u, k) <=> Stored(t, k)
  BY <1>7 DEF Stored
<1>11. \A x, e \in Docs : t.alias[x] # NoRow /\ t.alias[x] = t.alias[e] => (x \in M <=> e \in M)
  BY <1>1 DEF Members
<1>12. \A l \in u.links, x \in Docs : \A e \in {l.doc, l.target} :
         /\ MayBind(u, l.doc, l.target, l.origin)
         /\ t.alias[x] # NoRow /\ t.alias[x] = t.alias[e] /\ u.alias[e] # NoRow
         => u.alias[x] # NoRow
  <2> SUFFICES ASSUME NEW l \in u.links, NEW x \in Docs, NEW e \in {l.doc, l.target},
                      MayBind(u, l.doc, l.target, l.origin),
                      t.alias[x] # NoRow, t.alias[x] = t.alias[e], u.alias[e] # NoRow
               PROVE  u.alias[x] # NoRow
    OBVIOUS
  <2>1. e \in Docs
    BY StoredType DEF MayBind
  <2> QED BY <1>9, <1>11, <2>1
<1>13. NoneNew(t, u)
  <2>1. \A x \in Docs : u.alias[x] # NoRow => u.alias[x] = t.alias[x]
    BY <1>9
  <2>2. Supported(t, u)
    BY <1>2
  <2> QED BY <1>7, <1>8, <1>10, <1>12, <2>1, <2>2, CullLeavesNone
<1> QED BY <1>2, <1>9, <1>13

\* observe leaves no link behind, where it withdraws no support.
LEMMA ObserveLeavesNone ==
  ASSUME NEW t, Good(t), NEW d \in Docs, Stored(t, d), Supported(t, Observe(t, d))
  PROVE  NoneNew(t, Observe(t, d))
<1>1. PICK v : v = MirrorLinks(t, d)
  OBVIOUS
<1>2. PICK u : u = Observe(t, d)
  OBVIOUS
<1>3. u = ExactLinks(v, d)
  BY <1>1, <1>2 DEF Observe
<1>4. Good(v) /\ v.body = t.body /\ NoneNew(t, v) /\ RowsStay(t, v)
  BY <1>1, MirrorLinksGood, MirrorLinksLeavesNone
<1>5. Good(u) /\ u.body = t.body
  BY <1>2, ObserveGood
<1>6. PICK found : found = ExactCandidates(v, d)
  OBVIOUS
<1>7. PICK other : other = CHOOSE e \in found : TRUE
  OBVIOUS
<1>8. PICK origin : origin = IF (d \in Threads) = (d \in Forgejo) THEN d ELSE other
  OBVIOUS
<1>9. \/ u = v
      \/ \E k : u = InvalidateExact(v, k)
      \/ found # {} /\ u = RecordLink(v, d, other, origin, "exact")
  BY <1>3, <1>6, <1>7, <1>8 DEF ExactLinks
<1>10. CASE u = v
  BY <1>2, <1>4, <1>10
<1>11. CASE \E k : u = InvalidateExact(v, k)
  <2>1. PICK k : u = InvalidateExact(v, k)
    BY <1>11
  <2>2. PICK M : M = Members(v, CanonicalId(v, k))
    OBVIOUS
  <2>3. v \in Tables
    BY <1>4 DEF Good
  <2>4. \A x \in Docs : u.alias[x] = IF x \in M /\ v.alias[x].evidence = "exact"
                                     THEN NoRow ELSE v.alias[x]
    BY <2>1, <2>2, <2>3 DEF InvalidateExact, Tables
  <2>5. Supported(v, u)
    <3> SUFFICES ASSUME NEW l \in u.links, Stored(u, l.doc), Stored(u, l.target),
                        NEW e \in {l.doc, l.target}, v.alias[e] # NoRow, u.alias[e] = NoRow
                 PROVE  FALSE
      BY DEF Supported
    <3>1. e \in Docs
      BY StoredType
    <3>2. v.alias[e].evidence = "exact"
      BY <2>4, <3>1
    <3>3. v.alias[e] = t.alias[e]
      BY <1>4, <3>1, <3>2 DEF RowsStay
    <3> QED BY <1>2, <3>3 DEF Supported
  <2>6. NoneNew(v, u)
    BY <1>4, <2>1, <2>5, InvalidateLeavesNone
  <2> QED BY <1>2, <1>4, <2>6 DEF NoneNew
<1>12. CASE found # {} /\ u = RecordLink(v, d, other, origin, "exact")
  <2>1. other \in found
    BY <1>7, <1>12
  <2>2. other \in Docs /\ {d, other} \in SameData
    BY <1>6, <2>1 DEF ExactCandidates, Fingerprint
  <2>3. d \in Ids /\ other \in Ids /\ (d \in Forgejo <=> other \notin Forgejo)
    BY <2>2, DocumentsAssumption, ForgesAssumption
  <2>4. origin \in {d, other} /\ Stored(v, d)
    BY <1>4, <1>8 DEF Stored
  <2>5. NoneNew(v, u)
    BY <1>4, <1>12, <2>3, <2>4, RecordLinkLeavesNone DEF Evidence
  <2> QED BY <1>2, <1>4, <2>5 DEF NoneNew
<1> QED BY <1>9, <1>10, <1>11, <1>12

\* A reset takes whole groups, or leaves their rows to the documents that stay:
\* the members of a group are of one kind, and one end of a link is on each forge.
LEMMA ResetLeavesNone ==
  ASSUME Good(db), NEW type, Reset(type), Supported(db, db')
  PROVE  NoneNew(db, db')
<1>1. PICK gone : gone = {d \in Docs : SourceType(d) = type}
  OBVIOUS
<1>2. PICK t, u : t = db /\ u = db'
  OBVIOUS
<1>3. u = [body  |-> [d \in Docs |-> IF d \in gone THEN Absent ELSE t.body[d]],
           links |-> {l \in t.links : l.doc \notin gone},
           alias |-> [d \in Docs |->
                       IF \/ d \in gone
                          \/ t.alias[d] # NoRow
                             /\ {t.alias[d].canonical, t.alias[d].origin} \cap gone # {}
                       THEN NoRow ELSE t.alias[d]]]
  BY <1>1, <1>2 DEF Reset
<1>4. Good(t) /\ Good(u) /\ t \in Tables /\ Star(t) /\ Supported(t, u)
  BY <1>2, ResetGood DEF Good, Groups
<1>5. /\ u.links \subseteq t.links
      /\ \A d \in Docs : u.body[d] = IF d \in gone THEN Absent ELSE t.body[d]
      /\ \A d \in Docs : u.alias[d] =
           IF \/ d \in gone
              \/ t.alias[d] # NoRow
                 /\ {t.alias[d].canonical, t.alias[d].origin} \cap gone # {}
           THEN NoRow ELSE t.alias[d]
  BY <1>3
<1>6. \A k : Stored(u, k) <=> Stored(t, k) /\ k \notin gone
  BY <1>5 DEF Stored
<1>7. ASSUME NEW l \in u.links, NEW x \in Docs, NEW e \in {l.doc, l.target},
             MayBind(u, l.doc, l.target, l.origin),
             t.alias[x] # NoRow, t.alias[x] = t.alias[e], u.alias[e] # NoRow
      PROVE  u.alias[x] # NoRow
  <2>1. /\ Stored(u, l.doc) /\ Stored(u, l.target) /\ Kind[l.doc] = Kind[l.target]
        /\ l.doc \in Docs /\ l.target \in Docs
    BY <1>7, StoredType DEF MayBind
  <2>2. e \in Docs /\ {t.alias[e].canonical, t.alias[e].origin} \cap gone = {}
    BY <1>5, <1>7, <2>1
  <2>3. Kind[x] = Kind[e]
    <3>1. Kind[t.alias[x].canonical] = Kind[x]
      BY <1>4, <1>7 DEF Star
    <3>2. Kind[t.alias[e].canonical] = Kind[e]
      BY <1>4, <1>7, <2>2 DEF Star
    <3> QED BY <1>7, <3>1, <3>2
  <2>4. PICK y \in {l.doc, l.target} : x \in Forgejo <=> y \in Forgejo
    BY <1>4 DEF Good, LinkOK
  <2>5. SourceType(x) = SourceType(y)
    BY <2>1, <2>3, <2>4 DEF SourceType
  <2>6. y \in Docs /\ y \notin gone
    BY <1>6, <2>1
  <2>7. x \notin gone
    BY <1>1, <2>5, <2>6
  <2> QED BY <1>5, <1>7, <2>2, <2>7
<1>8. NoneNew(t, u)
  <2>1. \A x \in Docs : u.alias[x] # NoRow => u.alias[x] = t.alias[x]
    BY <1>5
  <2> QED BY <1>4, <1>5, <1>6, <1>7, <2>1, CullLeavesNone
<1> QED BY <1>2, <1>8

\* New texts free nothing to be bound between documents the page leaves out.
LEMMA WriteLeavesNone ==
  ASSUME NEW t, Good(t), NEW u, Good(u), u.links = t.links, u.alias = t.alias,
         NEW l \in u.links, MayBind(u, l.doc, l.target, l.origin),
         Stored(t, l.doc), Stored(t, l.target)
  PROVE  MayBind(t, l.doc, l.target, l.origin)
<1>1. t \in Tables /\ Star(t) /\ u \in Tables /\ Star(u) /\ l.origin \in {l.doc, l.target}
  BY DEF Good, Groups, LinkOK
<1> QED BY <1>1, GrowingGroups

-----------------------------------------------------------------------------
(* What still waits is settled before the page is committed.               *)

\* The link will be read for one of its ends, or has been and is to be bound.
Unsettled(l) ==
  LET ends == {l.doc, l.target}
  IN  \/ phase = "observe" /\ \E i \in DOMAIN page : page[i] \in ends
      \/ phase = "settle" /\ \E i \in DOMAIN todo : todo[i] \in ends
      \/ phase = "bind" /\ l \in binding
      \/ phase \in {"bind", "children"} /\ \E i \in DOMAIN todo : i > 1 /\ todo[i] \in ends

WaitingOK == \A l \in db.links : MayBind(db, l.doc, l.target, l.origin) => Unsettled(l)

LEMMA WithdrawsNothing ==
  ASSUME ~Withdraws PROVE Supported(db, db')
BY DEF Withdraws, Supported

LEMMA TailDiffers ==
  ASSUME NEW s \in Seq(Docs), s # <<>>
  PROVE  Tail(s) # s
<1>1. PICK n, m : n = Len(s) /\ m = Len(Tail(s))
  OBVIOUS
<1>2. n \in Nat /\ m = n - 1
  BY <1>1, HeadTailProperties
<1>3. m # n
  BY <1>2
<1> QED BY <1>1, <1>3, Zenon

LEMMA WaitingStep ==
  ASSUME IInv, IInv', WaitingOK, [Next]_vars, [~Withdraws]_vars
  PROVE  WaitingOK'
<1>0. Good(db) /\ InTransaction /\ Good(db')
  BY DEF IInv
<1>w. \A l \in db.links : MayBind(db, l.doc, l.target, l.origin) => Unsettled(l)
  BY DEF WaitingOK
<1>2. ASSUME NoneNew(db, db'), \A l \in db.links : Unsettled(l) => Unsettled(l)'
      PROVE  WaitingOK'
  <2> SUFFICES ASSUME NEW l \in db'.links, MayBind(db', l.doc, l.target, l.origin)
               PROVE  Unsettled(l)'
    BY DEF WaitingOK
  <2>1. l \in db.links /\ MayBind(db, l.doc, l.target, l.origin)
    BY <1>2 DEF NoneNew
  <2> QED BY <1>w, <1>2, <2>1
<1>3. ~(vars' = vars) => Supported(db, db')
  BY WithdrawsNothing
<1>r. db' = db => NoneNew(db, db')
  BY DEF NoneNew
<1>1. CASE UNCHANGED vars
  BY <1>1, <1>2, <1>r DEF vars, transaction, Unsettled
<1>4. CASE CommitPage
  <2>0. PICK p \in Pages : \E text \in [DOMAIN p -> Texts] :
          /\ db' = [db EXCEPT !.body = [d \in Docs |->
                      IF \E i \in DOMAIN p : p[i] = d
                      THEN text[CHOOSE i \in DOMAIN p : p[i] = d] ELSE @[d]]]
          /\ Begin(p)
    BY <1>4 DEF CommitPage
  <2>1. PICK text \in [DOMAIN p -> Texts] :
          /\ db' = [db EXCEPT !.body = [d \in Docs |->
                      IF \E i \in DOMAIN p : p[i] = d
                      THEN text[CHOOSE i \in DOMAIN p : p[i] = d] ELSE @[d]]]
          /\ Begin(p)
    BY <2>0
  <2>2. PICK t, u : t = db /\ u = db'
    OBVIOUS
  <2>3. /\ u.links = t.links /\ u.alias = t.alias
        /\ \A d \in Docs : (~\E i \in DOMAIN p : p[i] = d) => u.body[d] = t.body[d]
    BY <1>0, <2>1, <2>2 DEF Good, Tables
  <2>4. phase = "idle" /\ phase' = "observe" /\ page' = p
    BY <1>4, <2>1 DEF CommitPage, Begin
  <2> SUFFICES ASSUME NEW l \in u.links, MayBind(u, l.doc, l.target, l.origin),
                      ~\E i \in DOMAIN p : p[i] \in {l.doc, l.target}
               PROVE  FALSE
    BY <2>2, <2>4 DEF WaitingOK, Unsettled
  <2>5. Stored(t, l.doc) /\ Stored(t, l.target)
    <3>1. Stored(u, l.doc) /\ Stored(u, l.target) /\ l.doc \in Docs /\ l.target \in Docs
      BY StoredType DEF MayBind
    <3> QED BY <2>3, <3>1 DEF Stored
  <2>6. MayBind(t, l.doc, l.target, l.origin)
    BY <1>0, <2>2, <2>3, <2>5, WriteLeavesNone
  <2> QED BY <1>w, <2>2, <2>3, <2>4, <2>6 DEF Unsettled
<1>5. CASE Revisit
  BY <1>2, <1>5, <1>r DEF Revisit, Begin, Unsettled
<1>6. CASE ObserveNext
  <2>1. NoneNew(db, db')
    <3>1. vars' # vars
      <4>1. todo' # todo
        BY <1>0, <1>6, TailDiffers DEF InTransaction, ObserveNext
      <4> QED BY <4>1 DEF vars, transaction
    <3>2. PICK t, u, d : t = db /\ u = db' /\ d = Head(todo)
      OBVIOUS
    <3>3. u = Observe(t, d) /\ d \in Docs /\ Stored(t, d)
      BY <1>0, <1>6, <3>2, HeadAndTail DEF ObserveNext
    <3> QED BY <1>0, <1>3, <3>1, <3>2, <3>3, ObserveLeavesNone
  <2> QED BY <1>2, <1>6, <2>1 DEF ObserveNext, Unsettled
<1>7. CASE AllObserved
  BY <1>2, <1>7, <1>r DEF AllObserved, Unsettled
<1>8. CASE ReadLinks
  <2>1. NoneNew(db, db')
    BY <1>8, <1>r DEF ReadLinks
  <2>2. ASSUME NEW l \in db.links, Unsettled(l) PROVE Unsettled(l)'
    <3>1. PICK i \in DOMAIN todo : todo[i] \in {l.doc, l.target}
      BY <1>8, <2>2 DEF ReadLinks, Unsettled
    <3>2. CASE i = 1
      <4>1. Head(todo) = todo[1]
        BY <1>0, <1>8, HeadTailProperties DEF InTransaction, ReadLinks
      <4> QED BY <1>8, <3>1, <3>2, <4>1 DEF ReadLinks, Unsettled
    <3>3. CASE i # 1
      <4>1. i > 1
        BY <1>0, <3>1, <3>3 DEF InTransaction
      <4> QED BY <1>8, <3>1, <4>1 DEF ReadLinks, Unsettled
    <3> QED BY <3>2, <3>3
  <2> QED BY <1>2, <2>1, <2>2
<1>9. CASE BindNext
  <2>1. PICK l \in binding :
          /\ db' = Bind(db, l.doc, l.target, l.origin, l.evidence)
          /\ binding' = binding \ {l}
    BY <1>9 DEF BindNext
  <2>2. PICK t, u : t = db /\ u = db'
    OBVIOUS
  <2>3. l \in t.links /\ l \in Links /\ LinkOK(t, l)
    BY <1>0, <2>2 DEF InTransaction, Good, Tables
  <2>4. /\ l.doc \in Ids /\ l.target \in Ids /\ l.evidence \in Evidence
        /\ l.origin \in {l.doc, l.target} /\ (l.doc \in Forgejo <=> l.target \notin Forgejo)
    BY <2>3, DocumentsAssumption DEF Links, LinkOK
  <2>5. u = Bind(t, l.doc, l.target, l.origin, l.evidence) /\ u.links = t.links
    BY <1>0, <2>1, <2>2, <2>4, BindGood
  <2> SUFFICES ASSUME NEW m \in u.links, MayBind(u, m.doc, m.target, m.origin)
               PROVE  Unsettled(m)'
    BY <2>2 DEF WaitingOK
  <2>6. m.origin \in {m.doc, m.target}
    BY <1>0, <2>2, <2>5 DEF Good, LinkOK
  <2>7. MayBind(t, m.doc, m.target, m.origin) /\ ~(m.doc = l.doc /\ m.target = l.target)
    BY <1>0, <2>2, <2>4, <2>5, <2>6, BindLeavesNone
  <2>8. m # l /\ Unsettled(m)
    BY <1>w, <2>2, <2>5, <2>7
  <2> QED BY <1>9, <2>1, <2>8 DEF BindNext, Unsettled
<1>10. CASE ReadChildren
  <2>1. \A l \in db.links : Unsettled(l) => Unsettled(l)'
    BY <1>10 DEF ReadChildren, Unsettled
  <2> QED BY <1>2, <1>10, <1>r, <2>1 DEF ReadChildren
<1>11. CASE ObserveChild
  <2>1. PICK c \in children : db' = Observe(db, c) /\ children' = children \ {c}
    BY <1>11 DEF ObserveChild
  <2>2. vars' # vars
    BY <2>1 DEF vars, transaction
  <2>3. PICK t, u : t = db /\ u = db'
    OBVIOUS
  <2>4. c \in Docs /\ Stored(t, c)
    BY <1>0, <2>1, <2>3, StoredType DEF InTransaction
  <2>5. NoneNew(db, db')
    BY <1>0, <1>3, <2>1, <2>2, <2>3, <2>4, ObserveLeavesNone
  <2> QED BY <1>2, <1>11, <2>5 DEF ObserveChild, Unsettled
<1>12. CASE Settled
  <2>1. ASSUME NEW l \in db.links, Unsettled(l) PROVE Unsettled(l)'
    <3>1. PICK i \in DOMAIN todo : i > 1 /\ todo[i] \in {l.doc, l.target}
      BY <1>12, <2>1 DEF Settled, Unsettled
    <3>2. /\ todo \in Seq(Docs) /\ todo # <<>>
          /\ Len(Tail(todo)) = Len(todo) - 1
          /\ \A j \in 1..Len(Tail(todo)) : Tail(todo)[j] = todo[j + 1]
      BY <1>0, <1>12, HeadTailProperties DEF InTransaction, Settled
    <3>3. i - 1 \in DOMAIN Tail(todo) /\ Tail(todo)[i - 1] = todo[i]
      BY <1>0, <3>1, <3>2, HeadTailProperties DEF InTransaction
    <3> QED BY <1>12, <3>1, <3>3 DEF Settled, Unsettled
  <2> QED BY <1>2, <1>12, <1>r, <2>1 DEF Settled
<1>13. CASE Commit
  BY <1>2, <1>13, <1>r DEF Commit, Unsettled
<1>14. CASE \E type \in world.resets : Reset(type)
  <2>1. PICK type \in world.resets : Reset(type)
    BY <1>14
  <2>2. NoneNew(db, db')
    <3>1. db' = db => NoneNew(db, db')
      BY <1>r
    <3>2. db' # db => vars' # vars
      BY DEF vars
    <3> QED BY <1>0, <1>3, <2>1, <3>1, <3>2, ResetLeavesNone
  <2> QED BY <1>2, <2>1, <2>2 DEF Reset, transaction, Unsettled
<1> QED BY <1>1, <1>4, <1>5, <1>6, <1>7, <1>8, <1>9, <1>10, <1>11, <1>12, <1>13, <1>14 DEF Next

\* Late parents and late originals are bound: when a page is committed no link
\* waits that could be bound, in every run that withdraws no support from a
\* document (which invalidate_exact does to a group that other evidence supports
\* too, and a reset to the documents that shared a group with deleted ones).
THEOREM LateEvidenceIsBound == Spec /\ [][~Withdraws]_vars => []NoneLeftUnbound
<1>1. Init => WaitingOK
  BY DEF Init, WaitingOK
<1>2. IInv /\ IInv' /\ WaitingOK /\ [Next]_vars /\ [~Withdraws]_vars => WaitingOK'
  BY WaitingStep
<1>3. WaitingOK => NoneLeftUnbound
  BY DEF WaitingOK, Unsettled, NoneLeftUnbound
<1> QED BY Invariant, <1>1, <1>2, <1>3, PTL DEF Spec

-----------------------------------------------------------------------------
(* Two ids in one conversation.                                            *)

\* One document under two ids, or two of one group.
Together(t, p, q) ==
  LET d == ActualId(t, p)
      e == ActualId(t, q)
  IN  \/ d = e
      \/ d \in Docs /\ e \in Docs /\ t.alias[d] # NoRow /\ t.alias[d] = t.alias[e]

\* Groups may merge and may lose all their rows, but are not torn apart.
Evenly(t, u) ==
  \A x, y \in Docs :
    /\ t.alias[x] # NoRow /\ t.alias[x] = t.alias[y]
    /\ u.alias[x] # NoRow /\ u.alias[y] # NoRow
    => u.alias[x] = u.alias[y]

\* Groups only merge.
Merges(t, u) ==
  \A x, y \in Docs :
    t.alias[x] # NoRow /\ t.alias[x] = t.alias[y] => u.alias[x] # NoRow /\ u.alias[x] = u.alias[y]

LEMMA TogetherIsSameId ==
  ASSUME NEW t, Good(t), NEW p, NEW q
  PROVE  CanonicalId(t, p) = CanonicalId(t, q) <=> Together(t, p, q)
<1>1. PICK d, e : d = ActualId(t, p) /\ e = ActualId(t, q)
  OBVIOUS
<1>2. /\ CanonicalId(t, p) = IF d \in Docs /\ t.alias[d] # NoRow THEN t.alias[d].canonical ELSE d
      /\ CanonicalId(t, q) = IF e \in Docs /\ t.alias[e] # NoRow THEN t.alias[e].canonical ELSE e
  BY <1>1 DEF CanonicalId
<1>3. \A x \in Docs : t.alias[x] # NoRow =>
        /\ t.alias[x].canonical \in Docs
        /\ t.alias[t.alias[x].canonical] = t.alias[x]
  BY DEF Good, Tables, Groups, Star, Rows
<1>4. Together(t, p, q) <=> \/ d = e
                            \/ d \in Docs /\ e \in Docs /\ t.alias[d] # NoRow /\ t.alias[d] = t.alias[e]
  BY <1>1 DEF Together
<1> QED BY <1>2, <1>3, <1>4

\* Two stored documents of different forges have one canonical id only as
\* members of one group.
LEMMA SameIdSameRow ==
  ASSUME NEW t, Good(t), NEW a, NEW b, Stored(t, a), Stored(t, b), a # b,
         CanonicalId(t, a) = CanonicalId(t, b)
  PROVE  a \in Docs /\ b \in Docs /\ t.alias[a] # NoRow /\ t.alias[a] = t.alias[b]
BY StoredType, SameCanonical DEF Good, Groups

\* A document keeps its id while its row, or everything stored, stays.
LEMMA ActualStays ==
  ASSUME NEW t, NEW u, NEW p \in Ids, Stored(t, ActualId(t, p)), Stored(u, ActualId(t, p))
  PROVE  ActualId(u, p) = ActualId(t, p)
BY FormsAssumption DEF ActualId, Stored

LEMMA TogetherStays ==
  ASSUME NEW t, Good(t), NEW u, Good(u), NEW p \in Ids, NEW q \in Ids, Evenly(t, u),
         Together(t, p, q),
         \/ p \in Forgejo <=> q \notin Forgejo
         \/ \A k : Stored(t, k) => Stored(u, k),
         \A d \in {ActualId(t, p), ActualId(t, q)} :
           d \in Docs /\ t.alias[d] # NoRow => u.alias[d] # NoRow
  PROVE  Together(u, p, q)
<1>1. PICK d, e : d = ActualId(t, p) /\ e = ActualId(t, q)
  OBVIOUS
<1>s. /\ \A x \in Docs : t.alias[x] # NoRow => Stored(t, x)
      /\ \A x \in Docs : u.alias[x] # NoRow => Stored(u, x)
  BY DEF Good, Groups, Star
<1>2. CASE d = e
  <2>1. CASE p = q
    BY <2>1 DEF Together
  <2>2. CASE p # q
    <3>1. d \in Forgejo <=> p \in Forgejo
      BY <1>1, ActualSide
    <3>2. e \in Forgejo <=> q \in Forgejo
      BY <1>1, ActualSide
    <3>3. \A k : Stored(t, k) => Stored(u, k)
      BY <1>2, <3>1, <3>2
    <3>4. d # p \/ e # q
      BY <1>2, <2>2
    <3>5. Stored(t, d)
      BY <1>1, <1>2, <3>4 DEF ActualId
    <3>6. ActualId(u, p) = d /\ ActualId(u, q) = e
      BY <1>1, <1>2, <3>3, <3>5, ActualStays
    <3> QED BY <1>2, <3>6 DEF Together
  <2> QED BY <2>1, <2>2
<1>3. CASE d # e
  <2>1. d \in Docs /\ e \in Docs /\ t.alias[d] # NoRow /\ t.alias[d] = t.alias[e]
    BY <1>1, <1>3 DEF Together
  <2>2. u.alias[d] # NoRow /\ u.alias[e] # NoRow
    BY <1>1, <2>1
  <2>3. ActualId(u, p) = d /\ ActualId(u, q) = e
    BY <1>1, <1>s, <2>1, <2>2, ActualStays
  <2>4. u.alias[d] = u.alias[e]
    BY <2>1, <2>2 DEF Evenly
  <2> QED BY <2>1, <2>2, <2>3, <2>4 DEF Together
<1> QED BY <1>2, <1>3

LEMMA SameThreadMerges ==
  ASSUME NEW t, Good(t), NEW u, Good(u), u.body = t.body, Merges(t, u),
         NEW d \in Docs, NEW e \in Docs, SameThread(t, d, e)
  PROVE  SameThread(u, d, e)
<1>1. Parent[d] \in Ids /\ Parent[e] \in Ids /\ NoId \notin {Parent[d], Parent[e]}
  BY DocumentsAssumption DEF SameThread
<1>2. Together(t, Parent[d], Parent[e])
  BY TogetherIsSameId DEF SameThread
<1>3. \A k : ActualId(u, k) = ActualId(t, k)
  BY DEF ActualId, Stored
<1>4. Together(u, Parent[d], Parent[e])
  BY <1>2, <1>3 DEF Together, Merges
<1> QED BY <1>1, <1>4, TogetherIsSameId DEF SameThread

LEMMA SameThreadIsEquivalence ==
  ASSUME NEW t, NEW d, NEW e, NEW f
  PROVE  /\ SameThread(t, d, e) => SameThread(t, e, d) /\ SameThread(t, d, d)
         /\ SameThread(t, d, e) /\ SameThread(t, e, f) => SameThread(t, d, f)
BY DEF SameThread

-----------------------------------------------------------------------------
(* What each function does to the rows.                                    *)

LEMMA BindRows ==
  ASSUME NEW t, Good(t), NEW a \in Ids, NEW b \in Ids, NEW o \in {a, b},
         NEW ev \in Evidence, a \in Forgejo <=> b \notin Forgejo
  PROVE  /\ ~MayBind(t, a, b, o) => Bind(t, a, b, o, ev) = t
         /\ MayBind(t, a, b, o) =>
              \E row \in Rows :
                /\ row.evidence = ev
                /\ row.canonical \in Joined(t, a, b)
                /\ \A x \in Docs : Bind(t, a, b, o, ev).alias[x] =
                                     IF x \in Joined(t, a, b) THEN row ELSE t.alias[x]
         /\ Merges(t, Bind(t, a, b, o, ev))
<1>0. t \in Tables /\ Star(t)
  BY DEF Good, Groups
<1>1. CASE ~MayBind(t, a, b, o)
  <2>1. Bind(t, a, b, o, ev) = t
    BY <1>1 DEF Bind
  <2> QED BY <1>1, <2>1 DEF Merges
<1>2. CASE MayBind(t, a, b, o)
  <2>1. PICK J : J = Joined(t, a, b)
    OBVIOUS
  <2>2. PICK row : row = [canonical |-> Preferred(a, b, o), origin |-> o, evidence |-> ev]
    OBVIOUS
  <2>3. PICK u : u = Bind(t, a, b, o, ev)
    OBVIOUS
  <2>4. u = [t EXCEPT !.alias = [d \in Docs |-> IF d \in J THEN row ELSE @[d]]]
    BY <1>2, <2>1, <2>2, <2>3 DEF Bind
  <2>5. \A d \in Docs : u.alias[d] = IF d \in J THEN row ELSE t.alias[d]
    BY <1>0, <2>4 DEF Tables
  <2>6. Stored(t, a) /\ Stored(t, b) /\ a \in Docs /\ b \in Docs
    BY <1>2, StoredType DEF MayBind
  <2>7. row \in Rows /\ row # NoRow /\ row.evidence = ev
    <3>1. Preferred(a, b, o) \in Docs /\ o \in Docs
      BY <2>6 DEF Preferred
    <3> QED BY <2>2, <3>1, RowsAssumption DEF Rows
  <2>8. \A d \in Docs, e \in J : t.alias[d] # NoRow /\ t.alias[e] = t.alias[d] => d \in J
    BY <1>0, <2>1, <2>6, JoinedClosed
  <2>9. Merges(t, u)
    BY <2>5, <2>7, <2>8 DEF Merges
  <2>10. row.canonical \in J
    BY <1>2, <2>1, <2>2 DEF MayBind
  <2> QED BY <1>2, <2>1, <2>3, <2>5, <2>7, <2>9, <2>10
<1> QED BY <1>1, <1>2

\* Whoever is joined with a and b is one of them or shares the row of one.
LEMMA JoinedRows ==
  ASSUME NEW t, Good(t), NEW a, NEW b, Stored(t, a), Stored(t, b), NEW x \in Joined(t, a, b)
  PROVE  /\ x \in Docs
         /\ x \in {a, b} \/ \E e \in {a, b} : t.alias[x] # NoRow /\ t.alias[x] = t.alias[e]
<1>1. t \in Tables /\ Star(t) /\ a \in Docs /\ b \in Docs
  BY StoredType DEF Good, Groups
<1>2. ASSUME NEW e \in {a, b}, x \in Members(t, CanonicalId(t, e))
      PROVE  x \in Docs /\ t.alias[x] # NoRow /\ (x = e \/ t.alias[x] = t.alias[e])
  <2>1. x \in Docs /\ t.alias[x] # NoRow /\ t.alias[x].canonical = CanonicalId(t, e) /\ Stored(t, x)
    BY <1>1, <1>2 DEF Members, Star
  <2>2. CanonicalId(t, x) = CanonicalId(t, e) /\ Stored(t, e)
    BY <1>1, <2>1, StoredCanonical
  <2> QED BY <1>1, <2>1, <2>2, SameCanonical
<1> QED BY <1>1, <1>2 DEF Joined

\* record_link adds at most its own link and then binds.
LEMMA RecordLinkParts ==
  ASSUME NEW t, Good(t), NEW a \in Ids, NEW b \in Ids, NEW o \in {a, b},
         NEW ev \in Evidence, a \in Forgejo <=> b \notin Forgejo, Stored(t, a)
  PROVE  \E v :
    /\ Good(v)
    /\ v.body = t.body
    /\ v.alias = t.alias
    /\ t.links \subseteq v.links
    /\ \A l \in v.links : l \in t.links \/ (l.doc = a /\ l.target = b /\ l.origin = o /\ l.evidence = ev)
    /\ \E l \in v.links : l.doc = a /\ l.target = b /\ (l \in t.links \/ l.evidence = ev)
    /\ RecordLink(t, a, b, o, ev) = Bind(v, a, b, o, ev)
    /\ RecordLink(t, a, b, o, ev).links = v.links
<1>1. PICK link : link = [doc |-> a, target |-> b, origin |-> o, evidence |-> ev]
  OBVIOUS
<1>2. PICK v : v = [t EXCEPT !.links = IF \E l \in t.links : l.doc = a /\ l.target = b
                                       THEN @ ELSE @ \cup {link}]
  OBVIOUS
<1>3. RecordLink(t, a, b, o, ev) = Bind(v, a, b, o, ev)
  BY <1>1, <1>2 DEF RecordLink
<1>4. /\ t \in Tables /\ a \in Docs /\ link \in Links
      /\ link.doc = a /\ link.target = b /\ link.origin = o /\ link.evidence = ev
  BY <1>1, StoredType DEF Good, Links
<1>5. /\ v \in Tables /\ v.body = t.body /\ v.alias = t.alias
      /\ v.links = IF \E l \in t.links : l.doc = a /\ l.target = b
                   THEN t.links ELSE t.links \cup {link}
  BY <1>2, <1>4 DEF Tables
<1>6. Good(v)
  <2>1. \A k : Stored(v, k) <=> Stored(t, k)
    BY <1>5 DEF Stored
  <2>2. \A l \in v.links : LinkOK(v, l)
    BY <1>4, <1>5, <2>1 DEF Good, LinkOK
  <2>3. KeysOK(v)
    BY <1>4, <1>5 DEF Good, KeysOK
  <2>4. Groups(v)
    BY <1>5, <2>1 DEF Good, Groups, Star, OnePerHost, First
  <2> QED BY <1>5, <2>2, <2>3, <2>4 DEF Good
<1>7. Bind(v, a, b, o, ev).links = v.links
  BY <1>6, BindGood
<1> QED BY <1>3, <1>4, <1>5, <1>6, <1>7

LEMMA MergesTrans ==
  ASSUME NEW t, NEW v, NEW u, Merges(t, v), Merges(v, u)
  PROVE  Merges(t, u)
BY DEF Merges

\* The two links mirror_links may record.
LEMMA MirrorLinksParts ==
  ASSUME NEW t, Good(t), NEW d \in Docs, Stored(t, d)
  PROVE  \/ MirrorLinks(t, d) = t
         \/ \E b \in Ids :
              /\ d \in Forgejo <=> b \notin Forgejo
              /\ LET first == RecordLink(t, d, b, b, "mirror")
                 IN  \/ MirrorLinks(t, d) = first
                     \/ \E p, q \in Ids : \E o \in {p, q} :
                          /\ p \in Forgejo <=> q \notin Forgejo
                          /\ Stored(first, p)
                          /\ MirrorLinks(t, d) = RecordLink(first, p, q, o, "parent")
<1> DEFINE origin == ActualId(t, Origin[d])
           first == RecordLink(t, d, origin, origin, "mirror")
           parent == ActualId(t, Parent[d])
           thread == ActualId(t, OriginParent[d])
           primary == IF parent \in Forgejo THEN parent ELSE thread
<1>0. d \in Ids
  BY DocumentsAssumption
<1>1. CASE Origin[d] = NoId \/ t.body[d] \notin Wrapped
  BY <1>1 DEF MirrorLinks
<1>2. CASE ~(Origin[d] = NoId \/ t.body[d] \notin Wrapped)
  <2>1. Origin[d] \in Ids /\ (d \in Forgejo <=> Origin[d] \notin Forgejo)
    BY <1>2, DocumentsAssumption, ForgesAssumption
  <2>2. origin \in Ids /\ (d \in Forgejo <=> origin \notin Forgejo)
    BY <2>1, ActualSide
  <2>3. first.body = t.body
    <3> HIDE DEF origin
    <3> QED BY <1>0, <2>2, RecordLinkGood DEF Evidence
  <2>4. CASE NoId \in {Parent[d], OriginParent[d]} \/ ~Stored(t, parent)
    <3>1. MirrorLinks(t, d) = first
      BY <1>2, <2>4 DEF MirrorLinks
    <3> HIDE DEF origin
    <3> QED BY <2>2, <3>1
  <2>5. CASE ~(NoId \in {Parent[d], OriginParent[d]} \/ ~Stored(t, parent))
    <3>1. /\ Parent[d] \in Ids /\ (d \in Forgejo <=> Parent[d] \in Forgejo)
          /\ OriginParent[d] \in Ids /\ (d \in Forgejo <=> OriginParent[d] \notin Forgejo)
      BY <2>5, DocumentsAssumption, ForgesAssumption
    <3>2. /\ parent \in Ids
          /\ thread \in Ids
          /\ parent \in Forgejo <=> thread \notin Forgejo
      BY <3>1, ActualSide
    <3>3. Stored(first, parent)
      BY <2>3, <2>5 DEF Stored
    <3>4. MirrorLinks(t, d) = RecordLink(first, parent, thread, primary, "parent")
      BY <1>2, <2>5 DEF MirrorLinks
    <3>5. primary \in {parent, thread}
      OBVIOUS
    <3> HIDE DEF origin, parent, thread, primary
    <3> QED BY <2>2, <3>2, <3>3, <3>4, <3>5
  <2> QED BY <2>4, <2>5
<1> QED BY <1>1, <1>2

LEMMA RecordLinkMerges ==
  ASSUME NEW t, Good(t), NEW a \in Ids, NEW b \in Ids, NEW o \in {a, b},
         NEW ev \in Evidence, a \in Forgejo <=> b \notin Forgejo, Stored(t, a)
  PROVE  Merges(t, RecordLink(t, a, b, o, ev))
<1>1. PICK v : /\ Good(v) /\ v.alias = t.alias
               /\ RecordLink(t, a, b, o, ev) = Bind(v, a, b, o, ev)
  BY RecordLinkParts
<1>2. Merges(v, Bind(v, a, b, o, ev))
  BY <1>1, BindRows
<1> QED BY <1>1, <1>2 DEF Merges

\* mirror_links adds links that do not say "exact", and merges groups.
LEMMA MirrorLinksRows ==
  ASSUME NEW t, Good(t), NEW d \in Docs, Stored(t, d)
  PROVE  LET v == MirrorLinks(t, d)
         IN  /\ Good(v) /\ v.body = t.body /\ Merges(t, v)
             /\ t.links \subseteq v.links
             /\ \A l \in v.links : l.evidence = "exact" => l \in t.links
<1>0. d \in Ids /\ "mirror" \in Evidence /\ "parent" \in Evidence
  BY DocumentsAssumption DEF Evidence
<1>1. PICK v : v = MirrorLinks(t, d)
  OBVIOUS
<1>2. Good(v) /\ v.body = t.body
  BY <1>1, MirrorLinksGood
<1>3. ASSUME NEW s, Good(s), NEW a \in Ids, NEW b \in Ids, NEW o \in {a, b}, NEW ev \in {"mirror", "parent"},
             a \in Forgejo <=> b \notin Forgejo, Stored(s, a)
      PROVE  LET u == RecordLink(s, a, b, o, ev)
             IN  /\ Good(u) /\ Merges(s, u) /\ s.links \subseteq u.links
                 /\ \A l \in u.links : l.evidence = "exact" => l \in s.links
  <2>1. ev \in Evidence /\ ev # "exact"
    BY DEF Evidence
  <2>2. Good(RecordLink(s, a, b, o, ev)) /\ Merges(s, RecordLink(s, a, b, o, ev))
    BY <1>3, <2>1, RecordLinkGood, RecordLinkMerges
  <2>3. PICK w : /\ s.links \subseteq w.links
                 /\ \A l \in w.links : l \in s.links \/ l.evidence = ev
                 /\ RecordLink(s, a, b, o, ev).links = w.links
    BY <1>3, <2>1, RecordLinkParts
  <2> QED BY <2>1, <2>2, <2>3
<1>4. CASE v = t
  BY <1>1, <1>2, <1>4 DEF Merges
<1>5. CASE v # t
  <2>1. PICK b \in Ids :
          /\ d \in Forgejo <=> b \notin Forgejo
          /\ LET first == RecordLink(t, d, b, b, "mirror")
             IN  \/ v = first
                 \/ \E p, q \in Ids : \E o \in {p, q} :
                      /\ p \in Forgejo <=> q \notin Forgejo
                      /\ Stored(first, p)
                      /\ v = RecordLink(first, p, q, o, "parent")
    BY <1>1, <1>5, MirrorLinksParts
  <2>2. PICK first : first = RecordLink(t, d, b, b, "mirror")
    OBVIOUS
  <2>3. /\ Good(first) /\ Merges(t, first) /\ t.links \subseteq first.links
        /\ \A l \in first.links : l.evidence = "exact" => l \in t.links
    BY <1>0, <1>3, <2>1, <2>2
  <2>4. CASE v = first
    BY <1>1, <1>2, <2>3, <2>4
  <2>5. CASE \E p, q \in Ids : \E o \in {p, q} :
               /\ p \in Forgejo <=> q \notin Forgejo
               /\ Stored(first, p)
               /\ v = RecordLink(first, p, q, o, "parent")
    <3>1. PICK p \in Ids, q \in Ids : \E o \in {p, q} :
               /\ p \in Forgejo <=> q \notin Forgejo
               /\ Stored(first, p)
               /\ v = RecordLink(first, p, q, o, "parent")
      BY <2>5
    <3>2. /\ Merges(first, v) /\ first.links \subseteq v.links
          /\ \A l \in v.links : l.evidence = "exact" => l \in first.links
      BY <1>3, <2>3, <3>1
    <3>3. Merges(t, v)
      BY <2>3, <3>2, MergesTrans
    <3> QED BY <1>1, <1>2, <2>3, <3>2, <3>3
  <2> QED BY <2>1, <2>2, <2>4, <2>5
<1> QED BY <1>4, <1>5

-----------------------------------------------------------------------------
(* Exact matches.                                                          *)

LEMMA InvalidateRows ==
  ASSUME NEW t, Good(t), NEW k
  PROVE  LET M == Members(t, CanonicalId(t, k))
             u == InvalidateExact(t, k)
         IN  /\ Good(u) /\ u.body = t.body /\ Evenly(t, u)
             /\ u.links = {l \in t.links : l.evidence = "exact" => {l.doc, l.target} \cap M = {}}
             /\ \A x \in Docs : u.alias[x] = IF x \in M /\ t.alias[x].evidence = "exact"
                                             THEN NoRow ELSE t.alias[x]
<1>1. PICK M : M = Members(t, CanonicalId(t, k))
  OBVIOUS
<1>2. PICK u : u = InvalidateExact(t, k)
  OBVIOUS
<1>3. Good(u) /\ u.body = t.body
  BY <1>2, InvalidateGood
<1>4. t \in Tables
  BY DEF Good
<1>5. /\ u.links = {l \in t.links : l.evidence = "exact" => {l.doc, l.target} \cap M = {}}
      /\ \A x \in Docs : u.alias[x] = IF x \in M /\ t.alias[x].evidence = "exact"
                                      THEN NoRow ELSE t.alias[x]
  BY <1>1, <1>2, <1>4 DEF InvalidateExact, Tables
<1>6. Evenly(t, u)
  BY <1>5 DEF Evenly
<1> QED BY <1>1, <1>2, <1>3, <1>5, <1>6

LEMMA CandidateSets ==
  ASSUME NEW t, NEW d
  PROVE  /\ ExactCandidates(t, d) \subseteq Docs
         /\ IsFiniteSet(ExactCandidates(t, d))
BY DocumentsAssumption, FS_Subset DEF ExactCandidates

LEMMA CountToTwo ==
  ASSUME NEW S, IsFiniteSet(S)
  PROVE  /\ Cardinality(S) > 1 <=> \E x, y \in S : x # y
         /\ S # {} /\ ~(Cardinality(S) > 1) => \E x : S = {x}
<1> DEFINE Single == \E x : S = {x}
           n == Cardinality(S)
<1>1. n \in Nat /\ (n = 0 <=> S = {})
  BY FS_CardinalityType, FS_EmptySet
<1>2. n = 1 <=> Single
  BY FS_Singleton
<1>3. n > 1 <=> S # {} /\ ~Single
  <2> HIDE DEF n, Single
  <2> QED BY <1>1, <1>2
<1>4. S # {} /\ (~\E x : S = {x}) <=> \E x, y \in S : x # y
  OBVIOUS
<1> QED BY <1>3, <1>4

LEMMA CandidatesMutual ==
  ASSUME NEW t, NEW d \in Docs, Stored(t, d), NEW e \in ExactCandidates(t, d)
  PROVE  /\ e \in Docs /\ Stored(t, e) /\ {d, e} \in SameData /\ Kind[d] = Kind[e]
         /\ d \in Forgejo <=> e \notin Forgejo
         /\ d \in ExactCandidates(t, e)
<1>1. e \in Docs /\ Stored(t, e) /\ Fingerprint(t, d, e) /\ (d \in Threads \/ SameThread(t, d, e))
  BY DEF ExactCandidates
<1>2. {d, e} \in SameData /\ Kind[d] = Kind[e] /\ (d \in Forgejo <=> e \notin Forgejo)
  BY <1>1, ForgesAssumption DEF Fingerprint
<1>3. {e, d} = {d, e}
  OBVIOUS
<1>4. Fingerprint(t, e, d)
  BY <1>1, <1>3 DEF Fingerprint
<1>5. e \in Threads \/ SameThread(t, e, d)
  BY <1>1, <1>2, ThreadKind, SameThreadIsEquivalence
<1> QED BY <1>1, <1>2, <1>4, <1>5 DEF ExactCandidates

\* A match is recorded only between the only candidates of each other; any other
\* document with candidates has an ambiguous match invalidated.
LEMMA ExactLinksParts ==
  ASSUME NEW t, Good(t), NEW d \in Docs, Stored(t, d)
  PROVE  \/ ExactCandidates(t, d) = {} /\ ExactLinks(t, d) = t
         \/ /\ \E e, f \in ExactCandidates(t, d) : e # f
            /\ ExactLinks(t, d) = InvalidateExact(t, d)
         \/ \E e \in ExactCandidates(t, d) :
              /\ ExactCandidates(t, d) = {e}
              /\ \E f, g \in ExactCandidates(t, e) : f # g
              /\ ExactLinks(t, d) = InvalidateExact(t, e)
         \/ \E e \in ExactCandidates(t, d) : \E o \in {d, e} :
              /\ ExactCandidates(t, d) = {e}
              /\ ExactCandidates(t, e) = {d}
              /\ ExactLinks(t, d) = RecordLink(t, d, e, o, "exact")
<1>1. PICK found : found = ExactCandidates(t, d)
  OBVIOUS
<1>2. PICK other : other = CHOOSE e \in found : TRUE
  OBVIOUS
<1>3. PICK origin : origin = IF (d \in Threads) = (d \in Forgejo) THEN d ELSE other
  OBVIOUS
<1>4. ExactLinks(t, d) = IF found = {} THEN t
        ELSE IF Cardinality(found) > 1 THEN InvalidateExact(t, d)
        ELSE IF Cardinality(ExactCandidates(t, other)) > 1 THEN InvalidateExact(t, other)
        ELSE RecordLink(t, d, other, origin, "exact")
  BY <1>1, <1>2, <1>3 DEF ExactLinks
<1>5. CASE found = {}
  BY <1>1, <1>4, <1>5
<1>6. CASE found # {} /\ Cardinality(found) > 1
  BY <1>1, <1>4, <1>6, CandidateSets, CountToTwo
<1>7. CASE found # {} /\ ~(Cardinality(found) > 1)
  <2>1. other \in found
    BY <1>2, <1>7
  <2>2. found = {other}
    BY <1>1, <1>7, <2>1, CandidateSets, CountToTwo
  <2>3. d \in ExactCandidates(t, other)
    BY <1>1, <2>1, CandidatesMutual
  <2>4. CASE Cardinality(ExactCandidates(t, other)) > 1
    <3>1. \E f, g \in ExactCandidates(t, other) : f # g
      BY <2>4, CandidateSets, CountToTwo
    <3> QED BY <1>1, <1>4, <1>7, <2>1, <2>2, <2>4, <3>1
  <2>5. CASE ~(Cardinality(ExactCandidates(t, other)) > 1)
    <3>1. ExactCandidates(t, other) = {d}
      BY <2>3, <2>5, CandidateSets, CountToTwo
    <3>2. origin \in {d, other}
      BY <1>3
    <3>3. ExactLinks(t, d) = RecordLink(t, d, other, origin, "exact")
      BY <1>4, <1>7, <2>5
    <3> QED BY <1>1, <2>1, <2>2, <3>1, <3>2, <3>3
  <2> QED BY <2>4, <2>5
<1> QED BY <1>5, <1>6, <1>7

LEMMA EvenlyTrans ==
  ASSUME NEW t, NEW v, NEW u, Merges(t, v), Evenly(v, u)
  PROVE  Evenly(t, u)
BY DEF Merges, Evenly

LEMMA ObserveEvenly ==
  ASSUME NEW t, Good(t), NEW d \in Docs, Stored(t, d)
  PROVE  Evenly(t, Observe(t, d))
<1>1. PICK v : v = MirrorLinks(t, d)
  OBVIOUS
<1>2. Good(v) /\ v.body = t.body /\ Merges(t, v)
  BY <1>1, MirrorLinksRows
<1>3. Stored(v, d) /\ Observe(t, d) = ExactLinks(v, d)
  BY <1>1, <1>2 DEF Stored, Observe
<1>4. Evenly(v, ExactLinks(v, d))
  <2>1. CASE ExactLinks(v, d) = v
    BY <2>1 DEF Evenly
  <2>2. ASSUME NEW k, ExactLinks(v, d) = InvalidateExact(v, k)
        PROVE  Evenly(v, ExactLinks(v, d))
    BY <1>2, <2>2, InvalidateRows
  <2>3. ASSUME NEW e \in ExactCandidates(v, d), NEW o \in {d, e},
               ExactLinks(v, d) = RecordLink(v, d, e, o, "exact")
        PROVE  Evenly(v, ExactLinks(v, d))
    <3>1. d \in Ids /\ e \in Ids /\ (d \in Forgejo <=> e \notin Forgejo)
      BY <1>3, CandidatesMutual, DocumentsAssumption
    <3>2. Merges(v, ExactLinks(v, d))
      BY <1>2, <1>3, <2>3, <3>1, RecordLinkMerges DEF Evidence
    <3> QED BY <3>2 DEF Merges, Evenly
  <2> QED BY <1>2, <1>3, <2>1, <2>2, <2>3, ExactLinksParts
<1> QED BY <1>2, <1>3, <1>4, EvenlyTrans

\* What becomes of the tables of a page that is written.
LEMMA WritePage ==
  ASSUME Good(db), CommitPage
  PROVE  \E p \in Pages :
           /\ db'.links = db.links /\ db'.alias = db.alias
           /\ \A d \in Docs : (~\E i \in DOMAIN p : p[i] = d) => db'.body[d] = db.body[d]
           /\ \A i \in DOMAIN p : p[i] \in Docs /\ db'.body[p[i]] \in Texts
           /\ \A i, j \in DOMAIN p : Repo[p[i]] = Repo[p[j]] /\ (p[i] \in Threads <=> p[j] \in Threads)
           /\ Begin(p)
<1>1. PICK p \in Pages : \E text \in [DOMAIN p -> Texts] :
        /\ \A i, j \in DOMAIN p : Repo[p[i]] = Repo[p[j]] /\ (p[i] \in Threads <=> p[j] \in Threads)
        /\ db' = [db EXCEPT !.body = [d \in Docs |->
                    IF \E i \in DOMAIN p : p[i] = d
                    THEN text[CHOOSE i \in DOMAIN p : p[i] = d] ELSE @[d]]]
        /\ Begin(p)
  BY DEF CommitPage
<1>2. PICK text \in [DOMAIN p -> Texts] :
        db' = [db EXCEPT !.body = [d \in Docs |->
                 IF \E i \in DOMAIN p : p[i] = d
                 THEN text[CHOOSE i \in DOMAIN p : p[i] = d] ELSE @[d]]]
  BY <1>1
<1>3. p \in Seq(Docs)
  BY PagesAreSequences
<1>4. /\ db'.links = db.links /\ db'.alias = db.alias
      /\ \A d \in Docs : db'.body[d] = IF \E i \in DOMAIN p : p[i] = d
                                       THEN text[CHOOSE i \in DOMAIN p : p[i] = d] ELSE db.body[d]
  BY <1>2 DEF Good, Tables
<1>5. ASSUME NEW i \in DOMAIN p PROVE p[i] \in Docs /\ db'.body[p[i]] \in Texts
  <2>1. p[i] \in Docs
    BY <1>3
  <2>2. (CHOOSE j \in DOMAIN p : p[j] = p[i]) \in DOMAIN p
    OBVIOUS
  <2> QED BY <1>4, <2>1, <2>2
<1> QED BY <1>1, <1>4, <1>5

LEMMA ResetRows ==
  ASSUME Good(db), NEW type, Reset(type)
  PROVE  /\ db'.links \subseteq db.links
         /\ \A d \in Docs : db'.body[d] \in {Absent, db.body[d]}
         /\ \A d \in Docs : db'.alias[d] \in {NoRow, db.alias[d]}
BY DEF Reset, Good, Tables

LEMMA NextIsEven ==
  ASSUME IInv, [Next]_vars
  PROVE  /\ Evenly(db, db')
         /\ world.resets = {} => \A k : Stored(db, k) => Stored(db', k)
<1>0. Good(db) /\ InTransaction
  BY DEF IInv
<1>1. CASE db' = db
  BY <1>1 DEF Evenly
<1>2. CASE CommitPage
  <2>1. PICK p \in Pages :
          /\ db'.links = db.links /\ db'.alias = db.alias
          /\ \A d \in Docs : (~\E i \in DOMAIN p : p[i] = d) => db'.body[d] = db.body[d]
          /\ \A i \in DOMAIN p : p[i] \in Docs /\ db'.body[p[i]] \in Texts
    BY <1>0, <1>2, WritePage
  <2>2. \A k : Stored(db, k) => Stored(db', k)
    BY <2>1, DocumentsAssumption DEF Stored
  <2> QED BY <2>1, <2>2 DEF Evenly
<1>3. ASSUME NEW d \in Docs, Stored(db, d), db' = Observe(db, d)
      PROVE  Evenly(db, db') /\ \A k : Stored(db, k) => Stored(db', k)
  <2>1. db'.body = db.body
    BY <1>0, <1>3, ObserveGood
  <2>2. PICK t : t = db
    OBVIOUS
  <2>3. Evenly(t, Observe(t, d))
    BY <1>0, <1>3, <2>2, ObserveEvenly
  <2> QED BY <1>3, <2>1, <2>2, <2>3 DEF Stored
<1>4. CASE ObserveNext
  BY <1>0, <1>3, <1>4, HeadAndTail DEF ObserveNext
<1>5. CASE ObserveChild
  <2>1. PICK c \in children : db' = Observe(db, c)
    BY <1>5 DEF ObserveChild
  <2> QED BY <1>0, <1>3, <2>1, StoredType DEF InTransaction
<1>6. CASE BindNext
  <2>1. PICK l \in binding : db' = Bind(db, l.doc, l.target, l.origin, l.evidence)
    BY <1>6 DEF BindNext
  <2>2. PICK t, u : t = db /\ u = db'
    OBVIOUS
  <2>3. l \in t.links /\ l \in Links /\ LinkOK(t, l)
    BY <1>0, <2>2 DEF InTransaction, Good, Tables
  <2>4. /\ l.doc \in Ids /\ l.target \in Ids /\ l.evidence \in Evidence
        /\ l.origin \in {l.doc, l.target} /\ (l.doc \in Forgejo <=> l.target \notin Forgejo)
    BY <2>3, DocumentsAssumption DEF Links, LinkOK
  <2>5. Merges(t, u) /\ u.body = t.body
    BY <1>0, <2>1, <2>2, <2>4, BindRows, BindGood
  <2> QED BY <2>2, <2>5 DEF Merges, Evenly, Stored
<1>7. CASE \E type \in world.resets : Reset(type)
  <2>1. PICK type \in world.resets : Reset(type)
    BY <1>7
  <2>2. \A d \in Docs : db'.alias[d] \in {NoRow, db.alias[d]}
    BY <1>0, <2>1, ResetRows
  <2> QED BY <2>1, <2>2 DEF Evenly
<1>8. db' = db \/ CommitPage \/ ObserveNext \/ ObserveChild \/ BindNext
      \/ \E type \in world.resets : Reset(type)
  BY DEF Next, vars, Revisit, AllObserved, ReadLinks, ReadChildren, Settled, Commit
<1> QED BY <1>1, <1>2, <1>4, <1>5, <1>6, <1>7, <1>8

\* As long as threads are not parted, nobody leaves a conversation.
LEMMA SameThreadStays ==
  ASSUME IInv, IInv', [Next]_vars, [~PartsThreads]_vars,
         NEW d \in Docs, NEW e \in Docs, SameThread(db, d, e),
         world.resets = {} \/ (d \in Forgejo <=> e \notin Forgejo)
  PROVE  SameThread(db', d, e)
<1>1. PICK t, u : t = db /\ u = db'
  OBVIOUS
<1>2. Good(t) /\ Good(u)
  BY <1>1 DEF IInv
<1>3. CASE vars' = vars
  <2>1. db' = db
    BY <1>3 DEF vars
  <2> QED BY <2>1
<1>4. CASE ~PartsThreads
  <2>1. PICK p, q : p = Parent[d] /\ q = Parent[e]
    OBVIOUS
  <2>2. /\ p \in Ids /\ q \in Ids /\ p # NoId /\ q # NoId
        /\ p \in Forgejo <=> d \in Forgejo
        /\ q \in Forgejo <=> e \in Forgejo
    BY <2>1, DocumentsAssumption, ForgesAssumption DEF SameThread
  <2>3. Together(t, p, q)
    BY <1>1, <1>2, <2>1, TogetherIsSameId DEF SameThread
  <2>4. Evenly(t, u) /\ (world.resets = {} => \A k : Stored(t, k) => Stored(u, k))
    BY <1>1, NextIsEven
  <2>5. \A x \in {ActualId(t, p), ActualId(t, q)} :
          x \in Docs /\ t.alias[x] # NoRow => u.alias[x] # NoRow
    BY <1>1, <1>4, <2>1, <2>2 DEF PartsThreads
  <2>6. Together(u, p, q)
    BY <1>2, <2>2, <2>3, <2>4, <2>5, TogetherStays
  <2> QED BY <1>1, <1>2, <2>1, <2>2, <2>6, TogetherIsSameId DEF SameThread
<1> QED BY <1>3, <1>4

-----------------------------------------------------------------------------
(* Exact evidence stays one to one.                                        *)

\* The two ends of an exact match are documents that were compared, and if they
\* are not threads they are in one conversation.
MatchOK(t, l) ==
  /\ l.doc \in Docs /\ l.target \in Docs
  /\ {l.doc, l.target} \in SameData
  /\ l.doc \notin Threads => SameThread(t, l.doc, l.target)

MatchesOK(t) == \A l \in t.links : l.evidence = "exact" => MatchOK(t, l)

Bound(t) ==
  \A l \in t.links : l.evidence = "exact" => CanonicalId(t, l.doc) = CanonicalId(t, l.target)

\* The match of d that observing it records: of the only candidates of each other.
MatchOf(t, d, l) ==
  /\ l.doc = d /\ l.target \in Docs /\ {d, l.target} \in SameData
  /\ ExactCandidates(MirrorLinks(t, d), d) = {l.target}
  /\ ExactCandidates(MirrorLinks(t, d), l.target) = {d}
  /\ d \notin Threads => SameThread(Observe(t, d), d, l.target)

LEMMA ObserveRecords ==
  ASSUME NEW t, Good(t), NEW d \in Docs, Stored(t, d)
  PROVE  \A l \in Observe(t, d).links :
           l.evidence = "exact" /\ l \notin t.links => MatchOf(t, d, l)
<1> SUFFICES ASSUME NEW l \in Observe(t, d).links, l.evidence = "exact", l \notin t.links
             PROVE  MatchOf(t, d, l)
  OBVIOUS
<1>1. PICK v, u : v = MirrorLinks(t, d) /\ u = Observe(t, d)
  OBVIOUS
<1>2. /\ Good(v) /\ v.body = t.body
      /\ \A m \in v.links : m.evidence = "exact" => m \in t.links
  BY <1>1, MirrorLinksRows
<1>3. Stored(v, d) /\ u = ExactLinks(v, d) /\ Good(u) /\ u.body = v.body
  BY <1>1, <1>2, ObserveGood DEF Stored, Observe
<1>4. l \notin v.links
  BY <1>2
<1>5. \A k : u # InvalidateExact(v, k)
  BY <1>1, <1>2, <1>4, InvalidateRows
<1>6. PICK e \in ExactCandidates(v, d) : \E o \in {d, e} :
        /\ ExactCandidates(v, d) = {e}
        /\ ExactCandidates(v, e) = {d}
        /\ u = RecordLink(v, d, e, o, "exact")
  BY <1>1, <1>2, <1>3, <1>4, <1>5, ExactLinksParts
<1>7. PICK o \in {d, e} : u = RecordLink(v, d, e, o, "exact")
  BY <1>6
<1>8. e \in Docs /\ {d, e} \in SameData /\ (d \in Forgejo <=> e \notin Forgejo) /\ d \in Ids /\ e \in Ids
  BY <1>3, CandidatesMutual, DocumentsAssumption
<1>9. l.doc = d /\ l.target = e
  <2>1. PICK w : /\ \A m \in w.links : m \in v.links \/ (m.doc = d /\ m.target = e)
                 /\ RecordLink(v, d, e, o, "exact").links = w.links
    BY <1>2, <1>3, <1>8, RecordLinkParts DEF Evidence
  <2> QED BY <1>1, <1>4, <1>7, <2>1
<1>10. ASSUME d \notin Threads PROVE SameThread(u, d, e)
  <2>1. SameThread(v, d, e)
    BY <1>10 DEF ExactCandidates
  <2>2. Merges(v, u)
    BY <1>2, <1>3, <1>7, <1>8, RecordLinkMerges DEF Evidence
  <2> QED BY <1>2, <1>3, <1>8, <2>1, <2>2, SameThreadMerges
<1> QED BY <1>1, <1>6, <1>8, <1>9, <1>10 DEF MatchOf

\* Two matches of texts as they are that share one document.
Clash(t, l, m) ==
  /\ l.evidence = "exact" /\ m.evidence = "exact"
  /\ Fingerprint(t, l.doc, l.target) /\ Fingerprint(t, m.doc, m.target)
  /\ {l.doc, l.target} # {m.doc, m.target}
  /\ {l.doc, l.target} \cap {m.doc, m.target} # {}

Ends(l, a, b) == (l.doc = a /\ l.target = b) \/ (l.doc = b /\ l.target = a)

\* They share document a and differ in b and c.
LEMMA ClashShape ==
  ASSUME NEW t, NEW l, NEW m, Clash(t, l, m)
  PROVE  \E a, b, c : Ends(l, a, b) /\ Ends(m, a, c) /\ b # c
<1>1. PICK p, q, r, s : p = l.doc /\ q = l.target /\ r = m.doc /\ s = m.target
  OBVIOUS
<1>2. {p, q} # {r, s} /\ {p, q} \cap {r, s} # {}
  BY <1>1 DEF Clash
<1>3. p = r \/ p = s \/ q = r \/ q = s
  BY <1>2
<1>4. CASE p = r
  <2>1. q # s
    BY <1>2, <1>4
  <2> QED BY <1>1, <1>4, <2>1 DEF Ends
<1>5. CASE p = s
  <2>1. q # r
    BY <1>2, <1>5
  <2> QED BY <1>1, <1>5, <2>1 DEF Ends
<1>6. CASE q = r
  <2>1. p # s
    BY <1>2, <1>6
  <2> QED BY <1>1, <1>6, <2>1 DEF Ends
<1>7. CASE q = s
  <2>1. p # r
    BY <1>2, <1>7
  <2> QED BY <1>1, <1>7, <2>1 DEF Ends
<1> QED BY <1>3, <1>4, <1>5, <1>6, <1>7

\* A match that still holds is a candidate.
LEMMA MatchIsCandidate ==
  ASSUME NEW t, Good(t), NEW v, Good(v), v.body = t.body, Merges(t, v),
         NEW l \in t.links, l.evidence = "exact", MatchOK(t, l), Fingerprint(t, l.doc, l.target),
         NEW a, NEW b, Ends(l, a, b)
  PROVE  a \in Docs /\ Stored(v, a) /\ b \in ExactCandidates(v, a)
<1>0. (l.doc = a /\ l.target = b) \/ (l.doc = b /\ l.target = a)
  BY DEF Ends
<1>1. a \in Docs /\ b \in Docs /\ {a, b} \in SameData /\ Kind[a] = Kind[b]
  <2>1. {a, b} = {l.doc, l.target}
    BY <1>0
  <2>2. a \in Docs /\ b \in Docs /\ {a, b} \in SameData
    BY <1>0, <2>1 DEF MatchOK
  <2> QED BY <2>2, ForgesAssumption
<1>2. t.body[a] = t.body[b] /\ t.body[a] \notin Blank
  BY <1>0 DEF Fingerprint
<1>3. Stored(t, l.doc)
  BY DEF Good, LinkOK
<1>4. Stored(v, a) /\ Stored(v, b)
  BY <1>0, <1>1, <1>2, <1>3 DEF Stored
<1>5. Fingerprint(v, a, b)
  BY <1>1, <1>2 DEF Fingerprint
<1>6. a \in Threads \/ SameThread(v, a, b)
  <2>1. l.doc \in Threads <=> a \in Threads
    BY <1>0, <1>1, ThreadKind
  <2>2. ASSUME l.doc \notin Threads PROVE SameThread(v, a, b)
    <3>1. SameThread(t, l.doc, l.target) /\ l.doc \in Docs /\ l.target \in Docs
      BY <2>2 DEF MatchOK
    <3>2. SameThread(v, l.doc, l.target)
      BY <3>1, SameThreadMerges
    <3> QED BY <1>0, <3>2, SameThreadIsEquivalence
  <2> QED BY <2>1, <2>2
<1> QED BY <1>1, <1>4, <1>5, <1>6 DEF ExactCandidates

\* Observing a document of two clashing matches takes one of them away.
LEMMA ObserveEndsClash ==
  ASSUME NEW t, Good(t), MatchesOK(t), Bound(t),
         NEW l \in t.links, NEW m \in t.links, Clash(t, l, m),
         NEW d \in {l.doc, l.target, m.doc, m.target}
  PROVE  l \notin Observe(t, d).links \/ m \notin Observe(t, d).links
<1>1. PICK a, b, c : Ends(l, a, b) /\ Ends(m, a, c) /\ b # c
  BY ClashShape
<1>2. l.evidence = "exact" /\ m.evidence = "exact" /\ MatchOK(t, l) /\ MatchOK(t, m)
      /\ Fingerprint(t, l.doc, l.target) /\ Fingerprint(t, m.doc, m.target)
  BY DEF Clash, MatchesOK
<1>3. Ends(l, b, a) /\ Ends(m, c, a)
  BY <1>1 DEF Ends
<1>4. PICK v : v = MirrorLinks(t, d)
  OBVIOUS
<1>5. /\ a \in Docs /\ b \in Docs /\ c \in Docs
      /\ Stored(t, a) /\ Stored(t, b) /\ Stored(t, c)
  <2>1. Merges(t, t)
    BY DEF Merges
  <2> QED BY <1>1, <1>2, <1>3, <2>1, MatchIsCandidate
<1>6. d \in {a, b, c} /\ d \in Docs /\ Stored(t, d)
  BY <1>1, <1>5 DEF Ends
<1>7. Good(v) /\ v.body = t.body /\ Merges(t, v) /\ Stored(v, d) /\ Observe(t, d) = ExactLinks(v, d)
  BY <1>4, <1>6, MirrorLinksRows DEF Stored, Observe
<1>8. /\ b \in ExactCandidates(v, a) /\ a \in ExactCandidates(v, b)
      /\ c \in ExactCandidates(v, a) /\ a \in ExactCandidates(v, c)
  BY <1>1, <1>2, <1>3, <1>7, MatchIsCandidate
<1>9. \A x \in {b, c} : v.alias[a] # NoRow /\ v.alias[x] = v.alias[a]
  <2>0. a \notin ExactCandidates(v, a)
    BY <1>5, <1>7, CandidatesMutual DEF Stored
  <2>1. a # b /\ a # c
    BY <1>8, <2>0
  <2>2. CanonicalId(t, a) = CanonicalId(t, b) /\ CanonicalId(t, a) = CanonicalId(t, c)
    BY <1>1, <1>2 DEF Bound, Ends
  <2>3. t.alias[a] # NoRow /\ t.alias[a] = t.alias[b] /\ t.alias[a] = t.alias[c]
    BY <1>5, <2>1, <2>2, SameIdSameRow
  <2> QED BY <1>5, <1>7, <2>3 DEF Merges
<1>10. \A x \in {a, b, c} : x \in Docs /\ v.alias[x] # NoRow /\ CanonicalId(v, x) = v.alias[x].canonical
  BY <1>5, <1>7, <1>9 DEF CanonicalId, ActualId, Stored
<1>11. \A x, y \in {a, b, c} : x \in Members(v, CanonicalId(v, y))
  BY <1>9, <1>10 DEF Members
<1>12. ASSUME NEW y \in {a, b, c}, Observe(t, d) = InvalidateExact(v, y)
       PROVE  l \notin Observe(t, d).links
  <2>1. a \in {l.doc, l.target} /\ a \in Members(v, CanonicalId(v, y))
    BY <1>1, <1>11 DEF Ends
  <2> QED BY <1>2, <1>7, <1>12, <2>1, InvalidateRows
<1>13. CASE d = a
  <2>1. ~\E e : ExactCandidates(v, a) = {e}
    BY <1>1, <1>8
  <2>2. ExactLinks(v, a) = InvalidateExact(v, a)
    <3>1. \/ ExactCandidates(v, a) = {}
          \/ ExactLinks(v, a) = InvalidateExact(v, a)
          \/ \E e : ExactCandidates(v, a) = {e}
      BY <1>6, <1>7, <1>13, ExactLinksParts
    <3> QED BY <1>8, <2>1, <3>1
  <2>3. Observe(t, d) = InvalidateExact(v, a)
    BY <1>7, <1>13, <2>2
  <2> QED BY <1>12, <2>3
<1>14. CASE d \in {b, c}
  <2>1. a \in ExactCandidates(v, d)
    BY <1>8, <1>14
  <2>2. ~\E e : ExactCandidates(v, a) = {e}
    BY <1>1, <1>8
  <2>3. \A e : ExactCandidates(v, d) = {e} => e = a
    BY <2>1
  <2>4. Observe(t, d) = InvalidateExact(v, d) \/ Observe(t, d) = InvalidateExact(v, a)
    <3>1. \/ ExactCandidates(v, d) = {}
          \/ ExactLinks(v, d) = InvalidateExact(v, d)
          \/ \E e : ExactCandidates(v, d) = {e} /\ ExactLinks(v, d) = InvalidateExact(v, e)
          \/ \E e : ExactCandidates(v, d) = {e} /\ ExactCandidates(v, e) = {d}
      BY <1>6, <1>7, ExactLinksParts
    <3> QED BY <1>7, <2>1, <2>2, <2>3, <3>1
  <2> QED BY <1>6, <1>12, <2>4
<1> QED BY <1>6, <1>13, <1>14

\* A document that is observed records no match that clashes with another.
LEMMA NewMatchIsAlone ==
  ASSUME NEW t, Good(t), MatchesOK(t), NEW d \in Docs, Stored(t, d),
         NEW l \in Observe(t, d).links, NEW m \in Observe(t, d).links, Clash(Observe(t, d), l, m)
  PROVE  l \in t.links /\ m \in t.links /\ Clash(t, l, m)
<1>1. PICK v, u : v = MirrorLinks(t, d) /\ u = Observe(t, d)
  OBVIOUS
<1>2. Good(v) /\ v.body = t.body /\ Merges(t, v) /\ Good(u) /\ u.body = t.body /\ Stored(v, d)
  BY <1>1, MirrorLinksRows, ObserveGood DEF Stored
<1>3. Clash(t, l, m) /\ Clash(t, m, l)
  BY <1>1, <1>2 DEF Clash, Fingerprint
<1>4. ASSUME NEW x \in u.links, NEW y \in u.links, Clash(t, x, y), x \notin t.links PROVE FALSE
  <2>1. x.evidence = "exact" /\ y.evidence = "exact" /\ Fingerprint(t, y.doc, y.target)
    BY <1>4 DEF Clash
  <2>0. \A z \in u.links : z.evidence = "exact" /\ z \notin t.links => MatchOf(t, d, z)
    BY <1>1, ObserveRecords
  <2>2. PICK e : /\ e = x.target /\ x.doc = d
                 /\ ExactCandidates(v, d) = {e} /\ ExactCandidates(v, e) = {d}
    <3>1. MatchOf(t, d, x)
      BY <1>4, <2>0, <2>1
    <3> QED BY <1>1, <3>1 DEF MatchOf
  <2>3. CASE y \notin t.links
    <3>1. MatchOf(t, d, y)
      BY <2>0, <2>1, <2>3
    <3>2. y.doc = d /\ y.target = e
      BY <1>1, <2>2, <3>1 DEF MatchOf
    <3> QED BY <1>4, <2>2, <3>2 DEF Clash
  <2>4. CASE y \in t.links
    <3>1. MatchOK(t, y)
      BY <2>1, <2>4 DEF MatchesOK
    <3>2. PICK a, b, c : Ends(x, a, b) /\ Ends(y, a, c) /\ b # c
      BY <1>4, ClashShape
    <3>3. c \in ExactCandidates(v, a)
      BY <1>2, <2>1, <2>4, <3>1, <3>2, MatchIsCandidate
    <3>4. (a = d /\ b = e) \/ (a = e /\ b = d)
      BY <2>2, <3>2 DEF Ends
    <3> QED BY <2>2, <3>2, <3>3, <3>4
  <2> QED BY <2>3, <2>4
<1> QED BY <1>1, <1>3, <1>4

\* A clash waits for one of its documents to be observed.
ClashesAwait ==
  \A l, m \in db.links : Clash(db, l, m) =>
    phase = "observe" /\ \E i \in DOMAIN todo : todo[i] \in {l.doc, l.target, m.doc, m.target}

\* What a step is to the links and the texts: an observation, a page written, or
\* neither, and then it adds none.
LEMMA Steps ==
  ASSUME IInv, [Next]_vars
  PROVE  \/ \E d \in Docs :
              /\ Stored(db, d) /\ db' = Observe(db, d)
              /\ \/ /\ phase = "observe" /\ phase' = "observe"
                    /\ todo # <<>> /\ d = Head(todo) /\ todo' = Tail(todo)
                 \/ phase = "children"
         \/ CommitPage
         \/ /\ db'.links \subseteq db.links
            /\ \A d \in Docs : db'.body[d] \in {Absent, db.body[d]}
            /\ phase = "observe" /\ todo # <<>> => phase' = phase /\ todo' = todo
<1>0. Good(db) /\ InTransaction
  BY DEF IInv
<1>1. CASE vars' = vars
  BY <1>1 DEF vars, transaction
<1>2. CASE ObserveNext
  BY <1>0, <1>2, HeadAndTail DEF ObserveNext
<1>3. CASE ObserveChild
  <2>1. PICK c \in children : db' = Observe(db, c)
    BY <1>3 DEF ObserveChild
  <2>2. Stored(db, c) /\ c \in Docs /\ phase = "children"
    BY <1>0, <1>3, <2>1, StoredType DEF InTransaction, ObserveChild
  <2> QED BY <2>1, <2>2
<1>4. CASE BindNext
  <2>1. PICK l \in binding : db' = Bind(db, l.doc, l.target, l.origin, l.evidence)
    BY <1>4 DEF BindNext
  <2>2. l \in db.links /\ l \in Links /\ LinkOK(db, l)
    BY <1>0 DEF InTransaction, Good, Tables
  <2>3. /\ l.doc \in Ids /\ l.target \in Ids /\ l.evidence \in Evidence
        /\ l.origin \in {l.doc, l.target} /\ (l.doc \in Forgejo <=> l.target \notin Forgejo)
    BY <2>2, DocumentsAssumption DEF Links, LinkOK
  <2>4. db'.links = db.links /\ db'.body = db.body
    BY <1>0, <2>1, <2>3, BindGood
  <2> QED BY <1>4, <2>4 DEF BindNext
<1>5. CASE \E type \in world.resets : Reset(type)
  <2>1. PICK type : Reset(type)
    BY <1>5
  <2> QED BY <1>0, <2>1, ResetRows DEF Reset
<1>6. CASE Revisit \/ AllObserved \/ ReadLinks \/ ReadChildren \/ Settled \/ Commit
  BY <1>6 DEF Revisit, AllObserved, ReadLinks, ReadChildren, Settled, Commit
<1> QED BY <1>1, <1>2, <1>3, <1>4, <1>5, <1>6 DEF Next

LEMMA MatchesStep ==
  ASSUME IInv, IInv', [Next]_vars, [~PartsThreads]_vars, MatchesOK(db)
  PROVE  MatchesOK(db')
<1>1. PICK t, u : t = db /\ u = db'
  OBVIOUS
<1>2. Good(t) /\ Good(u)
  BY <1>1 DEF IInv
<1>3. ASSUME NEW l \in u.links, l.evidence = "exact", l \in t.links PROVE MatchOK(u, l)
  <2>1. /\ l.doc \in Docs /\ l.target \in Docs /\ {l.doc, l.target} \in SameData
        /\ l.doc \notin Threads => SameThread(t, l.doc, l.target)
    BY <1>1, <1>3 DEF MatchesOK, MatchOK
  <2>2. l.doc \in Forgejo <=> l.target \notin Forgejo
    BY <2>1, ForgesAssumption
  <2>3. l.doc \notin Threads => SameThread(u, l.doc, l.target)
    BY <1>1, <2>1, <2>2, SameThreadStays
  <2> QED BY <2>1, <2>3 DEF MatchOK
<1>4. ASSUME NEW l \in u.links, l.evidence = "exact", l \notin t.links PROVE MatchOK(u, l)
  <2>1. PICK d \in Docs : Stored(t, d) /\ u = Observe(t, d)
    <3>1. ~CommitPage
      BY <1>1, <1>2, <1>4, WritePage
    <3> QED BY <1>1, <1>4, <3>1, Steps
  <2>2. MatchOf(t, d, l)
    BY <1>2, <1>4, <2>1, ObserveRecords
  <2> QED BY <2>1, <2>2 DEF MatchOf, MatchOK
<1> QED BY <1>1, <1>3, <1>4 DEF MatchesOK

LEMMA ClashesStep ==
  ASSUME IInv, IInv', [Next]_vars, MatchesOK(db), MatchesAreBound, ClashesAwait
  PROVE  ClashesAwait'
<1>1. PICK t, u : t = db /\ u = db'
  OBVIOUS
<1>2. Good(t) /\ Good(u) /\ MatchesOK(t) /\ Bound(t)
  BY <1>1 DEF IInv, MatchesAreBound, Bound
<1> SUFFICES ASSUME NEW l \in u.links, NEW m \in u.links, Clash(u, l, m)
             PROVE  /\ phase' = "observe"
                    /\ \E i \in DOMAIN todo' : todo'[i] \in {l.doc, l.target, m.doc, m.target}
  BY <1>1 DEF ClashesAwait
<1>3. /\ u.body[l.doc] # Absent /\ u.body[l.target] = u.body[l.doc]
      /\ u.body[m.doc] # Absent /\ u.body[m.target] = u.body[m.doc]
  BY <1>2 DEF Good, LinkOK, Stored, Clash, Fingerprint
<1>4. ASSUME l \in t.links, m \in t.links, Clash(t, l, m)
      PROVE  /\ phase = "observe" /\ todo # <<>>
             /\ \E i \in DOMAIN todo : todo[i] \in {l.doc, l.target, m.doc, m.target}
  BY <1>1, <1>4 DEF ClashesAwait
<1>5. ASSUME l \in t.links, m \in t.links
      PROVE  /\ l.doc \in Docs /\ l.target \in Docs
             /\ m.doc \in Docs /\ m.target \in Docs
  BY <1>2, <1>5 DEF Clash, MatchesOK, MatchOK
<1>6. ASSUME NEW d \in Docs, Stored(t, d), u = Observe(t, d),
             \/ /\ phase = "observe" /\ phase' = "observe"
                /\ todo # <<>> /\ d = Head(todo) /\ todo' = Tail(todo)
             \/ phase = "children"
      PROVE  /\ phase' = "observe"
             /\ \E i \in DOMAIN todo' : todo'[i] \in {l.doc, l.target, m.doc, m.target}
  <2>1. l \in t.links /\ m \in t.links /\ Clash(t, l, m)
    BY <1>2, <1>6, NewMatchIsAlone
  <2>2. /\ phase' = "observe" /\ todo # <<>> /\ d = Head(todo) /\ todo' = Tail(todo)
    BY <1>4, <1>6, <2>1
  <2>3. PICK i \in DOMAIN todo : todo[i] \in {l.doc, l.target, m.doc, m.target}
    BY <1>4, <2>1
  <2>4. d \notin {l.doc, l.target, m.doc, m.target}
    BY <1>2, <1>6, <2>1, ObserveEndsClash
  <2>5. todo \in Seq(Docs)
    BY DEF IInv, InTransaction
  <2>6. i # 1 /\ i \in 1..Len(todo)
    BY <2>2, <2>3, <2>4, <2>5
  <2>7. i - 1 \in DOMAIN todo' /\ todo'[i - 1] = todo[i]
    BY <2>2, <2>5, <2>6
  <2> QED BY <2>2, <2>3, <2>7
<1>7. ASSUME CommitPage
      PROVE  /\ phase' = "observe"
             /\ \E i \in DOMAIN todo' : todo'[i] \in {l.doc, l.target, m.doc, m.target}
  <2>1. PICK p \in Pages :
          /\ u.links = t.links
          /\ \A d \in Docs : (~\E i \in DOMAIN p : p[i] = d) => u.body[d] = t.body[d]
          /\ Begin(p)
    BY <1>1, <1>2, <1>7, WritePage
  <2>2. phase = "idle"
    BY <1>7 DEF CommitPage
  <2>3. ~Clash(t, l, m)
    BY <1>4, <2>1, <2>2
  <2>4. \E d \in {l.doc, l.target, m.doc, m.target} : u.body[d] # t.body[d]
    BY <2>3 DEF Clash, Fingerprint
  <2> QED BY <1>5, <2>1, <2>4 DEF Begin
<1>8. ASSUME /\ u.links \subseteq t.links
             /\ \A d \in Docs : u.body[d] \in {Absent, t.body[d]}
             /\ phase = "observe" /\ todo # <<>> => phase' = phase /\ todo' = todo
      PROVE  /\ phase' = "observe"
             /\ \E i \in DOMAIN todo' : todo'[i] \in {l.doc, l.target, m.doc, m.target}
  <2>1. /\ u.body[l.doc] = t.body[l.doc] /\ u.body[l.target] = t.body[l.target]
        /\ u.body[m.doc] = t.body[m.doc] /\ u.body[m.target] = t.body[m.target]
    BY <1>3, <1>5, <1>8
  <2>2. Clash(t, l, m)
    BY <2>1 DEF Clash, Fingerprint
  <2> QED BY <1>4, <1>8, <2>2
<1> QED BY <1>1, <1>6, <1>7, <1>8, Steps

\* Two matches that both still hold have no document in common whenever no page
\* is being reconciled, in every run that parts no thread from its counterpart
\* and in which bind refuses no exact match: a change of text brings a clash
\* about, and it is over when one of the two texts' documents is observed.
THEOREM MatchesStayOneToOne ==
  Spec /\ [][~PartsThreads]_vars /\ []MatchesAreBound => []CurrentMatchesOneToOne
<1>1. Init => MatchesOK(db) /\ ClashesAwait
  BY DEF Init, MatchesOK, ClashesAwait
<1>2. /\ IInv /\ IInv' /\ [Next]_vars /\ [~PartsThreads]_vars
      /\ MatchesAreBound /\ MatchesOK(db) /\ ClashesAwait
      => MatchesOK(db)' /\ ClashesAwait'
  BY MatchesStep, ClashesStep
<1>3. ClashesAwait => CurrentMatchesOneToOne
  <2>1. ASSUME ClashesAwait, phase = "idle", NEW l \in db.links, NEW m \in db.links PROVE ~Clash(db, l, m)
    BY <2>1 DEF ClashesAwait
  <2> QED BY <2>1 DEF CurrentMatchesOneToOne, Clash
<1> QED BY <1>1, <1>2, <1>3, Invariant, PTL DEF Spec

-----------------------------------------------------------------------------
(* Copies of one comment stay in one conversation.                         *)

Comments == Docs \ Threads

ExactRow(t, c) == t.alias[c] # NoRow /\ t.alias[c].evidence = "exact"

\* The row of a comment rests on an exact match, or mirror evidence is about it.
RowsRest(t) ==
  \A c \in Comments : t.alias[c] # NoRow /\ ~ExactRow(t, c) =>
    \E l \in t.links : l.evidence # "exact" /\ c \in {l.doc, l.target}

\* No exact match of comments waits to be bound.
CommentsBound(t) ==
  \A l \in t.links : l.evidence = "exact" /\ l.doc \in Comments =>
    l.target \in Docs /\ t.alias[l.doc] # NoRow /\ t.alias[l.doc] = t.alias[l.target]

Settles(t) == RowsRest(t) /\ CommentsBound(t)

Sharing(t) ==
  \A d, e \in Comments : ExactRow(t, d) /\ t.alias[e] = t.alias[d] => SameThread(t, d, e)

\* None of the links is mirror evidence about a comment matched exactly.
Quiet(t, links) ==
  \A c \in Comments : ExactRow(t, c) =>
    ~\E l \in links : l.evidence # "exact" /\ c \in {l.doc, l.target}

\* No comment is matched anew.
OldMatches(t, u) == \A c \in Comments : ExactRow(u, c) => u.alias[c] = t.alias[c]

LEMMA QuietStays ==
  ASSUME NEW t, NEW u, OldMatches(t, u), NEW L, Quiet(t, L)
  PROVE  Quiet(u, L)
BY DEF OldMatches, Quiet, ExactRow

\* bind, called for a link that is in the table and with mirror evidence if the
\* link is mirror evidence, matches no comment anew.
LEMMA BindSettles ==
  ASSUME NEW t, Good(t), Settles(t), Quiet(t, t.links),
         NEW a \in Ids, NEW b \in Ids, NEW o \in {a, b}, NEW ev \in Evidence,
         a \in Forgejo <=> b \notin Forgejo,
         NEW l \in t.links, l.doc = a, l.target = b,
         l.evidence # "exact" => ev # "exact"
  PROVE  LET u == Bind(t, a, b, o, ev)
         IN  Settles(u) /\ OldMatches(t, u) /\ u.links = t.links
<1>1. PICK u : u = Bind(t, a, b, o, ev)
  OBVIOUS
<1>2. u.links = t.links /\ Good(u) /\ Merges(t, u)
  BY <1>1, BindGood, BindRows
<1>3. CommentsBound(u)
  <2> SUFFICES ASSUME NEW m \in u.links, m.evidence = "exact", m.doc \in Comments
               PROVE  m.target \in Docs /\ u.alias[m.doc] # NoRow /\ u.alias[m.doc] = u.alias[m.target]
    BY DEF CommentsBound
  <2>1. m.target \in Docs /\ t.alias[m.doc] # NoRow /\ t.alias[m.doc] = t.alias[m.target]
    BY <1>2 DEF Settles, CommentsBound
  <2> QED BY <1>2, <2>1 DEF Merges, Comments
<1>4. CASE ~MayBind(t, a, b, o)
  <2>1. u = t
    BY <1>1, <1>4, BindRows
  <2> QED BY <1>1, <2>1 DEF OldMatches
<1>5. CASE MayBind(t, a, b, o)
  <2>1. PICK row \in Rows : /\ row.evidence = ev
                            /\ \A x \in Docs : u.alias[x] = IF x \in Joined(t, a, b) THEN row ELSE t.alias[x]
    BY <1>1, <1>5, BindRows
  <2>2. /\ Stored(t, a) /\ Stored(t, b) /\ a \in Docs /\ b \in Docs
        /\ Kind[a] = Kind[b] /\ CanonicalId(t, a) # CanonicalId(t, b)
    BY <1>5, StoredType DEF MayBind
  <2>3. CASE a \in Threads
    <3>1. \A x \in Joined(t, a, b) : x \in Docs /\ x \in Threads
      BY <2>2, <2>3, JoinedKind, ThreadKind DEF Good, Groups
    <3>2. \A x \in Comments : u.alias[x] = t.alias[x]
      BY <2>1, <3>1 DEF Comments
    <3>3. RowsRest(u)
      BY <1>2, <3>2 DEF Settles, RowsRest, ExactRow
    <3> QED BY <1>1, <1>2, <1>3, <3>2, <3>3 DEF Settles, OldMatches
  <2>4. CASE a \notin Threads
    <3>1. l.evidence # "exact" /\ ev # "exact"
      <4>1. ASSUME l.evidence = "exact" PROVE FALSE
        <5>1. t.alias[a] # NoRow /\ t.alias[a] = t.alias[b]
          BY <2>2, <2>4, <4>1 DEF Settles, CommentsBound, Comments
        <5>2. CanonicalId(t, a) = CanonicalId(t, b)
          BY <2>2, <5>1, StoredCanonical DEF Good, Groups
        <5> QED BY <2>2, <5>2
      <4> QED BY <4>1
    <3>2. OldMatches(t, u)
      BY <2>1, <3>1 DEF OldMatches, ExactRow, Comments
    <3>3. a \in Comments /\ b \in Comments
      BY <2>2, <2>4, ThreadKind DEF Comments
    <3>4. ~ExactRow(t, a) /\ ~ExactRow(t, b)
      BY <3>1, <3>3 DEF Quiet
    <3>5. ASSUME NEW c \in Comments, u.alias[c] # NoRow, ~ExactRow(u, c)
          PROVE  \E m \in t.links : m.evidence # "exact" /\ c \in {m.doc, m.target}
      <4>1. CASE c \in {a, b}
        BY <3>1, <4>1
      <4>2. CASE c \notin {a, b} /\ c \in Joined(t, a, b)
        <5>1. t.alias[c] # NoRow /\ \E e \in {a, b} : t.alias[c] = t.alias[e]
          BY <2>2, <4>2, JoinedRows
        <5>2. ~ExactRow(t, c)
          BY <3>4, <5>1 DEF ExactRow
        <5> QED BY <5>1, <5>2 DEF Settles, RowsRest
      <4>3. CASE c \notin Joined(t, a, b)
        <5>1. u.alias[c] = t.alias[c]
          BY <2>1, <4>3 DEF Comments
        <5> QED BY <3>5, <5>1 DEF Settles, RowsRest, ExactRow
      <4> QED BY <4>1, <4>2, <4>3
    <3>6. RowsRest(u)
      BY <1>2, <3>5 DEF RowsRest
    <3> QED BY <1>1, <1>2, <1>3, <3>2, <3>6 DEF Settles
  <2> QED BY <2>3, <2>4
<1> QED BY <1>4, <1>5

LEMMA RecordLinkSettles ==
  ASSUME NEW t, Good(t), Settles(t), NEW a \in Ids, NEW b \in Ids, NEW o \in {a, b},
         NEW ev \in {"mirror", "parent"}, a \in Forgejo <=> b \notin Forgejo, Stored(t, a),
         Quiet(t, RecordLink(t, a, b, o, ev).links)
  PROVE  LET u == RecordLink(t, a, b, o, ev)
         IN  Settles(u) /\ OldMatches(t, u)
<1>0. ev \in Evidence /\ ev # "exact"
  BY DEF Evidence
<1>1. PICK v :
    /\ Good(v)
    /\ v.alias = t.alias
    /\ t.links \subseteq v.links
    /\ \A l \in v.links : l \in t.links \/ (l.doc = a /\ l.target = b /\ l.origin = o /\ l.evidence = ev)
    /\ \E l \in v.links : l.doc = a /\ l.target = b /\ (l \in t.links \/ l.evidence = ev)
    /\ RecordLink(t, a, b, o, ev) = Bind(v, a, b, o, ev)
    /\ RecordLink(t, a, b, o, ev).links = v.links
  BY <1>0, RecordLinkParts
<1>2. Settles(v)
  <2>1. RowsRest(v)
    BY <1>1 DEF Settles, RowsRest, ExactRow
  <2>2. CommentsBound(v)
    BY <1>0, <1>1 DEF Settles, CommentsBound
  <2> QED BY <2>1, <2>2 DEF Settles
<1>3. Quiet(v, v.links)
  BY <1>1 DEF Quiet, ExactRow
<1>4. PICK l \in v.links : l.doc = a /\ l.target = b
  BY <1>1
<1>5. Settles(Bind(v, a, b, o, ev)) /\ OldMatches(v, Bind(v, a, b, o, ev))
  BY <1>0, <1>1, <1>2, <1>3, <1>4, BindSettles
<1> QED BY <1>1, <1>5 DEF OldMatches

LEMMA MirrorLinksSettles ==
  ASSUME NEW t, Good(t), Settles(t), NEW d \in Docs, Stored(t, d),
         Quiet(t, MirrorLinks(t, d).links)
  PROVE  Settles(MirrorLinks(t, d)) /\ OldMatches(t, MirrorLinks(t, d))
<1>0. d \in Ids
  BY DocumentsAssumption
<1>1. PICK v : v = MirrorLinks(t, d)
  OBVIOUS
<1>2. CASE v = t
  BY <1>1, <1>2 DEF OldMatches
<1>3. CASE v # t
  <2>1. PICK b \in Ids :
          /\ d \in Forgejo <=> b \notin Forgejo
          /\ LET first == RecordLink(t, d, b, b, "mirror")
             IN  \/ v = first
                 \/ \E p, q \in Ids : \E o \in {p, q} :
                      /\ p \in Forgejo <=> q \notin Forgejo
                      /\ Stored(first, p)
                      /\ v = RecordLink(first, p, q, o, "parent")
    BY <1>1, <1>3, MirrorLinksParts
  <2>2. PICK first : first = RecordLink(t, d, b, b, "mirror")
    OBVIOUS
  <2>3. Good(first)
    BY <1>0, <2>1, <2>2, RecordLinkGood DEF Evidence
  <2>4. ASSUME first.links \subseteq v.links
        PROVE  Settles(first) /\ OldMatches(t, first)
    <3>1. Quiet(t, first.links)
      BY <1>1, <2>4 DEF Quiet
    <3> QED BY <1>0, <2>1, <2>2, <3>1, RecordLinkSettles
  <2>5. CASE v = first
    BY <1>1, <2>4, <2>5
  <2>6. CASE \E p, q \in Ids : \E o \in {p, q} :
               /\ p \in Forgejo <=> q \notin Forgejo
               /\ Stored(first, p)
               /\ v = RecordLink(first, p, q, o, "parent")
    <3>1. PICK p \in Ids, q \in Ids : \E o \in {p, q} :
               /\ p \in Forgejo <=> q \notin Forgejo
               /\ Stored(first, p)
               /\ v = RecordLink(first, p, q, o, "parent")
      BY <2>6
    <3>2. PICK o \in {p, q} : v = RecordLink(first, p, q, o, "parent")
      BY <3>1
    <3>3. first.links \subseteq v.links
      <4>1. \E w : first.links \subseteq w.links /\ RecordLink(first, p, q, o, "parent").links = w.links
        BY <2>3, <3>1, RecordLinkParts DEF Evidence
      <4> QED BY <3>2, <4>1
    <3>4. Settles(first) /\ OldMatches(t, first)
      BY <2>4, <3>3
    <3>5. Quiet(first, v.links)
      BY <1>1, <3>4, QuietStays
    <3>6. Settles(v) /\ OldMatches(first, v)
      BY <2>3, <3>1, <3>2, <3>4, <3>5, RecordLinkSettles
    <3>7. OldMatches(t, v)
      BY <3>4, <3>6 DEF OldMatches, ExactRow
    <3> QED BY <1>1, <3>6, <3>7
  <2> QED BY <2>1, <2>2, <2>5, <2>6
<1> QED BY <1>2, <1>3

\* Two comments that are matched after a step were so before, or are in one
\* conversation.
Carries(t, u) ==
  \A x, y \in Comments : ExactRow(u, x) /\ u.alias[y] = u.alias[x] =>
    \/ ExactRow(t, x) /\ t.alias[y] = t.alias[x]
    \/ SameThread(u, x, y)

LEMMA OldIsCarried ==
  ASSUME NEW t, NEW v, NEW u, OldMatches(t, v), Carries(v, u)
  PROVE  Carries(t, u)
BY DEF OldMatches, Carries, ExactRow

\* Nothing speaks against binding two comments.
LEMMA CommentsBind ==
  ASSUME NEW t, Good(t), NEW d \in Comments, NEW e \in Docs, Stored(t, d), Stored(t, e), d # e,
         Kind[d] = Kind[e], NEW o \in {d, e}, ~MayBind(t, d, e, o)
  PROVE  t.alias[d] # NoRow /\ t.alias[d] = t.alias[e]
<1>1. d \in Docs /\ d \notin Threads /\ t \in Tables /\ Star(t)
  BY DEF Comments, Good, Groups
<1>2. \A x \in Joined(t, d, e) : x \notin Threads
  BY <1>1, JoinedKind, ThreadKind
<1>3. ~Conflict(Joined(t, d, e))
  BY <1>2 DEF Conflict
<1>4. Preferred(d, e, o) \in Joined(t, d, e)
  BY <1>1 DEF Preferred, Joined
<1>5. CanonicalId(t, d) = CanonicalId(t, e)
  BY <1>3, <1>4 DEF MayBind
<1> QED BY <1>5, SameIdSameRow

LEMMA MatchSettles ==
  ASSUME NEW t, Good(t), Settles(t), Sharing(t), NEW d \in Docs, NEW e \in Docs, NEW o \in {d, e},
         Stored(t, d), Stored(t, e), Kind[d] = Kind[e], d \in Forgejo <=> e \notin Forgejo,
         d \notin Threads => SameThread(t, d, e),
         LET u == RecordLink(t, d, e, o, "exact") IN Quiet(u, u.links)
  PROVE  LET u == RecordLink(t, d, e, o, "exact") IN Settles(u) /\ Carries(t, u)
<1>0. d \in Ids /\ e \in Ids /\ "exact" \in Evidence /\ d # e
  BY DocumentsAssumption DEF Evidence
<1>1. PICK u : u = RecordLink(t, d, e, o, "exact")
  OBVIOUS
<1>2. PICK v :
    /\ Good(v) /\ v.body = t.body /\ v.alias = t.alias
    /\ t.links \subseteq v.links
    /\ \A l \in v.links : l \in t.links \/ (l.doc = d /\ l.target = e /\ l.origin = o /\ l.evidence = "exact")
    /\ u = Bind(v, d, e, o, "exact")
    /\ u.links = v.links
  BY <1>0, <1>1, RecordLinkParts
<1>3. /\ Good(u) /\ u.body = t.body /\ Merges(t, u)
  BY <1>0, <1>1, RecordLinkGood, RecordLinkMerges
<1>4. Stored(v, d) /\ Stored(v, e)
  BY <1>2 DEF Stored
<1>5. ASSUME d \in Comments PROVE u.alias[d] # NoRow /\ u.alias[d] = u.alias[e]
  <2>1. CASE ~MayBind(v, d, e, o)
    <3>1. u = v
      BY <1>0, <1>2, <2>1, BindRows
    <3> QED BY <1>0, <1>2, <1>4, <1>5, <2>1, <3>1, CommentsBind
  <2>2. CASE MayBind(v, d, e, o)
    <3>1. PICK row \in Rows : \A x \in Docs : u.alias[x] = IF x \in Joined(v, d, e) THEN row ELSE v.alias[x]
      BY <1>0, <1>2, <2>2, BindRows
    <3> QED BY <3>1, RowsAssumption DEF Joined
  <2> QED BY <2>1, <2>2
<1>6. CommentsBound(u)
  <2> SUFFICES ASSUME NEW m \in u.links, m.evidence = "exact", m.doc \in Comments
               PROVE  m.target \in Docs /\ u.alias[m.doc] # NoRow /\ u.alias[m.doc] = u.alias[m.target]
    BY DEF CommentsBound
  <2>1. CASE m \in t.links
    <3>1. m.target \in Docs /\ t.alias[m.doc] # NoRow /\ t.alias[m.doc] = t.alias[m.target]
      BY <2>1 DEF Settles, CommentsBound
    <3> QED BY <1>3, <3>1 DEF Merges, Comments
  <2>2. CASE m \notin t.links
    BY <1>2, <1>5, <2>2
  <2> QED BY <2>1, <2>2
<1>7. CASE \A x \in Comments : u.alias[x] = t.alias[x]
  <2>1. RowsRest(u)
    BY <1>2, <1>7 DEF Settles, RowsRest, ExactRow
  <2>2. Carries(t, u)
    BY <1>7 DEF Carries, ExactRow
  <2> QED BY <1>1, <1>6, <2>1, <2>2 DEF Settles
<1>8. CASE ~\A x \in Comments : u.alias[x] = t.alias[x]
  <2>1. MayBind(v, d, e, o)
    BY <1>0, <1>2, <1>8, BindRows
  <2>2. PICK row \in Rows :
          /\ row.evidence = "exact"
          /\ row.canonical \in Joined(v, d, e)
          /\ \A x \in Docs : u.alias[x] = IF x \in Joined(v, d, e) THEN row ELSE t.alias[x]
    BY <1>0, <1>2, <2>1, BindRows
  <2>3. row # NoRow
    BY RowsAssumption
  <2>4. \A x \in Joined(v, d, e) : x \in Docs /\ (x \in Threads <=> d \in Threads)
    BY <1>2, <1>4, JoinedKind, ThreadKind DEF Good, Groups
  <2>5. d \in Comments /\ e \in Comments /\ SameThread(t, d, e)
    BY <1>8, <2>2, <2>4, ThreadKind DEF Comments
  <2>6. \A x \in {d, e} : t.alias[x] # NoRow => ExactRow(t, x)
    <3>1. ASSUME NEW x \in {d, e}, t.alias[x] # NoRow, ~ExactRow(t, x) PROVE FALSE
      <4>1. PICK l \in t.links : l.evidence # "exact" /\ x \in {l.doc, l.target}
        BY <2>5, <3>1 DEF Settles, RowsRest
      <4>2. l \in u.links
        BY <1>2
      <4>3. ExactRow(u, x)
        BY <2>2, <2>3 DEF Joined, ExactRow
      <4> QED BY <1>1, <2>5, <4>1, <4>2, <4>3 DEF Quiet
    <3> QED BY <3>1
  <2>7. ASSUME NEW x \in Joined(v, d, e) PROVE x \in Comments /\ SameThread(t, x, d)
    <3>1. x \in Comments
      BY <2>4, <2>5 DEF Comments
    <3>2. x \in {d, e} \/ \E f \in {d, e} : t.alias[x] # NoRow /\ t.alias[x] = t.alias[f]
      BY <1>2, <1>4, JoinedRows
    <3>3. \A f \in {d, e} : SameThread(t, f, d)
      BY <2>5, SameThreadIsEquivalence
    <3>4. ASSUME NEW f \in {d, e}, t.alias[x] # NoRow, t.alias[x] = t.alias[f] PROVE SameThread(t, x, f)
      <4>1. ExactRow(t, f)
        BY <2>6, <3>4
      <4>2. ExactRow(t, x)
        BY <3>4, <4>1 DEF ExactRow
      <4> QED BY <2>5, <3>1, <3>4, <4>2 DEF Sharing
    <3>5. SameThread(t, x, d)
      BY <3>2, <3>3, <3>4, SameThreadIsEquivalence
    <3> QED BY <3>1, <3>5
  <2>8. RowsRest(u)
    <3>1. ASSUME NEW c \in Comments, u.alias[c] # NoRow, ~ExactRow(u, c)
          PROVE  \E m \in u.links : m.evidence # "exact" /\ c \in {m.doc, m.target}
      <4>1. c \notin Joined(v, d, e) /\ c \in Docs
        BY <2>2, <3>1 DEF ExactRow, Comments
      <4>2. u.alias[c] = t.alias[c]
        BY <2>2, <4>1
      <4> QED BY <1>2, <3>1, <4>2 DEF Settles, RowsRest, ExactRow
    <3> QED BY <3>1 DEF RowsRest
  <2>9. \A x \in Docs : u.alias[x] = row => x \in Joined(v, d, e)
    <3>1. ASSUME NEW x \in Docs, x \notin Joined(v, d, e), u.alias[x] = row PROVE FALSE
      <4>1. v.alias[x] = row
        BY <1>2, <2>2, <3>1
      <4>2. v.alias[row.canonical] = v.alias[x]
        BY <1>2, <2>3, <4>1 DEF Good, Groups, Star
      <4> QED BY <1>2, <1>4, <2>2, <2>3, <3>1, <4>1, <4>2, JoinedClosed DEF Good, Groups
    <3> QED BY <3>1
  <2>10. Carries(t, u)
    <3> SUFFICES ASSUME NEW x \in Comments, NEW y \in Comments, ExactRow(u, x), u.alias[y] = u.alias[x]
                 PROVE  (ExactRow(t, x) /\ t.alias[y] = t.alias[x]) \/ SameThread(u, x, y)
      BY DEF Carries
    <3>0. x \in Docs /\ y \in Docs
      BY DEF Comments
    <3>1. CASE x \in Joined(v, d, e)
      <4>1. y \in Joined(v, d, e)
        BY <2>2, <2>9, <3>0, <3>1
      <4>2. SameThread(t, x, d) /\ SameThread(t, y, d)
        BY <2>7, <3>1, <4>1
      <4>3. SameThread(t, x, y)
        BY <4>2, SameThreadIsEquivalence
      <4> QED BY <1>3, <3>0, <4>3, SameThreadMerges
    <3>2. CASE x \notin Joined(v, d, e)
      <4>1. u.alias[x] # row
        BY <2>9, <3>0, <3>2
      <4>2. u.alias[x] = t.alias[x] /\ u.alias[y] = t.alias[y]
        BY <2>2, <3>0, <3>2, <4>1
      <4> QED BY <4>2 DEF ExactRow
    <3> QED BY <3>1, <3>2
  <2> QED BY <1>1, <1>6, <2>8, <2>10 DEF Settles
<1> QED BY <1>7, <1>8

LEMMA InvalidateSettles ==
  ASSUME NEW t, Good(t), Settles(t), NEW k
  PROVE  Settles(InvalidateExact(t, k)) /\ Carries(t, InvalidateExact(t, k))
<1>1. PICK u, M : u = InvalidateExact(t, k) /\ M = Members(t, CanonicalId(t, k))
  OBVIOUS
<1>2. /\ u.links = {l \in t.links : l.evidence = "exact" => {l.doc, l.target} \cap M = {}}
      /\ \A x \in Docs : u.alias[x] = IF x \in M /\ t.alias[x].evidence = "exact"
                                      THEN NoRow ELSE t.alias[x]
  BY <1>1, InvalidateRows
<1>3. RowsRest(u)
  <2>1. ASSUME NEW c \in Comments, u.alias[c] # NoRow, ~ExactRow(u, c)
        PROVE  \E m \in u.links : m.evidence # "exact" /\ c \in {m.doc, m.target}
    <3>1. u.alias[c] = t.alias[c]
      BY <1>2, <2>1 DEF Comments
    <3>2. PICK m \in t.links : m.evidence # "exact" /\ c \in {m.doc, m.target}
      BY <2>1, <3>1 DEF Settles, RowsRest, ExactRow
    <3> QED BY <1>2, <3>2
  <2> QED BY <2>1 DEF RowsRest
<1>4. CommentsBound(u)
  <2> SUFFICES ASSUME NEW m \in u.links, m.evidence = "exact", m.doc \in Comments
               PROVE  m.target \in Docs /\ u.alias[m.doc] # NoRow /\ u.alias[m.doc] = u.alias[m.target]
    BY DEF CommentsBound
  <2>1. m \in t.links /\ m.doc \notin M /\ m.target \notin M
    BY <1>2
  <2>2. m.target \in Docs /\ t.alias[m.doc] # NoRow /\ t.alias[m.doc] = t.alias[m.target]
    BY <2>1 DEF Settles, CommentsBound
  <2> QED BY <1>2, <2>1, <2>2 DEF Comments
<1>5. Carries(t, u)
  <2> SUFFICES ASSUME NEW x \in Comments, NEW y \in Comments, ExactRow(u, x), u.alias[y] = u.alias[x]
               PROVE  ExactRow(t, x) /\ t.alias[y] = t.alias[x]
    BY DEF Carries
  <2>1. x \in Docs /\ y \in Docs /\ u.alias[x] # NoRow /\ u.alias[y] # NoRow
    BY DEF Comments, ExactRow
  <2>2. u.alias[x] = t.alias[x] /\ u.alias[y] = t.alias[y]
    BY <1>2, <2>1
  <2> QED BY <2>2 DEF ExactRow
<1> QED BY <1>1, <1>3, <1>4, <1>5 DEF Settles

LEMMA ExactLinksSettles ==
  ASSUME NEW t, Good(t), Settles(t), Sharing(t), NEW d \in Docs, Stored(t, d),
         Quiet(ExactLinks(t, d), ExactLinks(t, d).links)
  PROVE  Settles(ExactLinks(t, d)) /\ Carries(t, ExactLinks(t, d))
<1>1. CASE ExactLinks(t, d) = t
  BY <1>1 DEF Carries
<1>2. ASSUME NEW k, ExactLinks(t, d) = InvalidateExact(t, k)
      PROVE  Settles(ExactLinks(t, d)) /\ Carries(t, ExactLinks(t, d))
  BY <1>2, InvalidateSettles
<1>3. ASSUME NEW e \in ExactCandidates(t, d), NEW o \in {d, e},
             ExactLinks(t, d) = RecordLink(t, d, e, o, "exact")
      PROVE  Settles(ExactLinks(t, d)) /\ Carries(t, ExactLinks(t, d))
  <2>1. e \in Docs /\ Stored(t, e) /\ Kind[d] = Kind[e] /\ (d \in Forgejo <=> e \notin Forgejo)
    BY CandidatesMutual
  <2>2. d \notin Threads => SameThread(t, d, e)
    BY DEF ExactCandidates
  <2> QED BY <1>3, <2>1, <2>2, MatchSettles
<1> QED BY <1>1, <1>2, <1>3, ExactLinksParts

LEMMA ObserveSettles ==
  ASSUME NEW t, Good(t), Settles(t), Sharing(t), NEW d \in Docs, Stored(t, d),
         LET u == Observe(t, d) IN Quiet(t, t.links \cup u.links) /\ Quiet(u, u.links)
  PROVE  Settles(Observe(t, d)) /\ Carries(t, Observe(t, d))
<1>1. PICK v, u : v = MirrorLinks(t, d) /\ u = Observe(t, d)
  OBVIOUS
<1>2. Good(v) /\ v.body = t.body /\ Merges(t, v) /\ Stored(v, d) /\ u = ExactLinks(v, d)
  BY <1>1, MirrorLinksRows DEF Stored, Observe
<1>3. \A l \in v.links : l.evidence # "exact" => l \in u.links
  <2>1. CASE u = v
    BY <2>1
  <2>2. ASSUME NEW k, u = InvalidateExact(v, k) PROVE \A l \in v.links : l.evidence # "exact" => l \in u.links
    BY <1>2, <2>2, InvalidateRows
  <2>3. ASSUME NEW e \in ExactCandidates(v, d), NEW o \in {d, e}, u = RecordLink(v, d, e, o, "exact")
        PROVE  \A l \in v.links : l.evidence # "exact" => l \in u.links
    <3>1. d \in Ids /\ e \in Ids /\ (d \in Forgejo <=> e \notin Forgejo)
      BY <1>2, CandidatesMutual, DocumentsAssumption
    <3>2. \E w : v.links \subseteq w.links /\ RecordLink(v, d, e, o, "exact").links = w.links
      BY <1>2, <3>1, RecordLinkParts DEF Evidence
    <3> QED BY <2>3, <3>2
  <2> QED BY <1>2, <2>1, <2>2, <2>3, ExactLinksParts
<1>4. Quiet(t, v.links)
  BY <1>1, <1>3 DEF Quiet
<1>5. Settles(v) /\ OldMatches(t, v)
  BY <1>1, <1>4, MirrorLinksSettles
<1>6. Sharing(v)
  <2> SUFFICES ASSUME NEW x \in Comments, NEW y \in Comments, ExactRow(v, x), v.alias[y] = v.alias[x]
               PROVE  SameThread(v, x, y)
    BY DEF Sharing
  <2>1. ExactRow(t, x) /\ t.alias[y] = t.alias[x]
    BY <1>5 DEF OldMatches, ExactRow
  <2>2. SameThread(t, x, y) /\ x \in Docs /\ y \in Docs
    BY <2>1 DEF Sharing, Comments
  <2> QED BY <1>2, <2>2, SameThreadMerges
<1>7. Settles(u) /\ Carries(v, u)
  BY <1>1, <1>2, <1>5, <1>6, ExactLinksSettles
<1> QED BY <1>1, <1>5, <1>7, OldIsCarried

LEMMA CopiesStep ==
  ASSUME IInv, IInv', [Next]_vars, [~PartsThreads]_vars, [~MirrorMeetsMatch]_vars,
         world.resets = {}, Settles(db), Sharing(db)
  PROVE  Settles(db') /\ Sharing(db')
<1>1. PICK t, u : t = db /\ u = db'
  OBVIOUS
<1>2. Good(t) /\ Good(u) /\ InTransaction /\ Settles(t) /\ Sharing(t)
  BY <1>1 DEF IInv
<1>3. CASE db' = db
  BY <1>3
<1>4. CASE db' # db
  <2>1. ~MirrorMeetsMatch
    BY <1>4 DEF vars
  <2>2. Quiet(t, t.links \cup u.links) /\ Quiet(u, u.links)
    BY <1>1, <2>1 DEF MirrorMeetsMatch, Quiet, ExactRow, Comments
  <2>3. Settles(u) /\ Carries(t, u)
    <3>1. ASSUME NEW d \in Docs, Stored(t, d), u = Observe(t, d)
          PROVE  Settles(u) /\ Carries(t, u)
      BY <1>2, <2>2, <3>1, ObserveSettles
    <3>2. CASE CommitPage
      <4>1. u.links = t.links /\ u.alias = t.alias
        BY <1>1, <1>2, <3>2, WritePage
      <4> QED BY <1>2, <4>1 DEF Settles, RowsRest, CommentsBound, Carries, ExactRow
    <3>3. CASE ObserveNext
      <4>1. Head(todo) \in Docs /\ Stored(t, Head(todo)) /\ u = Observe(t, Head(todo))
        BY <1>1, <1>2, <3>3, HeadAndTail DEF ObserveNext
      <4> QED BY <3>1, <4>1
    <3>4. CASE ObserveChild
      <4>1. PICK c \in children : u = Observe(t, c)
        BY <1>1, <3>4 DEF ObserveChild
      <4>2. c \in Docs /\ Stored(t, c)
        BY <1>1, <1>2, StoredType DEF InTransaction
      <4> QED BY <3>1, <4>1, <4>2
    <3>5. CASE BindNext
      <4>1. PICK l \in binding : u = Bind(t, l.doc, l.target, l.origin, l.evidence)
        BY <1>1, <3>5 DEF BindNext
      <4>2. l \in t.links /\ l \in Links /\ LinkOK(t, l)
        BY <1>1, <1>2 DEF InTransaction, Good, Tables
      <4>3. /\ l.doc \in Ids /\ l.target \in Ids /\ l.evidence \in Evidence
            /\ l.origin \in {l.doc, l.target} /\ (l.doc \in Forgejo <=> l.target \notin Forgejo)
        BY <4>2, DocumentsAssumption DEF Links, LinkOK
      <4>4. Quiet(t, t.links)
        BY <2>2 DEF Quiet
      <4>5. Settles(u) /\ OldMatches(t, u)
        BY <1>2, <4>1, <4>2, <4>3, <4>4, BindSettles
      <4> QED BY <4>5 DEF OldMatches, Carries, ExactRow
    <3>6. CommitPage \/ ObserveNext \/ ObserveChild \/ BindNext
      BY <1>4 DEF Next, vars, Revisit, AllObserved, ReadLinks, ReadChildren, Settled, Commit
    <3> QED BY <3>2, <3>3, <3>4, <3>5, <3>6
  <2>4. Sharing(u)
    <3> SUFFICES ASSUME NEW x \in Comments, NEW y \in Comments, ExactRow(u, x), u.alias[y] = u.alias[x],
                        ~SameThread(u, x, y)
                 PROVE  FALSE
      BY DEF Sharing
    <3>1. SameThread(t, x, y) /\ x \in Docs /\ y \in Docs
      BY <1>2, <2>3 DEF Carries, Sharing, Comments
    <3> QED BY <1>1, <3>1, SameThreadStays
  <2> QED BY <1>1, <2>3, <2>4
<1> QED BY <1>3, <1>4

\* Where nothing is reset, two members of a group that rests on an exact match
\* of comments are in one canonical thread, in every run that parts no thread
\* from its counterpart and in which no comment has both kinds of evidence.
THEOREM CopiesStayInThread ==
  Spec /\ [][~PartsThreads]_vars /\ [][~MirrorMeetsMatch]_vars => []CopiesShareThread
<1> DEFINE I == world.resets = {} => Settles(db) /\ Sharing(db)
<1>1. Init => I
  BY DEF Init, Settles, RowsRest, CommentsBound, Sharing, ExactRow, Comments
<1>2. /\ IInv /\ IInv' /\ [Next]_vars /\ [~PartsThreads]_vars /\ [~MirrorMeetsMatch]_vars
      /\ I
      => I'
  <2>1. [Next]_vars => world' = world
    BY DEF Next, vars
  <2> QED BY <2>1, CopiesStep
<1>3. I => CopiesShareThread
  BY DEF CopiesShareThread, Sharing, ExactRow, Comments
<1> HIDE DEF I
<1> QED BY <1>1, <1>2, <1>3, Invariant, PTL DEF Spec

-----------------------------------------------------------------------------
(* Ambiguity.                                                              *)

Ambiguous(t, d) == Cardinality(ExactCandidates(t, d)) > 1

\* To observe d parts it from a candidate, if it or the candidate has another.
ObservingParts(t, d) ==
  LET v == MirrorLinks(t, d)
      u == Observe(t, d)
  IN  \A e \in ExactCandidates(v, d) : Ambiguous(v, d) \/ Ambiguous(v, e) =>
        ~(ExactRow(u, d) /\ u.alias[e] = u.alias[d])

LEMMA InvalidatedRow ==
  ASSUME NEW t, Good(t), NEW d, Stored(t, d)
  PROVE  ~ExactRow(InvalidateExact(t, d), d)
<1>1. PICK u, M : u = InvalidateExact(t, d) /\ M = Members(t, CanonicalId(t, d))
  OBVIOUS
<1>2. \A x \in Docs : u.alias[x] = IF x \in M /\ t.alias[x].evidence = "exact"
                                   THEN NoRow ELSE t.alias[x]
  BY <1>1, InvalidateRows
<1>3. d \in Docs /\ (t.alias[d] # NoRow => d \in M)
  BY <1>1, StoredCanonical DEF Good, Groups, Members
<1> QED BY <1>1, <1>2, <1>3 DEF ExactRow

LEMMA AmbiguousIsParted ==
  ASSUME NEW t, Good(t), NEW d \in Docs, Stored(t, d)
  PROVE  ObservingParts(t, d)
<1>1. PICK v, u : v = MirrorLinks(t, d) /\ u = Observe(t, d)
  OBVIOUS
<1>2. Good(v) /\ Stored(v, d) /\ u = ExactLinks(v, d)
  BY <1>1, MirrorLinksRows DEF Stored, Observe
<1> SUFFICES ASSUME NEW e \in ExactCandidates(v, d), Ambiguous(v, d) \/ Ambiguous(v, e)
             PROVE  ~(ExactRow(u, d) /\ u.alias[e] = u.alias[d])
  BY <1>1 DEF ObservingParts
<1>3. Stored(v, e) /\ d \in ExactCandidates(v, e)
  BY <1>2, CandidatesMutual
<1>4. \A x : Ambiguous(v, x) <=> \E y, z \in ExactCandidates(v, x) : y # z
  BY CandidateSets, CountToTwo DEF Ambiguous
<1>5. u = InvalidateExact(v, d) \/ u = InvalidateExact(v, e)
  <2>1. \A f : ExactCandidates(v, d) = {f} => f = e
    OBVIOUS
  <2>2. ASSUME ExactCandidates(v, d) = {e}, ExactCandidates(v, e) = {d} PROVE FALSE
    BY <1>4, <2>2
  <2>3. \/ ExactCandidates(v, d) = {}
        \/ u = InvalidateExact(v, d)
        \/ \E f : ExactCandidates(v, d) = {f} /\ u = InvalidateExact(v, f)
        \/ \E f : ExactCandidates(v, d) = {f} /\ ExactCandidates(v, f) = {d}
    BY <1>2, ExactLinksParts
  <2> QED BY <2>1, <2>2, <2>3
<1>6. ~ExactRow(u, d) \/ ~ExactRow(u, e)
  BY <1>2, <1>3, <1>5, InvalidatedRow
<1> QED BY <1>6 DEF ExactRow

\* A later duplicate invalidates: whatever document is observed, in whatever
\* state, no exact match is left between it and a candidate when one of them
\* has another candidate.
THEOREM AmbiguousMatchesGo == Spec => [](\A d \in Docs : Stored(db, d) => ObservingParts(db, d))
<1>1. IInv => \A d \in Docs : Stored(db, d) => ObservingParts(db, d)
  BY AmbiguousIsParted DEF IInv
<1> QED BY <1>1, Invariant, PTL
=============================================================================
