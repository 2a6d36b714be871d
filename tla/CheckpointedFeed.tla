-------------------------- MODULE CheckpointedFeed --------------------------
(***************************************************************************)
(* What ingestion promises about durable state, without the queue, the     *)
(* processes or the network: for every source the database holds a set of  *)
(* documents and one resume cursor.  Both change together, in one page     *)
(* commit that continues from a point the documents already cover, or in   *)
(* one reset that forgets a document type and the cursors of every source  *)
(* that produces it.                                                       *)
(*                                                                         *)
(* A commit may also continue from a cursor that a reset has made          *)
(* obsolete.  The promise is then gone for that source (torn) until the    *)
(* next reset.                                                             *)
(***************************************************************************)
EXTENDS Naturals, Sequences

CONSTANTS
  Sources,    \* the source ids: one sync job and one sync_state row each
  Types,      \* document source types
  Feed,       \* Feed[s][i]: the type of the i-th document of source s
  NoCursor    \* no sync_state row, or a row whose last_cursor is NULL

VARIABLES
  stored,     \* the documents in the database, as <<source, index>>
  synced,     \* sync_state.last_cursor of each source
  torn        \* a commit has continued from an obsolete cursor

vars == <<stored, synced, torn>>

Covered(s, n) == \A i \in 1..n : <<s, i>> \in stored

Init ==
  /\ stored = {}
  /\ synced = [s \in Sources |-> NoCursor]
  /\ torn = [s \in Sources |-> FALSE]

\* Documents from+1..upto become durable together with the cursor that
\* follows them: the end of the page, or the previous cursor kept.
WritePage(s, from, upto) ==
  /\ stored' = stored \cup {<<s, i>> : i \in from+1..upto}
  /\ \E to \in {upto, from, NoCursor} : synced' = [synced EXCEPT ![s] = to]

CommitPage(s) ==
  \E from, upto \in 0..Len(Feed[s]) :
    /\ from <= upto
    /\ torn[s] \/ Covered(s, from)
    /\ WritePage(s, from, upto)
    /\ UNCHANGED torn

CommitObsoletePage(s) ==
  \E from, upto \in 0..Len(Feed[s]) :
    /\ from <= upto
    /\ WritePage(s, from, upto)
    /\ torn' = [torn EXCEPT ![s] = TRUE]

Produces(s, t) == \E i \in DOMAIN Feed[s] : Feed[s][i] = t

\* The cursors of at least the sources that produce type t.
Forget(t) ==
  /\ stored' = {d \in stored : Feed[d[1]][d[2]] # t}
  /\ \E S \in SUBSET Sources :
       /\ {s \in Sources : Produces(s, t)} \subseteq S
       /\ synced' = [s \in Sources |-> IF s \in S THEN NoCursor ELSE synced[s]]
       /\ torn' = [s \in Sources |-> torn[s] /\ s \notin S]

Next ==
  \/ \E s \in Sources : CommitPage(s) \/ CommitObsoletePage(s)
  \/ \E t \in Types : Forget(t)

Spec == Init /\ [][Next]_vars
=============================================================================
