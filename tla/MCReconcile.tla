----------------------------- MODULE MCReconcile -----------------------------
(* Reconcile on a few documents of a migrated repository.                  *)
EXTENDS Reconcile, TLC

CONSTANTS
  ghPr, ghPrAsIssue, fjPr,       \* an imported pull request
  ghOne, ghTwo, fjOne, fjTwo,    \* comments in it
  ghIssue, fjIssue, fjMirror,    \* an imported issue, a mirror of it
  ghSaid, ghSaidToo, fjSaid, fjCopy, ghEcho,  \* comments in them
  x, y, blank, envelope

MCKind ==
  [d \in Docs |->
     IF d \in {ghPr, fjPr} THEN "pr"
     ELSE IF d \in {ghIssue, fjIssue, fjMirror} THEN "issue" ELSE "comment"]

MCForgejo == Docs \cap {fjPr, fjOne, fjTwo, fjIssue, fjMirror, fjSaid, fjCopy}

MCRepo == [d \in Docs |-> IF d \in MCForgejo THEN "forgejo" ELSE "github"]

MCIds == Docs \cup (IF ghPr \in Docs THEN {ghPrAsIssue} ELSE {})

MCPullRequestId == [id \in MCIds |-> IF id = ghPrAsIssue THEN ghPr ELSE id]

MCParent ==
  [d \in Docs |->
     IF d \in {ghOne, ghTwo} THEN ghPrAsIssue
     ELSE IF d \in {fjOne, fjTwo} THEN fjPr
     ELSE IF d \in {ghSaid, ghSaidToo, ghEcho} THEN ghIssue
     ELSE IF d = fjSaid THEN fjIssue
     ELSE IF d = fjCopy THEN (IF fjMirror \in Docs THEN fjMirror ELSE fjIssue) ELSE NoId]

MCOrigin ==
  [d \in Docs |->
     IF d = fjMirror THEN ghIssue
     ELSE IF d = fjCopy THEN ghSaid
     ELSE IF d = ghEcho THEN fjSaid ELSE NoId]

MCOriginParent ==
  [d \in Docs |-> IF d = fjCopy THEN ghIssue ELSE IF d = ghEcho THEN fjIssue ELSE NoId]

MCSameData ==
  {s \in {{d, e} : d \in MCForgejo, e \in Docs \ MCForgejo} :
     \E same \in {{ghPr, fjPr}, {ghOne, ghTwo, fjOne, fjTwo},
                   {ghIssue, fjIssue}, {ghSaid, ghSaidToo, fjSaid}} :
       s \subseteq same}

MCBlank == {blank}
MCWrapped == {envelope}

\* Each document has one text for good.
BodiesFixed == [d \in Docs |-> IF d \in {fjMirror, fjCopy, ghEcho} THEN {envelope} ELSE {x}]

\* GitHub's comments and issues may be edited, one comment may be emptied, and a
\* copy may lose its marker.
BodiesEdited ==
  [d \in Docs |->
     BodiesFixed[d] \cup (IF d \in {ghOne, ghIssue, fjCopy} THEN {y}
                          ELSE IF d = ghTwo THEN {blank} ELSE {})]

NoResets == {}
CommentResets == {<<"github", "comment">>}
AllResets == {"github", "forgejo"} \X {"issue", "pr", "comment"}

\* A mirror that competes with the import, everything reset; and an
\* import in pages of two.
Mirrored == [docs |-> {ghIssue, fjIssue, fjMirror, ghSaid, fjSaid, fjCopy, ghEcho},
             page |-> 1, resets |-> AllResets]

Imported == [docs |-> {ghPr, fjPr, ghOne, ghTwo, fjOne, fjTwo}, page |-> 2, resets |-> NoResets]

TheWorlds == {Mirrored, Imported}

ImportOnly == {Imported}

ImportReset == {[docs |-> {ghPr, fjPr, ghOne, ghTwo, fjOne}, page |-> 2, resets |-> CommentResets]}

ImportMirrored == {[docs |-> Docs, page |-> 1, resets |-> NoResets]}
=============================================================================
