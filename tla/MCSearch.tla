------------------------------ MODULE MCSearch ------------------------------
EXTENDS Search, TLC

CONSTANTS ldk4, git3, url, bip

\* 1 a comment of a repository on Forgejo, 2 a commit of the migrated one,
\* 3 a pull request on Forgejo, 4 the GitHub original of 3, which merged 2,
\* 5 a review with the URL of 1.
MCType == [d \in Docs |-> <<"forgejo_comment", "commit", "forgejo_pr", "github_pr", "forgejo_review">>[d]]
MCRepo == [d \in Docs |-> <<"core", "ldk", "git/ldk", "ldk", "core">>[d]]
MCAuthor == [d \in Docs |-> <<"ann", "bob", "bot", "ann", "bob">>[d]]
MCDate == [d \in Docs |-> <<2, 2, 3, 1, 1>>[d]]
MCScore == [d \in Docs |-> <<3, 2, 1, 2, 1>>[d]]
\* An exact import: the two threads are one and Forgejo's is shown.
MCCopies == {[canonical |-> 3, origin |-> 3, other |-> 4]}
\* SearchWindow.cfg: 3 is the mirror bot's copy of the issue 4.
MCIssueType == [d \in Docs |-> <<"forgejo_comment", "commit", "forgejo_issue", "github_issue", "forgejo_review">>[d]]
MCMirrors == {[canonical |-> 3, origin |-> 4, other |-> 4]}
MCNoMerge == [d \in Docs |-> None]
MCNameOf == "core" :> "core" @@ "ldk" :> "ldk" @@ "git/ldk" :> "git/ldk" @@ "github.com/ldk" :> "ldk"
MCTwin == "ldk" :> "git/ldk"
MCMergeOf == [d \in Docs |-> <<None, None, None, 2, None>>[d]]
MCNames == {ldk4, git3, url, bip}
MCCalled == [d \in Docs |-> <<url, None, git3, ldk4, url>>[d]]
\* The comment answers 3 and names 4; the commit and both copies name its URL.
By(name, type) == [to |-> None, name |-> name, type |-> type]
MCLinks == [d \in Docs |->
  <<{By(ldk4, "mentions"), [to |-> 3, name |-> None, type |-> "replies_to"]},
    {By(url, "mentions"), By(bip, "references")},
    {By(url, "mentions")}, {By(url, "mentions"), By(bip, "references")}, {}>>[d]]
MCKinds == {{}, {"github_pr"}, {"commit", "github_pr", "forgejo_pr"}}
MCPlaces == {{}, {"ldk"}, {"github.com/ldk"}}

\* What the rest of a behaviour can read.  Queries leave the database alone, so
\* that what a find_commit, a search or a timeline does not read comes with
\* every other value of it while none runs.
View ==
  IF finding # Idle
  THEN <<[d \in Docs |-> IF Type[d] \in {"commit"} \cup PullRequests THEN text[d] ELSE "absent"],
         alias, finding>>
  ELSE IF answer.kind \in {"search", "error", "timeline"}
  THEN <<text, alias, answer>>
  ELSE <<text, alias, refs, answer>>
=============================================================================
