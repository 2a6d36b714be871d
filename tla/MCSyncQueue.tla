----------------------------- MODULE MCSyncQueue -----------------------------
(* Instances of SyncQueue for TLC.                                         *)
EXTENDS SyncQueue, TLC

CONSTANTS issues, others   \* source ids

\* Two repositories' issue feeds: one reset touches both.
SharedType == issues :> <<"github_issue", "github_pr", "github_issue">> @@ others :> <<"github_issue">>
SharedKind == issues :> "github:issues" @@ others :> "github:issues"

OneFeed == issues :> <<"github_issue", "github_pr", "github_issue">>
OneKind == issues :> "github:issues"
=============================================================================
