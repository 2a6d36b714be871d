------------------------------ MODULE MCPacing -------------------------------
(* Instances of Pacing for TLC.                                            *)
EXTENDS Pacing, TLC

CONSTANTS issues, reviews, forgeIssues, forgeReviews   \* jobs

\* GitHub behind the host, in step with it, and ahead of it.
ClockLeads == {-1, 0, 1}

Permuted == Permutations(GitHubJobs) \cup Permutations(ForgejoJobs)
=============================================================================
