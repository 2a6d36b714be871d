SPECIFICATION PacingSpec
CONSTANTS
  issues = issues
  reviews = reviews
  forgeIssues = forgeIssues
  forgeReviews = forgeReviews
  GitHubJobs = {issues, reviews}
  ForgejoJobs = {forgeIssues, forgeReviews}
  Quota = 3
  InitialQuota = 5
  SafetyMargin = 2
  MarginShare = 2
  Window = 3
  Start = 1
  Leads <- ClockLeads
  MaxLead = 1
  MaxUnheard = 1
  Interval = 1
  RetryAfter = {2}
  PollInterval = 2
  BackoffUnit = 1
  BackoffCap = 4
  BackoffDoublings = 1
  MaxTime = 6
SYMMETRY Permuted
INVARIANTS
  RefusedOnlyAhead
  DeferralSuffices
  HostIsPaced
  WaitsBounded
CHECK_DEADLOCK FALSE
