SPECIFICATION FairSpec
CONSTANTS
  Feeds = {"github_issues", "github_comments", "github_inline", "github_reviews", "forgejo_issues", "forgejo_comments", "forgejo_reviews"}
  Items = {1, 2, 3}
  First = {1, 2, 3}
  PRs = {1, 2}
  PageSize = 2
  ChildPageSize = 1
  Overlap = 1
  FullAfter = 2
  Lag = 1
  LastEdit = 2
  MaxEdits = 2
  MaxTime = 4
  NoCursor = NoCursor
  NoTime = NoTime
INVARIANTS
  TypeOK
  NothingElseMissed
PROPERTIES
  EventuallyMirrored
  WindowsEnd
CHECK_DEADLOCK FALSE
