SPECIFICATION Spec
CONSTANTS
  issues = issues
  others = others
  Sources = {issues, others}
  Types = {"github_issue", "github_pr"}
  Kind <- SharedKind
  Feed <- SharedType
  PageLimit = 2
  Checkpointing = {issues}
  Restless = {}
  CliSources = {issues}
  RowReads = {TRUE, FALSE}
  MaxResets = 2
  MaxCrashes = 1
  NoCursor = NoCursor
  NoPage = NoPage
  Nobody = Nobody
INVARIANTS
  NoGaps
PROPERTIES
  DurableSpec
