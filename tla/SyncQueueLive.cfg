SPECIFICATION FairSpec
CONSTANTS
  issues = issues
  others = others
  Sources = {issues, others}
  Types = {"github_issue", "github_pr"}
  Kind <- SharedKind
  Feed <- SharedType
  PageLimit = 2
  Checkpointing = {issues}
  Restless = {others}
  CliSources = {}
  RowReads = {TRUE}
  MaxResets = 2
  MaxCrashes = 1
  NoCursor = NoCursor
  NoPage = NoPage
  Nobody = Nobody
PROPERTIES
  TornOnlyInFlight
  EveryDueJobRuns
  EventuallyStored
