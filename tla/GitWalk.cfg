SPECIFICATION FairSpec
CONSTANTS
  Repos = {"bitcoin", "ldk"}
  Migrated = {"ldk"}
  Commits = {1, 2, 3, 4, 5, 6}
  Ancestors <- History
  PRMerges = {5}
  FirstTip <- Start
  PageSize = 1
  MaxCache = 1
  MaxRepo = 4
  Stubborn = {}
  Growing = {"bitcoin"}
  MaxPushes = 2
  MaxIncidents = 1
  None = None
INVARIANTS CompleteMeansAll
PROPERTIES OthersFit WalksEnd
