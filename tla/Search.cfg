SPECIFICATION Spec
CONSTANTS
  Docs = {1, 2, 3, 4, 5}
  Type <- MCType
  Repo <- MCRepo
  Author <- MCAuthor
  Date <- MCDate
  Score <- MCScore
  Copies <- MCCopies
  NameOf <- MCNameOf
  Twin <- MCTwin
  MergeOf <- MCMergeOf
  ldk4 = ldk4
  git3 = git3
  url = url
  bip = bip
  Names <- MCNames
  Permalinks = {url}
  Called <- MCCalled
  Links <- MCLinks
  RefTypes = {"mentions"}
  Wordless = {5}
  Kinds <- MCKinds
  Places <- MCPlaces
  Writers = {"ann"}
  Moments = {3}
  Limits = {1}
  MostHits = 2
  MostReferences = 2
  FindLimit = 2
  PrLimit = 1
  EventLimit = 2
  None = None
VIEW View
INVARIANTS AnswerIsComplete CopiesCountOnce EveryHitIsAnswered
PROPERTIES MergesComeFirst
