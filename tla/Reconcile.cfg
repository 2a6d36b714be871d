SPECIFICATION Spec
CONSTANTS
  ghPr = ghPr
  ghPrAsIssue = ghPrAsIssue
  fjPr = fjPr
  ghOne = ghOne
  ghTwo = ghTwo
  fjOne = fjOne
  fjTwo = fjTwo
  ghIssue = ghIssue
  fjIssue = fjIssue
  fjMirror = fjMirror
  ghSaid = ghSaid
  ghSaidToo = ghSaidToo
  fjSaid = fjSaid
  fjCopy = fjCopy
  ghEcho = ghEcho
  x = x
  y = y
  blank = blank
  envelope = envelope
  Docs = {ghIssue, fjIssue, fjMirror, ghSaid, fjSaid, fjCopy, ghEcho, ghPr, fjPr, ghOne, ghTwo, fjOne, fjTwo}
  Ids <- MCIds
  PullRequestId <- MCPullRequestId
  Forgejo <- MCForgejo
  Repo <- MCRepo
  Kind <- MCKind
  Parent <- MCParent
  Origin <- MCOrigin
  OriginParent <- MCOriginParent
  SameData <- MCSameData
  Bodies <- BodiesEdited
  Blank <- MCBlank
  Wrapped <- MCWrapped
  ResetTypes <- AllResets
  MaxPage = 2
  Worlds <- TheWorlds
  Absent = Absent
  NoId = NoId
  NoRow = NoRow
INVARIANTS
  GroupsAreStars
  OneThreadPerHost
  NoneLeftUnbound
  DuplicateInvalidates
  CopiesShareThread
  CurrentMatchesOneToOne
