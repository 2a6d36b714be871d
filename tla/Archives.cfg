SPECIFICATION FairSpec
CONSTANTS
  Adapters = {"irc", "mail_archive", "bitcointalk"}
  Last = 5
  MaxPosts = 2
  MaxLosses = 1
  PageSize = 3
  MaxMissing = 2
  MaxMisses = 2
  RecentTopics = 1
  OffBoard = {2}
  NoCursor = NoCursor
INVARIANTS  TailAfterGap
PROPERTIES MessagesAreRead
CHECK_DEADLOCK FALSE
