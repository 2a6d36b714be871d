SPECIFICATION FairSpec
CONSTANTS
  Texts = {"", "taproot", "/taproot", "silent payments"}
  Empty = ""
  Plussed <- MCPlussed
  Unslashed <- MCUnslashed
  Lists = {{"bip", "nonsense"}, {"nonsense"}}
  KnownTypes = {"bip"}
  Repos = {"ldk", "lib+", "c#", "a&b", "a&limit=1"}
  RepoLists <- MCRepoLists
  RepoRead <- MCRepoRead
  Hashed = {"c#"}
  Amped = {"a&b", "a&limit=1"}
  Adds <- MCAdds
  Days = {1}
  Numbers = {1, 6}
  Width = 4
  MostRefs = 1
  MaxLines = 2
  None = None
INVARIANTS AnswersInOrder SameQuestion
PROPERTIES AbsentMeansAbsent EveryLineIsAnswered
CHECK_DEADLOCK FALSE
