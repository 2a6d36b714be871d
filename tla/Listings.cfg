SPECIFICATION ListingsFairSpec
CONSTANTS
  Adapters = {"bips", "bolts", "blips", "luds", "nuts", "optech", "delving", "mailing_list"}
  Items = {1, 2, 3, 4}
  First = {1, 3}
  PageSize = 2
  SmallPage = 2
  LastMonth = 3
  MaxEdits = 1
  MaxGone = 2
  MaxSkips = 1
  MaxRestarts = 1
  None = None
INVARIANTS PassesReadAll PanicsNeedTwoGone
PROPERTIES EventuallyStored
CHECK_DEADLOCK FALSE
