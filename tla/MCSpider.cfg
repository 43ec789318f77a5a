\* One worker, one status client, two processes one after the other.
CONSTANTS
  Worker = {w1}
  Url <- MCUrl
  StartUrl = "index"
  MaxDepth = 0
  NoEntry = NoEntry
  Links <- MCLinks
  Followed <- MCFollowed
  HostOf <- MCHostOf
  Unparse <- MCUnparse
  MaxSpurious = 0
  Free = Free
  Conn = {c1}
  Obj = {o1}
  Listener = Listener
  MinSpare = 0
  MaxSpare = 0
  None = None
  NoUrl = ""
  MaxRuns = 2

SPECIFICATION FairSpiderSpec
CHECK_DEADLOCK FALSE

PROPERTIES
  ServerEndsCrawl
  EveryRunDrains
  PagesOfRunKept
