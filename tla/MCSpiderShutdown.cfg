\* The handler runs while the worker is at work; one process.
CONSTANTS
  Worker = {w1}
  Url <- MCUrl
  StartUrl = "index"
  MaxDepth = 0
  NoEntry = NoEntry
  Links <- MCLinks
  Followed <- MCFollowed
  HostOf <- MCHostOf
  Unparse <- MCUnparse
  MaxSpurious = 0
  Free = Free
  Conn = {}
  Obj = {}
  Listener = Listener
  MinSpare = 0
  MaxSpare = 0
  None = None
  NoUrl = ""
  MaxRuns = 1

SPECIFICATION SpiderSpec
CHECK_DEADLOCK FALSE

INVARIANT ShutdownWaits
