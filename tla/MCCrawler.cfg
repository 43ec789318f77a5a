\* Two workers, entries of depth 0 and 1 or 2.
CONSTANTS
  Worker = {w1, w2}
  Url <- MCUrl
  StartUrl = "index"
  MaxDepth = 0
  NoEntry = NoEntry
  Links <- MCLinks
  Followed <- MCFollowed
  HostOf <- MCHostOf
  Unparse <- MCUnparse
  MaxSpurious = 1
  Free = Free

SPECIFICATION FairSpec

INVARIANTS
  TypeOK
  HandedOnce
  LockOrder
  NoLostWakeup
  StopIsPrompt

PROPERTIES
  FrontierSpec
  SavedKept
  CrawlDrains
  StopQuiesces
