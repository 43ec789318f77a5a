\* One worker is enough to crawl a page twice: it links to itself.
CONSTANTS
  Worker = {w1}
  Url <- MCUrl
  StartUrl = "index"
  MaxDepth = 0
  NoEntry = NoEntry
  Links <- MCLinks
  Followed <- MCFollowed
  HostOf <- MCHostOf
  Unparse <- MCUnparse
  MaxSpurious = 0
  Free = Free

SPECIFICATION Spec

INVARIANT NeverCrawledTwice
