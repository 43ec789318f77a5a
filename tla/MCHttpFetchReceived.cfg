\* One fetch, of a page of at most one byte.
CONSTANTS
  Text <- MCText
  Empty = ""
  Url <- MCUrl
  Parts <- MCParts
  Data = Data
  PageSize = 1
  BufSize = 2
  MaxFetches = 1

SPECIFICATION Spec

INVARIANT ReceivedIsReceived
