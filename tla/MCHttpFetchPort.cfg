\* Two fetches: the second URL has no port.
CONSTANTS
  Text <- MCText
  Empty = ""
  Url <- MCPortUrl
  Parts <- MCPortParts
  Data = Data
  PageSize = 1
  BufSize = 2
  MaxFetches = 2

SPECIFICATION Spec

INVARIANT DefaultPort
