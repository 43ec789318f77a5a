\* Two fetches one after the other, pages of at most two bytes.
CONSTANTS
  Text <- MCText
  Empty = ""
  Url <- MCUrl
  Parts <- MCParts
  Data = Data
  PageSize = 2
  BufSize = 2
  MaxFetches = 2

SPECIFICATION FairSpec

INVARIANTS
  TypeOK
  OutcomeExpected
  LengthHonoured
  SocketClosed
  RedirectsEnd

PROPERTY FetchReturns
