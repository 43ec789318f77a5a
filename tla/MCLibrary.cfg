CONSTANTS
  HtmlDocs <- MCHtmlDocs
  SlabIds = {1, 2, 3, 4}
  slabObjs = 3
  SlabMaxFree = 2
  SlabMaxLost = 4
  TableKeys = {"u", "v", "page"}
  TableSize = 3
  TableCode <- MCTableCode
  MAX_MYSQL_RETRIES = 4
  RankUsers <- MCRankUsers
  RankFriends <- MCRankFriends
  RankUnit = 6
  RankMaxRound = 2
  IniNames <- MCIniNames
  IniValues <- MCIniValues
  IniEdits <- MCIniEdits
  TcpSockets = 2
  TcpBytes = 3
  TcpSizes = {1, 2}
  SessUrls <- MCSessUrls
  SessProxies <- MCSessProxies
  SessAddr <- MCSessAddr
  SessDotted <- MCSessDotted
  SessMax = 2
  UriPages <- MCUriPages
  UriLinks <- MCUriLinks
  UriMaxUrl = 8
SPECIFICATION Spec
INVARIANT LibraryTypeOK
INVARIANT DomWalkInOrder
INVARIANT DomExtentsNest
INVARIANT SlabKept
INVARIANT TableKept
INVARIANT DbKept
INVARIANT RankKept
INVARIANT IniKept
INVARIANT SockFramed
INVARIANT SessHeaders
INVARIANT StreamInStep
INVARIANT SocketKept
INVARIANT LinksResolved
CHECK_DEADLOCK FALSE
