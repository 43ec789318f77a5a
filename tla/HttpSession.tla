----------------------------- MODULE HttpSession -----------------------------
(***************************************************************************)
(* THttpCli::setupHttpSession (libspider/HttpCli.cpp), called for one URL    *)
(* after another with the same Uri and the same request headers: the        *)
(* connection to the server or through a proxy, the headers, the request.   *)
(* The response is HttpFetch's.  Names, users and passwords are sequences of *)
(* bytes; <<>> is a part that a URL lacks.                                  *)
(***************************************************************************)
EXTENDS SockProxy

CONSTANTS
  SessUrls,     \* the URLs fetched
  SessProxies,  \* the configured proxies: type, host, port, user, pass
  SessAddr,     \* for the hosts that have one, the IPv4 address gethostbyname returns
  SessDotted,   \* those of them that are written as an address
  SessMax       \* bound on the sessions

VARIABLES
  sessPc,       \* where the session is, "idle" between two
  sessProxy,    \* m_proxy; its type is "none" without UseProxy
  sessUri,      \* the Uri object, which keeps what the next URL lacks
  sessHdrs,     \* htRequest: the headers in order, never cleared
  sessDest,     \* dwAddr: the address of the URL's host, INADDR_NONE when unresolved
  sessConn,     \* what the socket is connected to
  sessReq,      \* the request made last
  sessSeen,     \* the URLs of the sessions so far, for SessHeaders
  sockMeant,    \* the requests of the handshake
  sockWire,     \* the bytes sent for them
  sockUp        \* whether all of these sends succeeded

sessKept == <<sessProxy, sessUri, sessHdrs, sessSeen>>
sessVars == <<sessPc, sessKept, sessDest, sessConn, sessReq, sockMeant, sockWire, sockUp>>

\* The strings of a URL and of the configuration: ASCII, with no NUL.  (A char above 127 is a
\* negative number to the two coders, which is not modelled.)
SessString == Seq(1 .. 127)
\* "ftp" stands for every scheme that is not one of the web's.
SessScheme == {"none", "http", "https", "ftp"}
\* A URL that Uri::init accepts.  login says what stands before its "@".  Port 0 is a URL
\* without a ":"; "host:" is one with the port of its scheme, and "host:0" one with port 80.
\* What has no "scheme://", the empty URL too, has no host, port or user either.
SessUrl ==
  {x \in [scheme : SessScheme, host : SessString, port : Nat, login : {"none", "user", "both"},
          user : SessString, pass : SessString] :
     x.scheme = "none" => x.host = <<>> /\ x.port = 0 /\ x.login = "none"}

ASSUME SessAssumption ==
  /\ SessUrls \subseteq SessUrl
  /\ SessProxies \subseteq [type : {"none", "http", "ftp", "socks4", "socks5"}, host : SessString,
                            port : Nat, user : SessString, pass : SessString]
  /\ \A h \in DOMAIN SessAddr : SessAddr[h] \in Seq(0 .. 255) /\ Len(SessAddr[h]) = 4
  /\ SessDotted \subseteq DOMAIN SessAddr
  /\ SessMax \in Nat

INADDR_NONE == <<255, 255, 255, 255>>
SessNoUri == [scheme |-> "none", host |-> <<>>, port |-> 0, user |-> <<>>, pass |-> <<>>]
SessNoConn == [host |-> <<>>, port |-> 0]
SessNoReq == [target |-> "none", hdrs |-> <<>>]

-----------------------------------------------------------------------------
\* Base 64.  A letter is its value 0 .. 63, and 64 is "=".
B64Pad == 64
B64Quad(s, g) ==
  65536 * SockByte(s, 3 * g + 1) + 256 * SockByte(s, 3 * g + 2) + SockByte(s, 3 * g + 3)
B64Shifted(s, i) ==
  B64Quad(s, (i - 1) \div 4) \div <<262144, 4096, 64, 1>>[1 + ((i - 1) % 4)]
B64Len(s) == 4 * ((Len(s) + 2) \div 3)
B64Padded(s, i) == i > B64Len(s) - (3 * (B64Len(s) \div 4) - Len(s))

\* base64_encode, for the proxy's user.
base64_encode(s) ==
  [i \in 1 .. B64Len(s) |-> IF B64Padded(s, i) THEN B64Pad ELSE B64Shifted(s, i) % 64]

\* Base64Encode, for the URL's user: "=" wherever eight bits of the shifted group are 0.
Base64Encode(s) ==
  [i \in 1 .. B64Len(s) |->
     IF B64Shifted(s, i) % 256 = 0 THEN B64Pad ELSE B64Shifted(s, i) % 64]

\* Base64Decode: three bytes for four letters, NULs where the padding stands.
B64Trip(e, g) ==
  LET val(i) == e[i] % B64Pad
  IN  262144 * val(4 * g + 1) + 4096 * val(4 * g + 2) + 64 * val(4 * g + 3) + val(4 * g + 4)
Base64Decode(e) ==
  [k \in 1 .. 3 * (Len(e) \div 4) |->
     (B64Trip(e, (k - 1) \div 3) \div <<65536, 256, 1>>[1 + ((k - 1) % 3)]) % 256]

\* The letters e are read as the string s, which ends at its first NUL.
B64ReadAs(e, s) ==
  LET bytes == Base64Decode(e)
  IN  Len(s) <= Len(bytes) /\ bytes = SockBytes(s, Len(bytes))

\* "=" stands at the end only, where other decoders accept it.
B64Formed(e) == \A i \in DOMAIN e : e[i] = B64Pad => i > Len(e) - 2 /\ e[Len(e)] = B64Pad
\* The strings that Base64Encode writes no other "=" for: "x@1" is not one of them.
B64Clean(s) == \A i \in 1 .. B64Len(s) : B64Padded(s, i) \/ B64Shifted(s, i) % 256 # 0

SessColon == 58
SessLogin(user, pass) == user \o <<SessColon>> \o pass

-----------------------------------------------------------------------------
\* Uri::init, and port(80) for the port 0: what the URL lacks stays as it was, the scheme
\* and the host too when it is only a path.
SessUriInit(u, x) ==
  [scheme |-> IF x.scheme = "none" THEN u.scheme ELSE x.scheme,
   host |-> IF x.scheme = "none" THEN u.host ELSE x.host,
   port |-> IF x.port # 0 THEN x.port ELSE IF u.port # 0 THEN u.port ELSE 80,
   user |-> IF x.login = "none" THEN u.user ELSE x.user,
   pass |-> IF x.login = "both" THEN x.pass ELSE u.pass]

HasHdr(hdrs, key) == \E i \in DOMAIN hdrs : hdrs[i].key = key

\* Fault: a header that is there keeps its value.
SetHdrOnce(hdrs, hdr) == IF HasHdr(hdrs, hdr.key) THEN hdrs ELSE Append(hdrs, hdr)

\* THttpMsg::SetHdr: the value of the first header that has this key, or a header more.
FirstHdr(hdrs, i, key) == hdrs[i].key = key /\ \A j \in 1 .. i - 1 : hdrs[j].key # key
SetHdrVal(hdrs, hdr) ==
  [i \in DOMAIN hdrs |-> IF FirstHdr(hdrs, i, hdr.key) THEN hdr ELSE hdrs[i]]
SetHdr(hdrs, hdr) ==
  IF HasHdr(hdrs, hdr.key) THEN SetHdrVal(hdrs, hdr) ELSE Append(hdrs, hdr)

SessHdr(key, val) == [key |-> key, val |-> val]

\* The headers after those a session sets, in order.
SessSets ==
  LET always ==
        SetHdr(SetHdr(SetHdr(SetHdr(SetHdr(sessHdrs,
          SessHdr("Host", [host |-> sessUri.host, port |-> sessUri.port])),
          SessHdr("Referer", "url")), SessHdr("Accept", "any")),
          SessHdr("User-Agent", "CrowdSpider")), SessHdr("Connection", "Close"))
      login ==
        IF sessUri.user = <<>> \/ sessUri.pass = <<>> THEN always
        ELSE SetHdr(always,
               SessHdr("Authorization", Base64Encode(SessLogin(sessUri.user, sessUri.pass))))
      proxied ==
        IF sessProxy.user = <<>> THEN login
        ELSE SetHdr(login,
               SessHdr("Proxy-Authorization", base64_encode(SessLogin(sessProxy.user, sessProxy.pass))))
  IN  IF sessProxy.type = "none" THEN login ELSE SetHdr(proxied, SessHdr("Pragma", "no-cache"))

-----------------------------------------------------------------------------
SessInit ==
  /\ sessPc = "idle" /\ sessProxy \in SessProxies
  /\ sessUri = SessNoUri /\ sessHdrs = <<>> /\ sessDest = INADDR_NONE
  /\ sessConn = SessNoConn /\ sessReq = SessNoReq /\ sessSeen = <<>>
  /\ sockMeant = <<>> /\ sockWire = <<>> /\ sockUp = TRUE

SessTypeOK ==
  /\ sessPc \in {"idle", "connect", "s4req", "s4rep", "s5auth", "s5authrep", "s5pass", "s5passrep",
                 "s5req", "s5rep", "request", "reply", "undefined"}
  /\ sessProxy \in SessProxies
  /\ sessUri.host \in Seq(0 .. 127) /\ sessUri.port \in Nat
  /\ \A i \in DOMAIN sessHdrs : DOMAIN sessHdrs[i] = {"key", "val"}
  /\ sessDest \in Seq(0 .. 255) /\ sessConn.port \in Nat
  /\ sessReq.target \in {"none", "path", "url"}
  /\ sessSeen \in Seq(SessUrls) /\ Len(sessSeen) <= SessMax
  /\ sockWire \in Seq(0 .. 255) /\ Len(sockMeant) <= 3 /\ sockUp \in BOOLEAN

SessFails == sessPc' = "idle" /\ UNCHANGED sessConn
\* host2str has an address for the host, and Connect, whose port is a UINT16, succeeds.
SessConnects(h, port, next) ==
  /\ h \in DOMAIN SessAddr
  /\ sessPc' = next
  /\ sessConn' = [host |-> h, port |-> port % 65536]

\* uri->init, at the start of setupHttpSession.
SessOpen(x) ==
  /\ sessPc = "idle" /\ Len(sessSeen) < SessMax
  /\ sessPc' = "connect" /\ sessSeen' = Append(sessSeen, x)
  /\ sessUri' = SessUriInit(sessUri, x)
  /\ sessDest' = INADDR_NONE /\ sessConn' = SessNoConn /\ sessReq' = SessNoReq
  /\ sockMeant' = <<>> /\ sockWire' = <<>> /\ sockUp' = TRUE
  /\ UNCHANGED <<sessProxy, sessHdrs>>

\* connectRemoteHost: https is always connected to port 443, other schemes not at all.
SessConnect ==
  /\ sessPc = "connect" /\ sessProxy.type = "none"
  /\ \/ /\ sessUri.scheme \in {"http", "https"}
        /\ SessConnects(sessUri.host, IF sessUri.scheme = "https" THEN 443 ELSE sessUri.port,
                        "request")
     \/ SessFails
  /\ UNCHANGED <<sessKept, sessDest, sessReq, sockMeant, sockWire, sockUp>>

\* The start of connectProxyHost: the addresses of the URL's host, for SOCKS, and of the
\* proxy.  For SOCKS5 it is the proxy's name itself that is passed to Connect.
SessConnectProxy ==
  /\ sessPc = "connect" /\ sessProxy.type \in {"http", "socks4", "socks5"}
  /\ \/ /\ SessConnects(sessProxy.host, sessProxy.port,
                        IF sessProxy.type = "http" THEN "request"
                        ELSE IF sessProxy.type = "socks4" THEN "s4req" ELSE "s5auth")
        /\ sessProxy.type = "socks5" => sessProxy.host \in SessDotted
        /\ IF sessProxy.type = "http" THEN UNCHANGED sessDest
           ELSE sessDest' \in {SessAddr[h] : h \in {sessUri.host} \cap DOMAIN SessAddr}
                                \cup {INADDR_NONE}
     \/ SessFails /\ UNCHANGED sessDest
  /\ UNCHANGED <<sessKept, sessReq, sockMeant, sockWire, sockUp>>

\* There is no case for ftp: connectProxyHost returns true at once.
SessNoProxyCase ==
  /\ sessPc = "connect" /\ sessProxy.type = "ftp"
  /\ sessPc' = "request"
  /\ UNCHANGED <<sessKept, sessDest, sessConn, sessReq, sockMeant, sockWire, sockUp>>

\* SendPacket.  Its result goes into a bool, and "ret <= 0" is then never true for an
\* error: the handshake goes on whether the packet was sent or not.
SockSend(q, next) ==
  /\ sessPc' = next
  /\ sockMeant' = Append(sockMeant, q)
  /\ \/ SockFits(q) /\ sockWire' = sockWire \o SockPackGet(q) /\ UNCHANGED sockUp
     \/ ~SockFits(q) /\ UNCHANGED <<sockWire, sockUp>>
     \/ SockFits(q) /\ sockUp' = FALSE /\ UNCHANGED sockWire
  /\ UNCHANGED <<sessKept, sessDest, sessConn, sessReq>>

SockReceived(next) ==
  /\ sessPc' \in next
  /\ UNCHANGED <<sessKept, sessDest, sessConn, sessReq, sockMeant, sockWire, sockUp>>

\* The port sent is the proxy's own, not the URL's.
Send4Req ==
  sessPc = "s4req" /\ SockSend(Sock4Req(sessProxy.port, sessDest, sessProxy.user), "s4rep")

\* Granted, rejected or cut short: all the same to connectProxyHost.
Recv4Rep == sessPc = "s4rep" /\ SockReceived({"request"})

Send5AuthReq ==
  sessPc = "s5auth" /\ SockSend(Sock5AuthReq(<<SOCKS_AUTH_NONE, SOCKS_AUTH_PASSWD>>), "s5authrep")

\* The method the proxy chose, or what is in the memory when the reply is cut short.
Recv5AuthRep == sessPc = "s5authrep" /\ SockReceived({"s5pass", "s5req"})

Send5PassReq ==
  sessPc = "s5pass" /\ SockSend(Sock5PassReq(sessProxy.user, sessProxy.pass), "s5passrep")

Recv5PassRep == sessPc = "s5passrep" /\ SockReceived({"s5req"})

Send5Req ==
  /\ sessPc = "s5req"
  /\ SockSend(IF sessDest # INADDR_NONE
                THEN Sock5Req(SOCKS_ADDR_IPV4ADDR, sessProxy.port, sessDest)
                ELSE Sock5Req(SOCKS_ADDR_HOSTNAME, sessProxy.port,
                              <<SockLen8(sessUri.host)>> \o sessUri.host), "s5rep")

\* A reply whose address is cut short leaves sock5.addr unset, and RecvDestroy frees it.
Recv5Rep == sessPc = "s5rep" /\ SockReceived({"request", "undefined"})

\* The headers and sendHttpRequest, whose result is ignored.  A request line of 1024 bytes
\* and more, of a path and a query that may be kept from an earlier URL, is cut, and the
\* headers are written beyond the end of the string.
SessRequest ==
  /\ sessPc = "request" /\ sessPc' = "reply"
  /\ sessHdrs' = SessSets
  /\ \E hdrs \in {<<>>, SessSets} :
       sessReq' = [target |-> IF sessProxy.type = "none" THEN "path" ELSE "url", hdrs |-> hdrs]
  /\ UNCHANGED <<sessProxy, sessUri, sessSeen, sessDest, sessConn, sockMeant, sockWire, sockUp>>

\* recvHttpResponse, and the caller's closeSocket.
SessEnds ==
  /\ sessPc = "reply" /\ sessPc' = "idle"
  /\ sessConn' = SessNoConn
  /\ UNCHANGED <<sessKept, sessDest, sessReq, sockMeant, sockWire, sockUp>>

SessNext ==
  \/ \E x \in SessUrls : SessOpen(x)
  \/ SessConnect \/ SessConnectProxy \/ SessNoProxyCase
  \/ Send4Req \/ Recv4Rep
  \/ Send5AuthReq \/ Recv5AuthRep \/ Send5PassReq \/ Recv5PassRep \/ Send5Req \/ Recv5Rep
  \/ SessRequest \/ SessEnds

SessSpec == SessInit /\ [][SessNext]_sessVars

-----------------------------------------------------------------------------
\* The requests that keep their fields on the wire: a port of 16 bits, names as long as a byte
\* can say, and a password that is as long as the user's name, whose length PackGet copies it with.
SockPlain(q) ==
  /\ q.kind \in {"4REQ", "5REQ"} => q.port < 65536
  /\ q.kind = "5REQ" => Len(q.addr) <= 256
  /\ q.kind = "5PASSREQ" => Len(q.user) < 256 /\ Len(q.user) = Len(q.pass)

\* As long as no send failed, a SOCKS proxy reads the requests that were meant, one after
\* another and nothing between them.
SockFramed ==
  sockUp /\ (\A i \in DOMAIN sockMeant : SockPlain(sockMeant[i]))
  => SockReads([i \in DOMAIN sockMeant |-> sockMeant[i].kind], sockWire)
       = [read |-> sockMeant, rest |-> <<>>]

SessValue(key) ==
  {sessReq.hdrs[i].val : i \in {i \in DOMAIN sessReq.hdrs : sessReq.hdrs[i].key = key}}

\* The URLs that have a part of their own, and the latest of them that was opened, if any.
SessWithHost == {x \in SessUrls : x.scheme # "none"}
SessWithPort == {x \in SessUrls : x.port # 0}
SessWithUser == {x \in SessUrls : x.login # "none"}
SessWithPass == {x \in SessUrls : x.login = "both"}
SessLatest(S) ==
  {sessSeen[i] : i \in {i \in DOMAIN sessSeen :
     sessSeen[i] \in S /\ \A j \in i + 1 .. Len(sessSeen) : sessSeen[j] \notin S}}

\* A request that is not cut has each header once though the headers are never cleared.  Host is
\* the host of the latest URL that has one and the port of the latest that has one, 80 before
\* that: an earlier URL's where this one is only a path or has no port.  A direct http session
\* is connected to just that host and that port, of which a UINT16 is left.
\* Where the latest user and the latest password are not empty, Authorization is there and is
\* read as these two; where one is empty an older Authorization may stay, but there is none as
\* long as no URL had a password.  The proxy reads its credentials as the configured ones.
SessHeaders ==
  sessPc = "reply" /\ sessReq.hdrs # <<>> =>
    /\ \A i, j \in DOMAIN sessReq.hdrs : sessReq.hdrs[i].key = sessReq.hdrs[j].key => i = j
    /\ SessValue("Host") # {}
    /\ \A v \in SessValue("Host") :
         /\ \A x \in SessLatest(SessWithHost) :
              /\ v.host = x.host
              /\ sessProxy.type = "none" /\ x.scheme = "http"
                   => sessConn = [host |-> v.host, port |-> v.port % 65536]
         /\ \A x \in SessLatest(SessWithPort) : v.port = x.port
         /\ SessLatest(SessWithPort) = {} => v.port = 80
    /\ \A x \in SessLatest(SessWithUser), y \in SessLatest(SessWithPass) :
         LET login == SessLogin(x.user, y.pass)
         IN  x.user # <<>> /\ y.pass # <<>> =>
               /\ SessValue("Authorization") # {}
               /\ \A v \in SessValue("Authorization") :
                    B64ReadAs(v, login) /\ (B64Clean(login) => B64Formed(v))
    /\ SessLatest(SessWithPass) = {} => SessValue("Authorization") = {}
    /\ \A v \in SessValue("Proxy-Authorization") :
         B64ReadAs(v, SessLogin(sessProxy.user, sessProxy.pass)) /\ B64Formed(v)

=============================================================================
