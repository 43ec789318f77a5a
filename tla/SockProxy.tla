------------------------------ MODULE SockProxy ------------------------------
(***************************************************************************)
(* libspider/SockProxy.cpp: the packets a TSockProxy sends to a SOCKS4 or   *)
(* SOCKS5 proxy, and how it reads the replies.  A packet is a sequence of   *)
(* bytes; a name, a password and an address are sequences of bytes too.     *)
(***************************************************************************)
EXTENDS Integers, Sequences, SequencesExt

SOCKS_VERS_4 == 4
SOCKS_VERS_5 == 5
SOCKS_CMDS_CONNECT == 1
SOCKS_ADDR_IPV4ADDR == 1
SOCKS_ADDR_HOSTNAME == 3
SOCKS_ADDR_IPV6ADDR == 4
SOCKS_AUTH_NONE == 0
SOCKS_AUTH_PASSWD == 2

\* A string as the program reads it beyond its end: the NUL, and then anything.
SockByte(s, i) == IF i <= Len(s) THEN s[i] ELSE 0
SockBytes(s, n) == [i \in 1 .. n |-> SockByte(s, i)]

\* The length of a string where it is kept in a uint8_t.
SockLen8(s) == Len(s) % 256

\* A uint16_t through htons, low byte first: the high byte of the port is sent first.
SockPort(p) == <<(p % 65536) \div 256, p % 256>>

\* Fault: the byte that holds the length of a name is not counted.
SockAddrLenShort(q) ==
  IF q.type = SOCKS_ADDR_IPV4ADDR THEN 4
  ELSE IF q.type = SOCKS_ADDR_HOSTNAME THEN SockByte(q.addr, 1)
  ELSE Len(q.addr)

\* A request is what SendXXX puts into SOCKS_REQUEST: kind, and the fields of its kind.
\* The packets that carry an address: its length is known from its type.
SockAddrLen(q) ==
  IF q.type = SOCKS_ADDR_IPV4ADDR THEN 4
  ELSE IF q.type = SOCKS_ADDR_IPV6ADDR THEN 16
  ELSE IF q.type = SOCKS_ADDR_HOSTNAME THEN 1 + SockByte(q.addr, 1)
  ELSE Len(q.addr)

SockPack4(q) ==
  <<SOCKS_VERS_4, SOCKS_CMDS_CONNECT>> \o SockPort(q.port) \o q.addr \o q.user \o <<0>>

SockPack5(q) ==
  <<SOCKS_VERS_5, SOCKS_CMDS_CONNECT, 0, q.type>>
    \o SockBytes(q.addr, SockAddrLen(q)) \o SockPort(q.port)

SockPackAuth(q) == <<SOCKS_VERS_5, Len(q.auths)>> \o q.auths

\* The password is copied with the length of the user's name.
SockPackPass(q) ==
  <<1, SockLen8(q.user)>> \o SockBytes(q.user, SockLen8(q.user))
    \o <<SockLen8(q.pass)>> \o SockBytes(q.pass, SockLen8(q.user))

\* PackGet.
SockPackGet(q) ==
  CASE q.kind = "4REQ" -> SockPack4(q)
    [] q.kind = "5REQ" -> SockPack5(q)
    [] q.kind = "5AUTHREQ" -> SockPackAuth(q)
    [] q.kind = "5PASSREQ" -> SockPackPass(q)

\* PackSize: 4 more than the packet is thought to need.
SockPackSize(q) ==
  4 + CASE q.kind = "4REQ" -> 9 + Len(q.user)
        [] q.kind = "5REQ" ->
             6 + (IF q.type = SOCKS_ADDR_IPV4ADDR THEN 4
                  ELSE IF q.type = SOCKS_ADDR_IPV6ADDR THEN 16
                  ELSE IF q.type = SOCKS_ADDR_HOSTNAME THEN 2 + SockByte(q.addr, 1)
                  ELSE 2 + Len(q.addr))
        [] q.kind = "5AUTHREQ" -> 4 + Len(q.auths)
        [] q.kind = "5PASSREQ" -> 4 + SockLen8(q.user) + SockLen8(q.pass)

\* SendPacket sends nothing when the packet does not fit its buffer.
SockFits(q) == Len(SockPackGet(q)) < SockPackSize(q)

Sock4Req(port, addr, user) == [kind |-> "4REQ", port |-> port, addr |-> addr, user |-> user]
Sock5Req(type, port, addr) == [kind |-> "5REQ", type |-> type, port |-> port, addr |-> addr]
Sock5AuthReq(auths) == [kind |-> "5AUTHREQ", auths |-> auths]
Sock5PassReq(user, pass) == [kind |-> "5PASSREQ", user |-> user, pass |-> pass]

-----------------------------------------------------------------------------
\* What a proxy makes of the bytes it is sent: the requests, each by the lengths in it.
SockTake(w, from, n) == [i \in 1 .. n |-> SockByte(w, from + i - 1)]

SockEnd(w, from) ==
  CHOOSE n \in 0 .. Len(w) :
    SockByte(w, from + n) = 0 /\ \A i \in 1 .. n : SockByte(w, from + i - 1) # 0

SockRead4(w) ==
  Sock4Req(256 * SockByte(w, 3) + SockByte(w, 4), SockTake(w, 5, 4), SockTake(w, 9, SockEnd(w, 9)))

SockRead5(w) ==
  LET n == IF SockByte(w, 4) = SOCKS_ADDR_HOSTNAME THEN 1 + SockByte(w, 5) ELSE 4
  IN  Sock5Req(SockByte(w, 4), 256 * SockByte(w, 5 + n) + SockByte(w, 6 + n), SockTake(w, 5, n))

SockReadAuth(w) == Sock5AuthReq(SockTake(w, 3, SockByte(w, 2)))

SockReadPass(w) ==
  LET n == SockByte(w, 2)
  IN  Sock5PassReq(SockTake(w, 3, n), SockTake(w, 4 + n, SockByte(w, 3 + n)))

\* The next request of a stream, when the proxy expects one of this kind, and its length.
SockReadOne(kind, w) ==
  CASE kind = "4REQ" -> SockRead4(w)
    [] kind = "5REQ" -> SockRead5(w)
    [] kind = "5AUTHREQ" -> SockReadAuth(w)
    [] kind = "5PASSREQ" -> SockReadPass(w)

SockReadLen(q) ==
  CASE q.kind = "4REQ" -> 9 + Len(q.user)
    [] q.kind = "5REQ" -> 6 + Len(q.addr)
    [] q.kind = "5AUTHREQ" -> 2 + Len(q.auths)
    [] q.kind = "5PASSREQ" -> 3 + Len(q.user) + Len(q.pass)

\* The requests read from w one after another, and the bytes that are left over.
SockReads(kinds, w) ==
  LET at[n \in 0 .. Len(kinds)] ==
        IF n = 0 THEN [read |-> <<>>, rest |-> w]
        ELSE LET q == SockReadOne(kinds[n], at[n - 1].rest)
             IN  [read |-> Append(at[n - 1].read, q),
                  rest |-> SubSeq(at[n - 1].rest, SockReadLen(q) + 1, Len(at[n - 1].rest))]
  IN  at[Len(kinds)]

=============================================================================
