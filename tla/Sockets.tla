------------------------------- MODULE Sockets -------------------------------
(***************************************************************************)
(* The TcpSocket of libspider/Socket.cpp: its descriptor and its SSL        *)
(* object, and the loops that read and write a number of bytes over short   *)
(* counts, signals, timeouts, errors and the close of the peer.             *)
(*                                                                          *)
(* The bytes the peer sends are 1, 2, ... in order, and so are the bytes of *)
(* a buffer that is written.  A buffer that is read into holds 0 where      *)
(* nothing was stored.                                                      *)
(***************************************************************************)
EXTENDS Integers, Sequences

CONSTANTS
  TcpSockets,   \* bound: descriptors opened in a run
  TcpBytes,     \* bound: bytes the peer sends
  TcpSizes      \* the sizes of buffers

ASSUME TcpAssumption ==
  TcpSockets \in Nat /\ TcpBytes \in Nat /\ TcpSizes \subseteq Nat \ {0}

VARIABLES
  tcpSock,      \* m_sock, 0 for INVALID_SOCKET
  tcpFds,       \* the descriptors that are open
  tcpOpened,    \* how many were
  tcpUse,       \* useSSL
  tcpSsl,       \* the descriptor ssl was made for, 0 for NULL
  tcpAsync,     \* m_async
  tcpPc,        \* "idle", or the loop that runs
  tcpLen,       \* nLen
  tcpLeft,      \* nLeft
  tcpPos,       \* how far buf was advanced
  tcpBuf,       \* the buffer of the call, or what a write has put out
  tcpSize,      \* size of __discard_read
  tcpRet,       \* what the last call returned
  tcpIn,        \* bytes that have arrived and were not read
  tcpTaken,     \* bytes that were read
  tcpStart,     \* tcpTaken when the call began
  tcpEof        \* the peer has closed

tcpLife == <<tcpSock, tcpFds, tcpOpened, tcpUse, tcpSsl, tcpAsync>>
tcpCall == <<tcpPc, tcpLen, tcpLeft, tcpPos, tcpBuf, tcpSize, tcpRet, tcpStart>>
tcpPeer == <<tcpIn, tcpTaken, tcpEof>>
tcpVars == <<tcpLife, tcpCall, tcpPeer>>

TcpReads == {"exact", "once", "discard", "recv"}
TcpWrites == {"write", "send"}

TcpInit ==
  /\ tcpSock = 0 /\ tcpFds = {} /\ tcpOpened = 0
  /\ tcpUse = FALSE /\ tcpSsl = 0 /\ tcpAsync = FALSE
  /\ tcpPc = "idle" /\ tcpLen = 0 /\ tcpLeft = 0 /\ tcpPos = 0 /\ tcpBuf = <<>>
  /\ tcpSize = 0 /\ tcpRet = 0 /\ tcpStart = 0
  /\ tcpIn = 0 /\ tcpTaken = 0 /\ tcpEof = FALSE

-----------------------------------------------------------------------------
\* A new connection has nothing to read yet.
TcpFresh ==
  /\ tcpIn' = 0 /\ tcpTaken' = 0 /\ tcpEof' = FALSE
  /\ tcpPc' = "idle" /\ tcpLen' = 0 /\ tcpLeft' = 0 /\ tcpPos' = 0 /\ tcpBuf' = <<>>
  /\ tcpSize' = 0 /\ tcpRet' = 0 /\ tcpStart' = 0

\* Fault: m_sock is given up without close.
TcpConnectLeaks ==
  LET s == IF tcpSock = 0 THEN tcpOpened + 1 ELSE tcpSock IN
  /\ tcpPc = "idle" /\ s <= TcpSockets
  /\ tcpOpened' = IF tcpSock = 0 THEN s ELSE tcpOpened
  /\ tcpFds' = tcpFds \cup {s}
  /\ tcpSock' \in {0, s}
  /\ TcpFresh
  /\ UNCHANGED <<tcpUse, tcpSsl, tcpAsync>>

\* Connect, by an object that may have a descriptor.  A connection that fails, is
\* refused, times out or was there already ends in close.
TcpConnect ==
  LET s == IF tcpSock = 0 THEN tcpOpened + 1 ELSE tcpSock IN
  /\ tcpPc = "idle" /\ s <= TcpSockets
  /\ tcpOpened' = IF tcpSock = 0 THEN s ELSE tcpOpened
  /\ \/ tcpSock = 0 /\ tcpSock' = s /\ tcpFds' = tcpFds \cup {s}
     \/ tcpSock' = 0 /\ tcpFds' = tcpFds \ {s}
  /\ TcpFresh
  /\ UNCHANGED <<tcpUse, tcpSsl, tcpAsync>>

\* closeSocket.
TcpClose ==
  /\ tcpPc = "idle" /\ tcpSock # 0
  /\ tcpFds' = tcpFds \ {tcpSock} /\ tcpSock' = 0
  /\ TcpFresh
  /\ UNCHANGED <<tcpOpened, tcpUse, tcpSsl, tcpAsync>>

\* enableSSL(true): nothing is done twice; SSL_CTX_new and SSL_new may fail.
TcpEnableSSL ==
  /\ tcpPc = "idle" /\ ~ tcpUse /\ tcpSock # 0
  /\ tcpUse' = TRUE
  /\ tcpSsl' \in {0, tcpSock}
  /\ UNCHANGED <<tcpSock, tcpFds, tcpOpened, tcpAsync, tcpCall, tcpPeer>>

TcpDisableSSL ==
  /\ tcpPc = "idle" /\ tcpUse
  /\ tcpUse' = FALSE /\ tcpSsl' = 0
  /\ UNCHANGED <<tcpSock, tcpFds, tcpOpened, tcpAsync, tcpCall, tcpPeer>>

\* The destructor, and a new object in its place; the SSL object is freed when useSSL is set.
TcpDestroy ==
  /\ tcpPc = "idle"
  /\ tcpSsl' = IF tcpUse THEN 0 ELSE tcpSsl
  /\ tcpUse' = FALSE
  /\ tcpFds' = tcpFds \ {tcpSock} /\ tcpSock' = 0
  /\ TcpFresh
  /\ UNCHANGED <<tcpOpened, tcpAsync>>

TcpSetAsync ==
  /\ tcpPc = "idle" /\ tcpSock # 0
  /\ tcpAsync' = ~ tcpAsync
  /\ UNCHANGED <<tcpSock, tcpFds, tcpOpened, tcpUse, tcpSsl, tcpCall, tcpPeer>>

-----------------------------------------------------------------------------
\* Recv, RecvOnce, RecvOut, Recv with a timeout, Send and Send with a timeout begin.
TcpBegin(kind, n) ==
  /\ tcpPc = "idle" /\ tcpSock # 0
  /\ tcpPc' = kind
  /\ tcpLen' = n /\ tcpLeft' = n /\ tcpPos' = 0 /\ tcpSize' = 0 /\ tcpRet' = 0
  /\ tcpBuf' = [i \in 1 .. n |-> 0]
  /\ tcpStart' = tcpTaken
  /\ UNCHANGED <<tcpLife, tcpPeer>>

TcpReturn(r) == tcpPc' = "idle" /\ tcpRet' = r /\ UNCHANGED tcpSize

\* nLeft -= n, buf += n; the loop ends when nothing is left.
TcpAdvance(n) == tcpLeft' = tcpLeft - n /\ tcpPos' = tcpPos + n

\* k bytes arrive at buf, or leave from it.
TcpFill(k, from) ==
  tcpBuf' = [i \in DOMAIN tcpBuf |->
               IF i \in tcpPos + 1 .. tcpPos + k THEN from + i - tcpPos ELSE tcpBuf[i]]

\* The end of one read: __discard_read reads again into the same buffer as long as it
\* gets something.
TcpReadEnds(got) ==
  IF tcpPc # "discard" THEN TcpReturn(got) /\ UNCHANGED <<tcpLeft, tcpPos>>
  ELSE IF got <= 0
  THEN tcpPc' = "idle" /\ tcpRet' = tcpSize /\ UNCHANGED <<tcpSize, tcpLeft, tcpPos>>
  ELSE tcpSize' = tcpSize + got /\ tcpLeft' = tcpLen /\ tcpPos' = 0 /\ UNCHANGED <<tcpPc, tcpRet>>

\* recv takes what has arrived: a part of it, at most as much as is wanted.
TcpTake ==
  /\ tcpPc \in TcpReads /\ tcpLeft > 0
  /\ \E k \in 1 .. tcpIn :
       /\ k <= tcpLeft
       /\ TcpFill(k, tcpTaken)
       /\ tcpTaken' = tcpTaken + k /\ tcpIn' = tcpIn - k
       /\ IF tcpPc = "recv" THEN TcpReturn(k) /\ UNCHANGED <<tcpLeft, tcpPos>>
          ELSE TcpAdvance(k) /\ UNCHANGED <<tcpPc, tcpRet, tcpSize>>
  /\ UNCHANGED <<tcpLen, tcpStart, tcpEof, tcpLife>>

\* Everything asked for is there, or the peer has closed.
TcpReadDone ==
  /\ tcpPc \in TcpReads
  /\ \/ tcpLeft = 0
     \/ tcpIn = 0 /\ tcpEof
  /\ TcpReadEnds(tcpLen - tcpLeft)
  /\ UNCHANGED <<tcpLen, tcpBuf, tcpStart, tcpPeer, tcpLife>>

\* Fault: nRead and nWrite stay -1.
TcpSignalCounts ==
  /\ tcpPc \in {"exact", "once", "discard", "write"} /\ tcpLeft > 0 /\ tcpPos > 0
  /\ TcpAdvance(-1)
  /\ UNCHANGED <<tcpPc, tcpLen, tcpBuf, tcpSize, tcpRet, tcpStart, tcpPeer, tcpLife>>

\* A signal: nRead and nWrite are set to 0 and the loop goes on.
TcpSignal ==
  /\ tcpPc \in {"exact", "once", "discard", "write"} /\ tcpLeft > 0
  /\ TcpAdvance(0)
  /\ UNCHANGED <<tcpPc, tcpLen, tcpBuf, tcpSize, tcpRet, tcpStart, tcpPeer, tcpLife>>

\* Nothing has arrived: the timed read gives up, __once_read keeps what it has, and
\* __exact_read does so in asynchronous mode, else it is an error.
TcpNothing ==
  /\ tcpPc \in TcpReads /\ tcpLeft > 0 /\ tcpIn = 0 /\ ~ tcpEof
  /\ tcpAsync /\ tcpPc = "exact" => tcpLeft < tcpLen
  /\ TcpReadEnds(IF tcpPc = "recv" \/ (tcpPc = "exact" /\ ~ tcpAsync) THEN -1 ELSE tcpLen - tcpLeft)
  /\ UNCHANGED <<tcpLen, tcpBuf, tcpStart, tcpPeer, tcpLife>>

\* An error: the bytes that were read already are lost to the caller.
TcpError ==
  /\ tcpPc # "idle" /\ tcpLeft > 0
  /\ TcpReadEnds(-1)
  /\ UNCHANGED <<tcpLen, tcpBuf, tcpStart, tcpPeer, tcpLife>>

\* send puts out the next bytes, and the timed Send returns the count of the last.
TcpPut ==
  /\ tcpPc \in TcpWrites /\ tcpLeft > 0
  /\ \E k \in 1 .. tcpLeft :
       /\ TcpFill(k, tcpPos)
       /\ TcpAdvance(k)
       /\ IF k < tcpLeft THEN UNCHANGED <<tcpPc, tcpRet, tcpSize>>
          ELSE TcpReturn(IF tcpPc = "send" THEN k ELSE tcpLen)
  /\ UNCHANGED <<tcpLen, tcpStart, tcpPeer, tcpLife>>

\* The peer sends a byte, or closes.
TcpArrive ==
  /\ tcpSock # 0 /\ ~ tcpEof /\ tcpTaken + tcpIn < TcpBytes
  /\ tcpIn' = tcpIn + 1
  /\ UNCHANGED <<tcpTaken, tcpEof, tcpCall, tcpLife>>

TcpPeerCloses ==
  /\ tcpSock # 0 /\ ~ tcpEof
  /\ tcpEof' = TRUE
  /\ UNCHANGED <<tcpIn, tcpTaken, tcpCall, tcpLife>>

TcpNext ==
  \/ TcpConnect \/ TcpClose \/ TcpEnableSSL \/ TcpDisableSSL \/ TcpDestroy \/ TcpSetAsync
  \/ \E kind \in TcpReads \cup TcpWrites, n \in TcpSizes : TcpBegin(kind, n)
  \/ TcpTake \/ TcpReadDone \/ TcpSignal \/ TcpNothing \/ TcpError \/ TcpPut
  \/ TcpArrive \/ TcpPeerCloses

TcpSpec == TcpInit /\ [][TcpNext]_tcpVars

-----------------------------------------------------------------------------
TcpTypeOK ==
  /\ tcpSock \in 0 .. TcpSockets /\ tcpFds \subseteq 1 .. TcpSockets
  /\ tcpOpened \in 0 .. TcpSockets
  /\ tcpUse \in BOOLEAN /\ tcpSsl \in 0 .. TcpSockets /\ tcpAsync \in BOOLEAN
  /\ tcpPc \in {"idle"} \cup TcpReads \cup TcpWrites
  /\ tcpLen \in TcpSizes \cup {0} /\ tcpLeft \in 0 .. tcpLen /\ tcpPos \in 0 .. tcpLen
  /\ tcpBuf \in Seq(0 .. TcpBytes + tcpLen) /\ Len(tcpBuf) = tcpLen
  /\ tcpSize \in 0 .. TcpBytes /\ tcpRet \in -1 .. TcpBytes + tcpLen /\ tcpStart \in 0 .. TcpBytes
  /\ tcpIn \in 0 .. TcpBytes /\ tcpTaken \in 0 .. TcpBytes /\ tcpEof \in BOOLEAN

\* The object owns the one descriptor that is open, whatever failed on the way, and
\* an SSL object only while useSSL tells its destructor to free it.
SocketKept ==
  /\ tcpFds = (IF tcpSock = 0 THEN {} ELSE {tcpSock})
  /\ tcpSsl # 0 => tcpUse

\* However the bytes come and go in parts, with signals between them: a read that
\* returns n has the next n bytes of the peer at the front of its buffer, in order and
\* none twice (RecvOut reads over its buffer and counts no byte it did not take), and a
\* write that returns without an error has put out its whole buffer, in order.
StreamInStep ==
  tcpPc = "idle" /\ tcpRet > 0 =>
    IF tcpTaken = tcpStart THEN \A i \in 1 .. tcpLen : tcpBuf[i] = i
    ELSE IF tcpSize > 0 THEN tcpRet <= tcpTaken - tcpStart
    ELSE /\ tcpRet = tcpTaken - tcpStart
         /\ \A i \in 1 .. tcpRet : tcpBuf[i] = tcpStart + i

=============================================================================
