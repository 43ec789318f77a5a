----------------------------- MODULE HttpFetch -----------------------------
(***************************************************************************)
(* THttpCli (libspider/HttpCli.cpp) as one worker uses it: fetchHtmlPage is *)
(* called for one URL after another with the same Uri object, the same      *)
(* htmlContent and one connection at a time, against servers that redirect, *)
(* answer with errors, close early and stall.                               *)
(*                                                                          *)
(* A body is a sequence of tokens: Data for a byte of the page, a number for *)
(* a line that strtol reads as that number, 0 for an empty line.            *)
(***************************************************************************)
EXTENDS FetchOutcome, Sequences, FiniteSets

CONSTANTS
  Text,         \* the hosts, paths and queries of URLs
  Empty,        \* "", what Uri has for a part that the URL lacks
  Url,          \* the URLs fetched and redirected to
  Parts,        \* what Uri::init finds in each: port 0 and Empty for what it lacks
  Data,         \* a byte of a page
  PageSize,     \* bound on the bytes of a page, and on a chunk
  BufSize,      \* HTTP_BUF_SIZE: bytes one read may return
  MaxFetches    \* bound on the calls of fetchHtmlPage

\* What Uri keeps of a URL.
UriParts == [host : Text, port : Nat, path : Text, query : Text]
Token == 0 .. PageSize \cup {Data}

ASSUME HttpFetchAssumption ==
  /\ Empty \in Text
  /\ Parts \in [Url -> UriParts]
  /\ PageSize \in Nat /\ BufSize \in Nat \ {0} /\ MaxFetches \in Nat
  /\ Data \notin Nat

VARIABLES
  pc,           \* where fetchHtmlPage is, "idle" between two calls
  url,          \* the URL of the current session
  uri,          \* the Uri object: what the request is made from
  status,       \* status of fetchHtmlPage, set by the first session
  last,         \* the status of the latest session
  cnt,          \* redirections followed by goto retry
  sessions,     \* sessions of this fetch
  socket,       \* whether m_sock is open
  head,         \* the headers of the response: te, len, and the size of the page
  wire,         \* what the server has still to send before it closes
  left,         \* Length and filesize: bytes still expected
  line,         \* what strtol makes of linebuf
  file,         \* the save file and htmlContent: whose they are, their bytes
  ret,          \* the result of the last fetch
  fetches       \* calls so far

request == <<url, uri, cnt, sessions>>
reply == <<status, last, head>>
transfer == <<wire, left, line>>
result == <<socket, ret>>
vars == <<pc, request, reply, transfer, result, file, fetches>>

\* 301 and 302; the codes fetchHtmlPage fails for; every other code is "ok".
Status == {"ok", "redirect", "error", "none"}
NoHead == [te |-> "none", len |-> -1, page |-> 0]

TypeOK ==
  /\ pc \in {"idle", "session", "redirect", "retry", "dispatch", "eof", "length", "chunk"}
  /\ url \in Url /\ uri \in UriParts
  /\ status \in Status /\ last \in Status
  /\ cnt \in 0 .. 5 /\ sessions \in Nat
  /\ socket \in BOOLEAN
  /\ head \in [te : {"none", "chunked", "other"}, len : -1 .. PageSize, page : 0 .. PageSize]
  /\ wire \in Seq(Token)
  /\ left \in Int /\ line \in 0 .. PageSize
  /\ file \in [of : 0 .. MaxFetches, bytes : Nat, junk : BOOLEAN]
  /\ ret \in Int /\ fetches \in 0 .. MaxFetches

-----------------------------------------------------------------------------
Init ==
  /\ pc = "idle" /\ url \in Url
  /\ uri = [host |-> Empty, port |-> 0, path |-> Empty, query |-> Empty]
  /\ status = "none" /\ last = "none" /\ cnt = 0 /\ sessions = 0
  /\ socket = FALSE /\ head = NoHead /\ wire = <<>> /\ left = 0 /\ line = 0
  /\ file = [of |-> 0, bytes |-> 0, junk |-> FALSE]
  /\ ret = 0 /\ fetches = 0

\* Bodies a server sends: all of a page of n bytes, or a beginning of it.
Bytes(n) == [i \in 1 .. n |-> Data]
Plain(n) == {Bytes(k) : k \in 0 .. n}

\* A page in one or two chunks, each a size line, the bytes and an empty line,
\* then the chunk of size 0 and an empty line.
Chunk(n) == <<n>> \o Bytes(n) \o <<0>>
ChunkedAs(n) ==
  {(IF n = 0 THEN <<>> ELSE Chunk(n)) \o <<0, 0>>} \cup
  {Chunk(k) \o Chunk(n - k) \o <<0, 0>> : k \in 1 .. n - 1}
Chunked(n) == UNION {{SubSeq(b, 1, k) : k \in 0 .. Len(b)} : b \in ChunkedAs(n)}

\* The answers: the headers, and what follows before the server closes.  The
\* Content-Length need not be the size of the page.
Answers ==
  UNION {
    [head : [te : {"none", "other"}, len : -1 .. PageSize, page : {n}],
     wire : Plain(n)] \cup
    [head : {[te |-> "chunked", len |-> -1, page |-> n]},
     wire : Chunked(n)] : n \in 0 .. PageSize}

\* Uri::init assigns the parts the URL has and leaves the others as they are: a
\* URL without a host is one on the host before.  Then port 80, if there is none.
Merged(u) ==
  LET new == Parts[u] IN
  [host |-> IF new.host # Empty THEN new.host ELSE uri.host,
   port |-> IF new.port # 0 THEN new.port ELSE uri.port,
   path |-> IF new.path # Empty THEN new.path ELSE uri.path,
   query |-> IF new.query # Empty THEN new.query ELSE uri.query]
Reinit(u) == [Merged(u) EXCEPT !.port = IF @ = 0 THEN 80 ELSE @]

\* setupHttpSession: connect, send the request, read the headers.  "none" stands
\* for -1: no address, no connection (Connect closes the socket) or no headers.
Session(u, st) ==
  /\ url' = u
  /\ uri' = Reinit(u)
  /\ last' = st
  /\ sessions' = sessions + 1

\* The server answers, over a connection that is now open.
Answered ==
  /\ \E a \in Answers : head' = a.head /\ wire' = a.wire
  /\ socket' = TRUE
  /\ UNCHANGED <<left, line, ret>>

\* fetchHtmlPage returns; every return closes the socket first, and what the
\* server had still to send is lost.
Return(r) ==
  /\ pc' = "idle" /\ ret' = r /\ socket' = FALSE
  /\ wire' = <<>> /\ left' = 0 /\ line' = 0

\* fetchHtmlPage up to the first session; its Uri, file and content are those
\* the previous call left.  The crawler's queue has no URL without a host (but for a
\* start_url that is missing, whose host no look-up finds).
Fetch(u) ==
  /\ pc = "idle"
  /\ Parts[u].host # Empty
  /\ fetches < MaxFetches
  /\ fetches' = fetches + 1
  /\ url' = u
  /\ pc' = "session"
  /\ cnt' = 0 /\ sessions' = 0
  /\ UNCHANGED <<uri, reply, transfer, result, file>>

\* Fault: the -1 of setupHttpSession is passed on.
FirstSessionRaw ==
  /\ pc = "session"
  /\ \E st \in Status :
       /\ Session(url, st)
       /\ status' = st
       /\ IF st = "none"
          THEN Return(-1) /\ head' = NoHead
          ELSE Answered /\ pc' = IF st = "redirect" THEN "redirect" ELSE "dispatch"
  /\ UNCHANGED <<cnt, file, fetches>>

FirstSession ==
  /\ pc = "session"
  /\ \E st \in Status :
       /\ Session(url, st)
       /\ status' = st
       /\ IF st = "none"
          THEN Return(-2) /\ head' = NoHead
          ELSE Answered /\ pc' = IF st = "redirect" THEN "redirect" ELSE "dispatch"
  /\ UNCHANGED <<cnt, file, fetches>>

\* Fault: the connection of the page that redirects is not closed.
FollowOpen ==
  /\ pc = "redirect"
  /\ url' \in Url
  /\ pc' = "retry"
  /\ UNCHANGED <<uri, cnt, sessions, reply, transfer, result, file, fetches>>

\* retry: the Location of the last answer, then closeSocket.  getLocation returns a
\* pointer into a string that is gone, so any URL may be read there.
Follow ==
  /\ pc = "redirect"
  /\ url' \in Url
  /\ socket' = FALSE /\ wire' = <<>>
  /\ pc' = "retry"
  /\ UNCHANGED <<uri, cnt, sessions, reply, left, line, ret, file, fetches>>

\* Fault: cnt is not counted.
RetryForever ==
  /\ pc = "retry"
  /\ sessions < 9
  /\ Session(url, "redirect")
  /\ Answered
  /\ pc' = "redirect"
  /\ UNCHANGED <<status, cnt, file, fetches>>

\* Fault: the bound is tested after cnt is counted up.
RetrySix ==
  /\ pc = "retry"
  /\ Session(url, "redirect")
  /\ Answered
  /\ cnt' = cnt + 1
  /\ pc' = IF cnt' <= 6 THEN "redirect" ELSE "dispatch"
  /\ UNCHANGED <<status, file, fetches>>

\* The session with it.  Its status is a variable of the block, not the one tested later.
Retry ==
  /\ pc = "retry"
  /\ \E st \in Status :
       /\ Session(url, st)
       /\ IF st = "none"
          THEN Return(-2) /\ head' = NoHead /\ UNCHANGED cnt
          ELSE /\ Answered
               /\ IF st = "redirect" /\ cnt < 5
                  THEN cnt' = cnt + 1 /\ pc' = "redirect"
                  ELSE pc' = "dispatch" /\ UNCHANGED cnt
  /\ UNCHANGED <<status, file, fetches>>

-----------------------------------------------------------------------------
\* fopen(savefile, "wb") and htmlContent.clear().
OpenFile == file' = [of |-> fetches, bytes |-> 0, junk |-> FALSE]

\* The tokens read are appended to htmlContent and to the file.
Store(tokens) ==
  file' = [file EXCEPT !.bytes = @ + Cardinality({i \in DOMAIN tokens : tokens[i] = Data}),
                       !.junk = @ \/ \E i \in DOMAIN tokens : tokens[i] # Data]
Taken(n) == SubSeq(wire, 1, n)
Rest(n) == SubSeq(wire, n + 1, Len(wire))

\* ReadLine takes what is there up to the end of a line; a line that begins with
\* something else than a number may be read as any.  When the server has closed
\* or keeps it waiting for 100 seconds, linebuf keeps what it held.
LineEnds(w) == {i \in DOMAIN w : w[i] # Data}
FirstEnd(w) == {i \in LineEnds(w) : \A j \in LineEnds(w) : i <= j}
LineRead(w, i) == [line : IF i = 1 THEN {w[1]} ELSE 0 .. PageSize,
                   wire : {SubSeq(w, i + 1, Len(w))}]
LineAfter(w, old) ==
  {[line |-> old, wire |-> w]} \cup
  (UNION {LineRead(w, i) : i \in FirstEnd(w)}) \cup
  (IF LineEnds(w) = {} /\ w # <<>> THEN [line : 0 .. PageSize, wire : {<<>>}] ELSE {})

\* The error statuses, then what to do with the body.  getTransferEncoding, too,
\* returns a pointer into a string that is gone: "chunked" may not be recognised.
Refuse ==
  /\ pc = "dispatch"
  /\ status = "error"
  /\ Return(-4)
  /\ UNCHANGED <<request, reply, file, fetches>>

OpenFails ==
  /\ pc = "dispatch"
  /\ status # "error"
  /\ head.te # "other"
  /\ Return(-2)
  /\ UNCHANGED <<request, reply, file, fetches>>

SkipBody ==
  /\ pc = "dispatch"
  /\ status # "error"
  /\ head.te # "none"
  /\ Return(0)
  /\ UNCHANGED <<request, reply, file, fetches>>

StartFile ==
  /\ pc = "dispatch"
  /\ status # "error"
  /\ head.te = "none"
  /\ OpenFile
  /\ left' = head.len
  /\ pc' = IF head.len = -1 THEN "eof" ELSE "length"
  /\ UNCHANGED <<request, reply, wire, line, result, fetches>>

StartChunks ==
  /\ pc = "dispatch"
  /\ status # "error"
  /\ head.te = "chunked"
  /\ OpenFile
  /\ \E garbage \in 0 .. PageSize : \E l \in LineAfter(wire, garbage) :
       line' = l.line /\ left' = l.line /\ wire' = l.wire
  /\ pc' = "chunk"
  /\ UNCHANGED <<request, reply, result, fetches>>

-----------------------------------------------------------------------------
\* fetchHtmlFile: what one RecvData may return, at most BufSize bytes.
Received == 1 .. IF Len(wire) < BufSize THEN Len(wire) ELSE BufSize
More(n) == Store(Taken(n)) /\ wire' = Rest(n)

\* Without a length: until the server closes; an error, or 100 seconds of
\* silence, fails.
RecvToEof ==
  /\ pc = "eof"
  /\ \/ (\E n \in Received : More(n)) /\ UNCHANGED <<pc, left, line, result>>
     \/ wire = <<>> /\ Return(file.bytes) /\ UNCHANGED file
     \/ Return(-2) /\ UNCHANGED file
  /\ UNCHANGED <<request, reply, fetches>>

MoreOfLength ==
  /\ left > 0
  /\ \E n \in Received : More(n) /\ left' = left - n
  /\ UNCHANGED <<pc, line, result>>

\* Fault: the end of the connection is not told from the end of the page.
RecvLengthEof ==
  /\ pc = "length"
  /\ \/ MoreOfLength
     \/ (left <= 0 \/ wire = <<>>) /\ Return(file.bytes) /\ UNCHANGED file
  /\ UNCHANGED <<request, reply, fetches>>

\* Fault: when nothing comes, the loop tries again.
RecvLengthAgain ==
  /\ pc = "length"
  /\ \/ MoreOfLength
     \/ left <= 0 /\ Return(file.bytes) /\ UNCHANGED file
  /\ UNCHANGED <<request, reply, fetches>>

\* With one: until so many bytes are there; the end of the connection fails too.
RecvLength ==
  /\ pc = "length"
  /\ \/ MoreOfLength
     \/ left <= 0 /\ Return(file.bytes) /\ UNCHANGED file
     \/ left > 0 /\ Return(-2) /\ UNCHANGED file
  /\ UNCHANGED <<request, reply, fetches>>

\* fetchHtmlChunk reads the bytes of a chunk, and goes round when it gets none.
RecvChunk ==
  /\ pc = "chunk"
  /\ left > 0
  /\ \E n \in Received : n <= left /\ More(n) /\ left' = left - n
  /\ UNCHANGED <<pc, request, reply, line, result, fetches>>

\* Then the empty line and the next size; the size 0 ends the page.
NextChunk ==
  /\ pc = "chunk"
  /\ left <= 0
  /\ \E a \in LineAfter(wire, line) : \E b \in LineAfter(a.wire, a.line) :
       IF b.line = 0
       THEN Return(0)
       ELSE line' = b.line /\ left' = b.line /\ wire' = b.wire /\ UNCHANGED <<pc, result>>
  /\ UNCHANGED <<request, reply, file, fetches>>

\* THttpCli rests when it is not called; the chunk loop goes round without
\* effect when nothing comes any more.
Stays ==
  /\ pc = "idle" \/ (pc = "chunk" /\ left > 0 /\ wire = <<>>)
  /\ UNCHANGED vars

Step ==
  \/ FirstSession \/ Follow \/ Retry
  \/ Refuse \/ OpenFails \/ SkipBody \/ StartFile \/ StartChunks
  \/ RecvToEof \/ RecvLength \/ RecvChunk \/ NextChunk

Next == (\E u \in Url : Fetch(u)) \/ Step \/ Stays

\* Every read returns: within 100 seconds, or with what the server sent.
Spec == Init /\ [][Next]_vars
FairSpec == Spec /\ WF_vars(Step)

-----------------------------------------------------------------------------
\* What the last fetch left to Run, as module Crawler sees it.
BodyLeft ==
  IF file.of # fetches THEN "none"
  ELSE IF file.bytes = head.page /\ ~ file.junk THEN "whole" ELSE "part"
Result == [ret |-> IF ret > 0 THEN 0 ELSE ret, body |-> BodyLeft]

\* Every fetch ends in an outcome module Crawler counts with.
OutcomeExpected == (pc = "idle" /\ fetches > 0) => Result \in Outcome

\* A page with a Content-Length is never taken for received when the connection
\* ended earlier, and the result counts the bytes in file and htmlContent.
LengthHonoured ==
  (pc = "idle" /\ ret > 0) =>
    /\ file.of = fetches /\ ret = file.bytes /\ ~ file.junk
    /\ ret >= head.len

\* No session begins over the connection of another: every path out of fetchHtmlPage
\* closes the connection, and so does every redirection before it is followed.
SocketClosed == pc \in {"idle", "session", "retry"} => ~ socket

\* A server that redirects for ever is asked at most seven times.
RedirectsEnd == sessions <= 7

\* A fetch returns, whatever the server does, unless it is in the loop over the
\* bytes of a chunk when the connection ends: that loop does not test for it.
FetchReturns ==
  (pc # "idle") ~> (pc = "idle" \/ (pc = "chunk" /\ left > 0 /\ wire = <<>>))

\* What libspider/Crawler.cpp:136 says of a result of at least 0: the page was
\* received.  Violated: a body whose encoding is not read as "chunked" is skipped with
\* result 0, and the status of a redirection's target is not looked at.
ReceivedIsReceived ==
  (pc = "idle" /\ fetches > 0 /\ ret >= 0) => (BodyLeft # "none" /\ last = "ok")

\* What Uri.h:38 says of port 80: it is the default of a http URL.  Violated:
\* Uri::init keeps the port of the URL before.
DefaultPort ==
  (pc \notin {"idle", "session", "retry"} /\ Parts[url].host # Empty /\ Parts[url].port = 0)
    => uri.port = 80

=============================================================================
