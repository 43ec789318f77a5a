-------------------------- MODULE HttpFetchProofs --------------------------
(***************************************************************************)
(* Safety of a fetch, for any page size, any buffer and any web: types, the *)
(* sessions of a redirection, the socket, the outcome and the length.       *)
(***************************************************************************)
EXTENDS HttpFetch, TLAPS, FiniteSetTheorems, SequenceTheorems

\* Where fetchHtmlPage waits for, or has, an answer.
Open == {"redirect", "dispatch", "eof", "length", "chunk"}

\* A body that is not chunked is made of bytes alone.
WireInv == head.te # "chunked" => \A i \in DOMAIN wire : wire[i] = Data

\* The sessions so far, by the redirections followed.
SessionInv ==
  /\ pc = "session" => cnt = 0 /\ sessions = 0
  /\ pc \in {"redirect", "retry"} => sessions = cnt + 1
  /\ pc \in {"dispatch", "eof", "length", "chunk"} => sessions <= cnt + 2
  /\ pc = "idle" => sessions <= 7

\* Until the file is opened it is that of an earlier fetch.
FileInv ==
  /\ file.of <= fetches
  /\ pc \in {"session", "redirect", "retry", "dispatch"} => file.of # fetches
  /\ pc \in {"eof", "length", "chunk"} => file.of = fetches
  /\ pc \in {"eof", "length"} => ~ file.junk /\ head.te = "none"
  /\ pc = "eof" => head.len = -1
  /\ pc = "length" => left + file.bytes = head.len
  /\ pc = "chunk" => head.te = "chunked"

\* What was returned, until the next call.
ReturnInv ==
  pc = "idle" =>
    /\ ret \in {-4, -2} \cup Nat
    /\ (ret = -4 /\ fetches > 0) => file.of # fetches
    /\ ret > 0 => file.of = fetches /\ ret = file.bytes /\ ~ file.junk /\ ret >= head.len

IInv ==
  /\ TypeOK
  /\ WireInv
  /\ SessionInv
  /\ FileInv
  /\ ReturnInv
  /\ SocketClosed

-----------------------------------------------------------------------------
\* What the constants are assumed to be.
LEMMA Constants ==
  /\ Empty \in Text /\ Parts \in [Url -> UriParts]
  /\ PageSize \in Nat /\ BufSize \in Nat /\ MaxFetches \in Nat
  /\ Data \notin Nat
  BY HttpFetchAssumption

\* The values variables are reset to.
LEMMA Resets ==
  /\ <<>> \in Seq(Token)
  /\ 0 \in 0 .. PageSize /\ 0 \in 0 .. 5 /\ 0 \in 0 .. MaxFetches
  /\ 0 \in Nat /\ 0 \in Int
  /\ "none" \in Status
  /\ NoHead \in [te : {"none", "chunked", "other"}, len : -1 .. PageSize,
                 page : 0 .. PageSize]
  <1>1. <<>> \in Seq(Token)
    BY EmptySeq
  <1>2. 0 \in 0 .. PageSize /\ 0 \in 0 .. MaxFetches /\ -1 \in -1 .. PageSize
    BY Constants
  <1>3. QED
    BY <1>1, <1>2 DEF NoHead, Status

\* What a return sets.
LEMMA ReturnType ==
  ASSUME NEW r \in Int, Return(r)
  PROVE  /\ pc' = "idle" /\ ret' \in Int /\ socket' \in BOOLEAN /\ left' \in Int
         /\ line' \in 0 .. PageSize /\ wire' \in Seq(Token)
  BY Resets DEF Return

\* A plain body is page bytes only.
LEMMA BytesType ==
  ASSUME NEW n \in 0 .. PageSize
  PROVE  /\ Bytes(n) \in Seq(Token)
         /\ Len(Bytes(n)) = n
         /\ \A i \in DOMAIN Bytes(n) : Bytes(n)[i] = Data
  <1>1. Bytes(n) \in [1 .. n -> Token]
    BY DEF Bytes, Token
  <1>2. n \in Nat
    BY Constants
  <1>3. QED
    BY <1>1, <1>2, IsASeq DEF Bytes

\* A chunk is tokens.
LEMMA ChunkType ==
  ASSUME NEW n \in 0 .. PageSize
  PROVE  Chunk(n) \in Seq(Token)
  <1>1. <<n>> \in Seq(Token) /\ <<0>> \in Seq(Token)
    BY Constants DEF Token
  <1>2. <<n>> \o Bytes(n) \in Seq(Token)
    BY <1>1, BytesType, ConcatProperties
  <1>3. QED
    BY <1>1, <1>2, ConcatProperties DEF Chunk

\* So is a body coded in chunks.
LEMMA ChunkedAsType ==
  ASSUME NEW n \in 0 .. PageSize
  PROVE  ChunkedAs(n) \subseteq Seq(Token)
  <1>1. <<0, 0>> \in Seq(Token) /\ <<>> \in Seq(Token)
    BY Constants DEF Token
  <1>2. (IF n = 0 THEN <<>> ELSE Chunk(n)) \o <<0, 0>> \in Seq(Token)
    <2>1. (IF n = 0 THEN <<>> ELSE Chunk(n)) \in Seq(Token)
      BY <1>1, ChunkType
    <2>2. QED
      BY <1>1, <2>1, ConcatProperties
  <1>3. ASSUME NEW k \in 1 .. n - 1
        PROVE  Chunk(k) \o Chunk(n - k) \o <<0, 0>> \in Seq(Token)
    <2>1. k \in 0 .. PageSize /\ n - k \in 0 .. PageSize
      BY Constants
    <2>2. Chunk(k) \o Chunk(n - k) \in Seq(Token)
      BY <2>1, ChunkType, ConcatProperties
    <2>3. QED
      BY <1>1, <2>2, ConcatProperties
  <1>4. QED
    BY <1>2, <1>3 DEF ChunkedAs

\* What a read leaves of the wire.
LEMMA Prefix ==
  ASSUME NEW S, NEW s \in Seq(S), NEW m \in 1 .. Len(s) + 1, NEW n \in 0 .. Len(s)
  PROVE  /\ SubSeq(s, m, n) \in Seq(S)
         /\ Len(SubSeq(s, m, n)) = IF m <= n THEN n - m + 1 ELSE 0
         /\ \A i \in 1 .. n - m + 1 : SubSeq(s, m, n)[i] = s[m + i - 1]
  <1>1. Len(s) \in Nat
    BY LenProperties
  <1>2. \A i \in m .. n : s[i] \in S
    BY <1>1, ElementOfSeq
  <1>3. m \in Int /\ n \in Int
    BY <1>1
  <1>4. QED
    BY <1>2, <1>3, SubSeqProperties

\* Every answer a server can give is well formed.
LEMMA AnswerType ==
  ASSUME NEW a \in Answers
  PROVE  /\ a.head \in [te : {"none", "chunked", "other"}, len : -1 .. PageSize,
                        page : 0 .. PageSize]
         /\ a.wire \in Seq(Token)
         /\ a.head.te # "chunked" => \A i \in DOMAIN a.wire : a.wire[i] = Data
  <1>1. PICK n \in 0 .. PageSize :
          \/ a \in [head : [te : {"none", "other"}, len : -1 .. PageSize, page : {n}],
                    wire : Plain(n)]
          \/ a \in [head : {[te |-> "chunked", len |-> -1, page |-> n]}, wire : Chunked(n)]
    BY DEF Answers
  <1>2. CASE a \in [head : [te : {"none", "other"}, len : -1 .. PageSize, page : {n}],
                    wire : Plain(n)]
    <2>1. PICK k \in 0 .. n : a.wire = Bytes(k)
      BY <1>2 DEF Plain
    <2>2. k \in 0 .. PageSize
      BY Constants
    <2>3. a.wire \in Seq(Token) /\ \A i \in DOMAIN a.wire : a.wire[i] = Data
      BY <2>1, <2>2, BytesType
    <2>4. QED
      BY <1>2, <2>3
  <1>3. CASE a \in [head : {[te |-> "chunked", len |-> -1, page |-> n]}, wire : Chunked(n)]
    <2>1. PICK b \in ChunkedAs(n) : \E k \in 0 .. Len(b) : a.wire = SubSeq(b, 1, k)
      BY <1>3 DEF Chunked
    <2>2. b \in Seq(Token)
      BY <2>1, ChunkedAsType
    <2>3. a.wire \in Seq(Token)
      BY <2>1, <2>2, Prefix, LenProperties
    <2>4. -1 \in -1 .. PageSize
      BY Constants
    <2>5. QED
      BY <1>3, <2>3, <2>4
  <1>4. QED
    BY <1>1, <1>2, <1>3

\* A redirection leaves a URI.
LEMMA ReinitType ==
  ASSUME NEW u \in Url, uri \in UriParts
  PROVE  Reinit(u) \in UriParts
  BY Constants DEF Reinit, Merged, UriParts

\* What ReadLine leaves is a line and a rest of what was there.
LEMMA LineAfterType ==
  ASSUME NEW w \in Seq(Token), NEW old \in 0 .. PageSize, NEW l \in LineAfter(w, old)
  PROVE  l.line \in 0 .. PageSize /\ l.wire \in Seq(Token)
  <1>1. CASE l = [line |-> old, wire |-> w]
    BY <1>1
  <1>2. ASSUME NEW i \in FirstEnd(w), l \in LineRead(w, i)
        PROVE  l.line \in 0 .. PageSize /\ l.wire \in Seq(Token)
    <2>1. i \in 1 .. Len(w) /\ w[i] # Data /\ Len(w) \in Nat
      BY LenProperties DEF FirstEnd, LineEnds
    <2>2. w[i] \in 0 .. PageSize
      BY <2>1, ElementOfSeq DEF Token
    <2>3. i + 1 \in 1 .. Len(w) + 1 /\ Len(w) \in 0 .. Len(w)
      BY <2>1
    <2>4. SubSeq(w, i + 1, Len(w)) \in Seq(Token)
      BY <2>3, Prefix
    <2>5. QED
      BY <1>2, <2>2, <2>4 DEF LineRead
  <1>3. CASE l \in [line : 0 .. PageSize, wire : {<<>>}]
    BY <1>3, EmptySeq
  <1>4. QED
    BY <1>1, <1>2, <1>3 DEF LineAfter

\* What one read takes, and what it leaves.
LEMMA TakenType ==
  ASSUME wire \in Seq(Token), NEW n \in Received
  PROVE  /\ n \in Nat \ {0}
         /\ Taken(n) \in Seq(Token) /\ Len(Taken(n)) = n
         /\ Rest(n) \in Seq(Token)
         /\ (\A i \in DOMAIN wire : wire[i] = Data) =>
              /\ \A i \in DOMAIN Taken(n) : Taken(n)[i] = Data
              /\ \A i \in DOMAIN Rest(n) : Rest(n)[i] = Data
  <1>1. Len(wire) \in Nat /\ DOMAIN wire = 1 .. Len(wire)
    BY LenProperties
  <1>2. n \in 1 .. Len(wire)
    BY <1>1, Constants DEF Received
  <1>3. /\ Taken(n) \in Seq(Token) /\ Len(Taken(n)) = n
        /\ \A i \in 1 .. n : Taken(n)[i] = wire[i]
    <2>1. 1 \in 1 .. Len(wire) + 1 /\ n \in 0 .. Len(wire)
      BY <1>1, <1>2
    <2>2. QED
      BY <1>2, <2>1, Prefix DEF Taken
  <1>4. /\ Rest(n) \in Seq(Token) /\ Len(Rest(n)) = Len(wire) - n
        /\ \A i \in 1 .. Len(wire) - n : Rest(n)[i] = wire[n + i]
    <2>1. n + 1 \in 1 .. Len(wire) + 1 /\ Len(wire) \in 0 .. Len(wire)
      BY <1>1, <1>2
    <2>2. /\ SubSeq(wire, n + 1, Len(wire)) \in Seq(Token)
          /\ Len(SubSeq(wire, n + 1, Len(wire))) =
               IF n + 1 <= Len(wire) THEN Len(wire) - (n + 1) + 1 ELSE 0
          /\ \A i \in 1 .. Len(wire) - (n + 1) + 1 :
               SubSeq(wire, n + 1, Len(wire))[i] = wire[n + 1 + i - 1]
      BY <2>1, Prefix
    <2>3. ASSUME NEW i \in 1 .. Len(wire) - n
          PROVE  SubSeq(wire, n + 1, Len(wire))[i] = wire[n + i]
      <3>1. n + 1 + i - 1 = n + i /\ i \in 1 .. Len(wire) - (n + 1) + 1
        BY <1>1, <1>2
      <3>2. QED
        BY <2>2, <3>1
    <2>4. Len(SubSeq(wire, n + 1, Len(wire))) = Len(wire) - n
      <3>1. CASE n + 1 <= Len(wire)
        <4>1. Len(wire) - (n + 1) + 1 = Len(wire) - n
          BY <1>1, <1>2
        <4>2. QED
          BY <2>2, <3>1, <4>1
      <3>2. CASE ~ (n + 1 <= Len(wire))
        <4>1. 0 = Len(wire) - n
          <5>1. \A i, j \in Nat : (i <= j /\ ~ (i + 1 <= j)) => 0 = j - i
            OBVIOUS
          <5>2. n \in Nat /\ n <= Len(wire)
            BY <1>1, <1>2
          <5>3. QED
            BY <1>1, <3>2, <5>1, <5>2, Zenon
        <4>2. QED
          BY <2>2, <3>2, <4>1
      <3>3. QED
        BY <3>1, <3>2
    <2>5. QED
      BY <2>2, <2>3, <2>4 DEF Rest
  <1>5. DOMAIN Taken(n) = 1 .. n /\ DOMAIN Rest(n) = 1 .. Len(wire) - n
    BY <1>3, <1>4, LenProperties
  <1>6. ASSUME \A i \in DOMAIN wire : wire[i] = Data
        PROVE  /\ \A i \in DOMAIN Taken(n) : Taken(n)[i] = Data
               /\ \A i \in DOMAIN Rest(n) : Rest(n)[i] = Data
    <2>1. \A i \in 1 .. n : i \in DOMAIN wire
      BY <1>1, <1>2
    <2>2. \A i \in 1 .. Len(wire) - n : n + i \in DOMAIN wire
      BY <1>1, <1>2
    <2>3. QED
      BY <1>3, <1>4, <1>5, <1>6, <2>1, <2>2
  <1>7. QED
    BY <1>2, <1>3, <1>4, <1>6

\* Store counts the bytes; tokens that are bytes are counted to the last.
LEMMA StoreType ==
  ASSUME NEW tokens \in Seq(Token), Store(tokens),
         file \in [of : 0 .. MaxFetches, bytes : Nat, junk : BOOLEAN]
  PROVE  /\ file' \in [of : 0 .. MaxFetches, bytes : Nat, junk : BOOLEAN]
         /\ file'.of = file.of
         /\ (\A i \in DOMAIN tokens : tokens[i] = Data) =>
              file'.bytes = file.bytes + Len(tokens) /\ file'.junk = file.junk
  <1> DEFINE bytes == {i \in DOMAIN tokens : tokens[i] = Data}
  <1>1. Len(tokens) \in Nat /\ DOMAIN tokens = 1 .. Len(tokens)
    BY LenProperties
  <1>2. IsFiniteSet(1 .. Len(tokens)) /\ Cardinality(1 .. Len(tokens)) = Len(tokens)
    <2>1. \A k \in Nat : (IF 1 > k THEN 0 ELSE k - 1 + 1) = k
      OBVIOUS
    <2>2. 1 \in Int /\ Len(tokens) \in Int
      BY <1>1
    <2>3. /\ IsFiniteSet(1 .. Len(tokens))
          /\ Cardinality(1 .. Len(tokens)) =
               IF 1 > Len(tokens) THEN 0 ELSE Len(tokens) - 1 + 1
      BY <2>2, FS_Interval, Zenon
    <2>4. QED
      BY <1>1, <2>1, <2>3, Zenon
  <1>3. Cardinality(bytes) \in Nat
    <2>1. bytes \in SUBSET (1 .. Len(tokens))
      BY <1>1
    <2>2. IsFiniteSet(bytes)
      BY <1>2, <2>1, FS_Subset
    <2>3. QED
      BY <2>2, FS_CardinalityType
  <1>4. file' = [file EXCEPT !.bytes = @ + Cardinality(bytes),
                             !.junk = @ \/ \E i \in DOMAIN tokens : tokens[i] # Data]
    BY DEF Store
  <1>5. /\ file'.of = file.of /\ file'.bytes = file.bytes + Cardinality(bytes)
        /\ file' \in [of : 0 .. MaxFetches, bytes : Nat, junk : BOOLEAN]
        /\ file'.junk = (file.junk \/ \E i \in DOMAIN tokens : tokens[i] # Data)
    <2>1. /\ file'.of = file.of /\ file'.bytes = file.bytes + Cardinality(bytes)
          /\ file'.junk = (file.junk \/ \E i \in DOMAIN tokens : tokens[i] # Data)
          /\ file' = [of |-> file'.of, bytes |-> file'.bytes, junk |-> file'.junk]
      BY <1>4
    <2>2. file'.of \in 0 .. MaxFetches /\ file'.bytes \in Nat
      BY <1>3, <2>1
    <2>3. (file.junk \/ \E i \in DOMAIN tokens : tokens[i] # Data) \in BOOLEAN
      OBVIOUS
    <2>4. QED
      BY <2>1, <2>2, <2>3
  <1>6. ASSUME \A i \in DOMAIN tokens : tokens[i] = Data
        PROVE  file'.bytes = file.bytes + Len(tokens) /\ file'.junk = file.junk
    <2>1. bytes = 1 .. Len(tokens)
      BY <1>1, <1>6
    <2>2. QED
      BY <1>2, <1>5, <1>6, <2>1
  <1>7. QED
    BY <1>5, <1>6

-----------------------------------------------------------------------------
\* The invariant holds before the first fetch.
LEMMA InitInv == Init => IInv
  <1> SUFFICES ASSUME Init PROVE IInv
    OBVIOUS
  <1>1. /\ pc = "idle" /\ head = NoHead /\ wire = <<>> /\ socket = FALSE
        /\ cnt = 0 /\ sessions = 0 /\ ret = 0 /\ fetches = 0 /\ left = 0 /\ line = 0
        /\ file = [of |-> 0, bytes |-> 0, junk |-> FALSE]
    BY DEF Init
  <1>2. TypeOK
    <2>1. file \in [of : 0 .. MaxFetches, bytes : Nat, junk : BOOLEAN]
      BY <1>1, Resets
    <2>2. url \in Url /\ status \in Status /\ last \in Status
      BY Resets DEF Init
    <2>3. uri \in UriParts
      <3>1. uri = [host |-> Empty, port |-> 0, path |-> Empty, query |-> Empty]
        BY DEF Init
      <3>2. Empty \in Text /\ 0 \in Nat
        BY Constants
      <3>3. QED
        BY <3>1, <3>2 DEF UriParts
    <2>4. QED
      BY <1>1, <2>1, <2>2, <2>3, Resets DEF TypeOK
  <1>3. WireInv
    BY <1>1, EmptySeq DEF WireInv
  <1>4. SessionInv /\ SocketClosed
    BY <1>1 DEF SessionInv, SocketClosed
  <1>5. FileInv
    BY <1>1 DEF FileInv
  <1>6. ReturnInv
    BY <1>1 DEF ReturnInv
  <1>7. QED
    BY <1>2, <1>3, <1>4, <1>5, <1>6 DEF IInv

\* Every return from the body or the statuses.
LEMMA Returned ==
  ASSUME IInv, pc \in {"dispatch", "eof", "length", "chunk"},
         NEW r \in {-4, -2} \cup Nat, Return(r),
         UNCHANGED <<request, reply, file, fetches>>,
         r = -4 => file.of # fetches,
         r > 0 => file.of = fetches /\ r = file.bytes /\ ~ file.junk /\ r >= head.len
  PROVE  IInv'
  <1> USE DEF IInv, Return, request, reply
  <1>1. TypeOK'
    <2>1. ret' \in Int /\ left' \in Int /\ line' \in 0 .. PageSize /\ wire' \in Seq(Token)
      BY Resets
    <2>2. socket' \in BOOLEAN /\ pc' = "idle"
      OBVIOUS
    <2>3. /\ url' = url /\ uri' = uri /\ status' = status /\ last' = last /\ cnt' = cnt
          /\ sessions' = sessions /\ head' = head /\ file' = file /\ fetches' = fetches
      OBVIOUS
    <2>4. QED
      BY <2>1, <2>2, <2>3 DEF TypeOK
  <1>2. WireInv'
    BY DEF WireInv
  <1>3. SessionInv'
    BY DEF SessionInv, TypeOK
  <1>4. FileInv' /\ SocketClosed'
    BY DEF FileInv, SocketClosed
  <1>5. ReturnInv'
    BY DEF ReturnInv
  <1>6. QED
    BY <1>1, <1>2, <1>3, <1>4, <1>5

\* A read that goes on with the body.
LEMMA ReadOn ==
  ASSUME IInv, pc \in {"eof", "length", "chunk"}, NEW n \in Received, More(n),
         left' = IF pc = "eof" THEN left ELSE left - n,
         UNCHANGED <<pc, request, reply, line, result, fetches>>
  PROVE  IInv'
  <1> USE Constants DEF IInv, request, reply, result
  <1>1. /\ n \in Nat \ {0}
        /\ Taken(n) \in Seq(Token) /\ Len(Taken(n)) = n
        /\ Rest(n) \in Seq(Token)
        /\ (\A i \in DOMAIN wire : wire[i] = Data) =>
             /\ \A i \in DOMAIN Taken(n) : Taken(n)[i] = Data
             /\ \A i \in DOMAIN Rest(n) : Rest(n)[i] = Data
    BY TakenType DEF TypeOK
  <1>2. Store(Taken(n)) /\ wire' = Rest(n)
    BY DEF More
  <1>3. /\ file' \in [of : 0 .. MaxFetches, bytes : Nat, junk : BOOLEAN]
        /\ file'.of = file.of
        /\ (\A i \in DOMAIN Taken(n) : Taken(n)[i] = Data) =>
             file'.bytes = file.bytes + n /\ file'.junk = file.junk
    BY <1>1, <1>2, StoreType DEF TypeOK
  <1>4. TypeOK'
    BY <1>1, <1>2, <1>3 DEF TypeOK
  <1>5. WireInv'
    BY <1>1, <1>2 DEF WireInv
  <1>6. SessionInv' /\ SocketClosed' /\ ReturnInv'
    BY DEF SessionInv, SocketClosed, ReturnInv
  <1>7. FileInv'
    <2>1. CASE pc = "chunk"
      BY <1>3, <2>1 DEF FileInv
    <2>2. CASE pc \in {"eof", "length"}
      <3>1. head.te = "none" /\ ~ file.junk
        BY <2>2 DEF FileInv
      <3>2. file'.bytes = file.bytes + n /\ file'.junk = file.junk
        BY <1>1, <1>3, <3>1 DEF WireInv
      <3>3. left' + file'.bytes = left + file.bytes \/ pc = "eof"
        BY <1>1, <3>2 DEF TypeOK
      <3>4. QED
        BY <1>3, <2>2, <3>1, <3>2, <3>3 DEF FileInv
    <2>3. QED
      BY <2>1, <2>2
  <1>8. QED
    BY <1>4, <1>5, <1>6, <1>7

\* An answer is read: its head and body, over an open connection.
LEMMA AnswerRead ==
  ASSUME Answered
  PROVE  /\ head' \in [te : {"none", "chunked", "other"}, len : -1 .. PageSize,
                       page : 0 .. PageSize]
         /\ wire' \in Seq(Token)
         /\ WireInv'
         /\ socket' = TRUE
         /\ UNCHANGED <<left, line, ret>>
  BY AnswerType DEF Answered, WireInv

-----------------------------------------------------------------------------
\* A fetch starts with no file and no session counted.
LEMMA FetchInv ==
  ASSUME IInv, NEW u \in Url, Fetch(u)
  PROVE  IInv'
  <1>1. /\ pc = "idle" /\ pc' = "session" /\ url' \in Url
        /\ fetches < MaxFetches /\ fetches' = fetches + 1
        /\ cnt' = 0 /\ sessions' = 0
        /\ UNCHANGED <<uri, status, last, head, wire, left, line, socket, ret, file>>
    BY DEF Fetch, reply, transfer, result
  <1>2. /\ TypeOK /\ fetches \in 0 .. MaxFetches /\ file.of \in 0 .. MaxFetches
        /\ file.of <= fetches
    BY DEF IInv, TypeOK, FileInv
  <1>3. fetches' \in 0 .. MaxFetches /\ file.of <= fetches' /\ file.of # fetches'
    BY <1>1, <1>2, Constants
  <1>4. TypeOK'
    BY <1>1, <1>2, <1>3, Resets DEF TypeOK
  <1>5. WireInv' /\ SessionInv' /\ SocketClosed' /\ ReturnInv'
    BY <1>1 DEF IInv, WireInv, SessionInv, SocketClosed, ReturnInv
  <1>6. FileInv'
    BY <1>1, <1>3 DEF FileInv
  <1>7. QED
    BY <1>4, <1>5, <1>6 DEF IInv

\* The first session is counted.
LEMMA FirstSessionInv ==
  ASSUME IInv, FirstSession
  PROVE  IInv'
  <1> USE Constants DEF IInv, Session
  <1>1. PICK st \in Status :
          /\ Session(url, st)
          /\ status' = st
          /\ IF st = "none"
             THEN Return(-2) /\ head' = NoHead
             ELSE Answered /\ pc' = IF st = "redirect" THEN "redirect" ELSE "dispatch"
    BY DEF FirstSession
  <1>2. pc = "session" /\ UNCHANGED <<cnt, file, fetches>>
    BY DEF FirstSession
  <1>3. uri' \in UriParts /\ url' \in Url
    BY <1>1, ReinitType DEF TypeOK
  <1>4. CASE st = "none"
    <2>1. TypeOK'
      <3>1. /\ pc' = "idle" /\ ret' \in Int /\ socket' \in BOOLEAN /\ left' \in Int
            /\ line' \in 0 .. PageSize /\ wire' \in Seq(Token)
        BY <1>1, <1>4, ReturnType
      <3>2. /\ status' \in Status /\ last' \in Status /\ sessions' \in Nat
            /\ head' \in [te : {"none", "chunked", "other"}, len : -1 .. PageSize,
                          page : 0 .. PageSize]
        BY <1>1, <1>4, Resets DEF TypeOK
      <3>3. QED
        BY <1>2, <1>3, <3>1, <3>2 DEF TypeOK
    <2>2. WireInv' /\ SessionInv' /\ SocketClosed' /\ FileInv' /\ ReturnInv'
      BY <1>1, <1>2, <1>4
      DEF WireInv, SessionInv, SocketClosed, FileInv, ReturnInv, Return
    <2>3. QED
      BY <2>1, <2>2
  <1>5. CASE st # "none"
    <2>1. Answered /\ pc' = IF st = "redirect" THEN "redirect" ELSE "dispatch"
      BY <1>1, <1>5
    <2>2. TypeOK'
      BY <1>1, <1>2, <1>3, <2>1, AnswerRead DEF TypeOK
    <2>3. WireInv' /\ SessionInv' /\ SocketClosed' /\ FileInv' /\ ReturnInv'
      BY <1>1, <1>2, <2>1, AnswerRead
      DEF SessionInv, SocketClosed, FileInv, ReturnInv
    <2>4. QED
      BY <2>2, <2>3
  <1>6. QED
    BY <1>4, <1>5

\* The connection of the page that redirects is closed.
LEMMA FollowInv ==
  ASSUME IInv, Follow
  PROVE  IInv'
  <1> USE DEF IInv, Follow, reply
  <1>1. TypeOK'
    BY Resets DEF TypeOK
  <1>2. WireInv'
    BY EmptySeq DEF WireInv
  <1>3. SessionInv' /\ SocketClosed' /\ FileInv' /\ ReturnInv'
    BY DEF SessionInv, SocketClosed, FileInv, ReturnInv
  <1>4. QED
    BY <1>1, <1>2, <1>3

\* A redirection is followed, and counted, or the fetch returns.
LEMMA RetryInv ==
  ASSUME IInv, Retry
  PROVE  IInv'
  <1> USE Constants DEF IInv, Session
  <1>1. PICK st \in Status :
          /\ Session(url, st)
          /\ IF st = "none"
             THEN Return(-2) /\ head' = NoHead /\ UNCHANGED cnt
             ELSE /\ Answered
                  /\ IF st = "redirect" /\ cnt < 5
                     THEN cnt' = cnt + 1 /\ pc' = "redirect"
                     ELSE pc' = "dispatch" /\ UNCHANGED cnt
    BY DEF Retry
  <1>2. pc = "retry" /\ UNCHANGED <<status, file, fetches>>
    BY DEF Retry
  <1>3. uri' \in UriParts /\ url' \in Url
    BY <1>1, ReinitType DEF TypeOK
  <1>4. cnt \in 0 .. 5 /\ sessions = cnt + 1 /\ sessions' = cnt + 2
    BY <1>1, <1>2 DEF TypeOK, SessionInv
  <1>5. CASE st = "none"
    <2>1. TypeOK'
      <3>1. /\ pc' = "idle" /\ ret' \in Int /\ socket' \in BOOLEAN /\ left' \in Int
            /\ line' \in 0 .. PageSize /\ wire' \in Seq(Token)
        BY <1>1, <1>5, ReturnType
      <3>2. /\ last' \in Status /\ sessions' \in Nat /\ cnt' = cnt
            /\ head' \in [te : {"none", "chunked", "other"}, len : -1 .. PageSize,
                          page : 0 .. PageSize]
        BY <1>1, <1>4, <1>5, Resets
      <3>3. QED
        BY <1>2, <1>3, <3>1, <3>2 DEF TypeOK
    <2>2. WireInv' /\ SessionInv' /\ SocketClosed' /\ FileInv' /\ ReturnInv'
      BY <1>1, <1>2, <1>4, <1>5
      DEF WireInv, SessionInv, SocketClosed, FileInv, ReturnInv, Return
    <2>3. QED
      BY <2>1, <2>2
  <1>6. CASE st # "none"
    <2>1. Answered
      BY <1>1, <1>6
    <2>2. \/ pc' = "redirect" /\ cnt < 5 /\ cnt' = cnt + 1
          \/ pc' = "dispatch" /\ cnt' = cnt
      BY <1>1, <1>2, <1>6
    <2>3. TypeOK'
      <3>1. cnt' \in 0 .. 5 /\ sessions' \in Nat
        BY <1>4, <2>2
      <3>2. last' \in Status
        BY <1>1
      <3>3. QED
        BY <1>2, <1>3, <2>1, <2>2, <3>1, <3>2, AnswerRead DEF TypeOK
    <2>4. WireInv' /\ SocketClosed' /\ FileInv' /\ ReturnInv'
      BY <1>2, <2>1, <2>2, AnswerRead DEF SocketClosed, FileInv, ReturnInv
    <2>5. SessionInv'
      BY <1>4, <2>2 DEF SessionInv
    <2>6. QED
      BY <2>3, <2>4, <2>5
  <1>7. QED
    BY <1>5, <1>6

\* The answer is looked at: an error, no file, a body that is skipped.
LEMMA DispatchInv ==
  ASSUME IInv, Refuse \/ OpenFails \/ SkipBody
  PROVE  IInv'
  <1>1. CASE Refuse
    BY <1>1, Returned DEF Refuse, IInv, FileInv
  <1>2. CASE OpenFails
    BY <1>2, Returned DEF OpenFails
  <1>3. CASE SkipBody
    BY <1>3, Returned DEF SkipBody
  <1>4. QED
    BY <1>1, <1>2, <1>3

\* A file that was opened is empty, and of this fetch.
LEMMA OpenedType ==
  ASSUME OpenFile, fetches \in 0 .. MaxFetches
  PROVE  /\ file' \in [of : 0 .. MaxFetches, bytes : Nat, junk : BOOLEAN]
         /\ file'.of = fetches /\ file'.bytes = 0 /\ ~ file'.junk
  BY DEF OpenFile

\* A plain body starts with all of its bytes expected.
LEMMA StartFileInv ==
  ASSUME IInv, StartFile
  PROVE  IInv'
  <1> USE Constants DEF IInv, StartFile, request, reply, result
  <1>1. /\ file' \in [of : 0 .. MaxFetches, bytes : Nat, junk : BOOLEAN]
        /\ file'.of = fetches /\ file'.bytes = 0 /\ ~ file'.junk
    BY OpenedType DEF TypeOK
  <1>2. head.len \in -1 .. PageSize
    BY DEF TypeOK
  <1>3. TypeOK'
    BY <1>1, <1>2 DEF TypeOK
  <1>4. WireInv' /\ SessionInv' /\ SocketClosed' /\ ReturnInv'
    BY DEF WireInv, SessionInv, SocketClosed, ReturnInv
  <1>5. FileInv'
    BY <1>1, <1>2 DEF FileInv
  <1>6. QED
    BY <1>3, <1>4, <1>5

\* A chunked body starts with no length to honour.
LEMMA StartChunksInv ==
  ASSUME IInv, StartChunks
  PROVE  IInv'
  <1> USE Constants DEF IInv, request, reply, result
  <1>1. PICK garbage \in 0 .. PageSize : \E l \in LineAfter(wire, garbage) :
          line' = l.line /\ left' = l.line /\ wire' = l.wire
    BY DEF StartChunks
  <1>2. line' \in 0 .. PageSize /\ left' = line' /\ wire' \in Seq(Token)
    BY <1>1, LineAfterType DEF TypeOK
  <1>3. /\ pc = "dispatch" /\ pc' = "chunk" /\ head.te = "chunked" /\ OpenFile
        /\ UNCHANGED <<request, reply, result, fetches>>
    BY DEF StartChunks
  <1>4. /\ file' \in [of : 0 .. MaxFetches, bytes : Nat, junk : BOOLEAN]
        /\ file'.of = fetches
    BY <1>3, OpenedType DEF TypeOK
  <1>5. TypeOK'
    BY <1>2, <1>3, <1>4 DEF TypeOK
  <1>6. WireInv' /\ SessionInv' /\ SocketClosed' /\ ReturnInv'
    BY <1>3 DEF WireInv, SessionInv, SocketClosed, ReturnInv
  <1>7. FileInv'
    BY <1>3, <1>4 DEF FileInv
  <1>8. QED
    BY <1>5, <1>6, <1>7

\* The bytes of a body without a length, with one, and of a chunk.
LEMMA RecvInv ==
  ASSUME IInv, RecvToEof \/ RecvLength \/ RecvChunk
  PROVE  IInv'
  <1> USE DEF IInv
  <1>1. file.bytes \in Nat /\ left \in Int
    BY DEF TypeOK
  <1>2. CASE RecvToEof
    <2>1. pc = "eof" /\ UNCHANGED <<request, reply, fetches>>
      BY <1>2 DEF RecvToEof
    <2>2. CASE (\E n \in Received : More(n)) /\ UNCHANGED <<pc, left, line, result>>
      BY <2>1, <2>2, ReadOn
    <2>3. CASE wire = <<>> /\ Return(file.bytes) /\ UNCHANGED file
      <3>1. file.of = fetches /\ ~ file.junk /\ head.len = -1
        BY <2>1 DEF FileInv
      <3>2. file.bytes >= head.len /\ file.bytes # -4
        BY <1>1, <3>1
      <3>3. QED
        BY <1>1, <2>1, <2>3, <3>1, <3>2, Returned
    <2>4. CASE Return(-2) /\ UNCHANGED file
      BY <2>1, <2>4, Returned
    <2>5. QED
      BY <1>2, <2>2, <2>3, <2>4 DEF RecvToEof
  <1>3. CASE RecvLength
    <2>1. pc = "length" /\ UNCHANGED <<request, reply, fetches>>
      BY <1>3 DEF RecvLength
    <2>2. CASE MoreOfLength
      BY <2>1, <2>2, ReadOn DEF MoreOfLength
    <2>3. CASE left <= 0 /\ Return(file.bytes) /\ UNCHANGED file
      <3>1. file.of = fetches /\ ~ file.junk /\ left + file.bytes = head.len
        BY <2>1 DEF FileInv
      <3>2. file.bytes >= head.len /\ file.bytes # -4
        BY <1>1, <2>3, <3>1
      <3>3. QED
        BY <1>1, <2>1, <2>3, <3>1, <3>2, Returned
    <2>4. CASE left > 0 /\ Return(-2) /\ UNCHANGED file
      BY <2>1, <2>4, Returned
    <2>5. QED
      BY <1>3, <2>2, <2>3, <2>4 DEF RecvLength
  <1>4. CASE RecvChunk
    BY <1>4, ReadOn DEF RecvChunk
  <1>5. QED
    BY <1>2, <1>3, <1>4

\* The next chunk, or the end.
LEMMA NextChunkInv ==
  ASSUME IInv, NextChunk
  PROVE  IInv'
  <1> USE DEF IInv
  <1>1. PICK a \in LineAfter(wire, line) : \E b \in LineAfter(a.wire, a.line) :
          IF b.line = 0
          THEN Return(0)
          ELSE line' = b.line /\ left' = b.line /\ wire' = b.wire /\ UNCHANGED <<pc, result>>
    BY DEF NextChunk
  <1>2. PICK b \in LineAfter(a.wire, a.line) :
          IF b.line = 0
          THEN Return(0)
          ELSE line' = b.line /\ left' = b.line /\ wire' = b.wire /\ UNCHANGED <<pc, result>>
    BY <1>1
  <1>3. a.line \in 0 .. PageSize /\ a.wire \in Seq(Token)
    BY LineAfterType DEF TypeOK
  <1>4. b.line \in 0 .. PageSize /\ b.wire \in Seq(Token)
    BY <1>3, LineAfterType
  <1>5. pc = "chunk" /\ UNCHANGED <<request, reply, file, fetches>>
    BY DEF NextChunk
  <1>6. CASE b.line = 0
    BY <1>2, <1>5, <1>6, Returned
  <1>7. CASE b.line # 0
    <2>1. line' = b.line /\ left' = b.line /\ wire' = b.wire /\ UNCHANGED <<pc, result>>
      BY <1>2, <1>7
    <2>2. TypeOK'
      BY <1>4, <1>5, <2>1, Constants DEF TypeOK, request, reply, result
    <2>3. WireInv'
      BY <1>5, <2>1 DEF WireInv, FileInv, reply
    <2>4. SessionInv' /\ SocketClosed' /\ ReturnInv' /\ FileInv'
      BY <1>5, <2>1 DEF SessionInv, SocketClosed, ReturnInv, FileInv, request, reply, result
    <2>5. QED
      BY <2>2, <2>3, <2>4
  <1>8. QED
    BY <1>6, <1>7

\* A step that changes nothing.
LEMMA Stutter ==
  ASSUME IInv, UNCHANGED vars
  PROVE  IInv'
  BY DEF IInv, TypeOK, WireInv, SessionInv, FileInv, ReturnInv, SocketClosed,
         vars, request, reply, transfer, result

\* The invariant of the client holds always.
THEOREM Invariance == Spec => []IInv
  <1>1. IInv /\ [Next]_vars => IInv'
    <2> SUFFICES ASSUME IInv, [Next]_vars PROVE IInv'
      OBVIOUS
    <2>1. CASE \E u \in Url : Fetch(u)
      BY <2>1, FetchInv
    <2>2. CASE Step
      BY <2>2, FirstSessionInv, FollowInv, RetryInv, DispatchInv, StartFileInv, StartChunksInv, RecvInv,
         NextChunkInv DEF Step
    <2>3. CASE Stays \/ UNCHANGED vars
      BY <2>3, Stutter DEF Stays
    <2>4. QED
      BY <2>1, <2>2, <2>3 DEF Next
  <1>2. QED
    BY InitInv, <1>1, PTL DEF Spec

-----------------------------------------------------------------------------
\* Type correctness of a fetch.
THEOREM TypeCorrect == Spec => []TypeOK
  <1>1. IInv => TypeOK
    BY DEF IInv
  <1>2. QED
    BY <1>1, Invariance, PTL

\* fetchHtmlPage closes the socket on every path, and before it follows a redirection,
\* whatever the server answers.
THEOREM SocketClosedHolds == Spec => []SocketClosed
  <1>1. IInv => SocketClosed
    BY DEF IInv
  <1>2. QED
    BY <1>1, Invariance, PTL

\* A fetch asks seven times at most, for servers that redirect without end.
THEOREM RedirectsEndHolds == Spec => []RedirectsEnd
  <1>1. IInv => RedirectsEnd
    BY DEF IInv, SessionInv, TypeOK, RedirectsEnd
  <1>2. QED
    BY <1>1, Invariance, PTL

\* A page shorter than its Content-Length is never returned as received.
THEOREM LengthHonouredHolds == Spec => []LengthHonoured
  <1>1. IInv => LengthHonoured
    BY DEF IInv, FileInv, ReturnInv, TypeOK, LengthHonoured
  <1>2. QED
    BY <1>1, Invariance, PTL

\* Every fetch ends in an outcome module Crawler counts with, so that what is
\* proved of the crawler holds with this client.
THEOREM OutcomeExpectedHolds == Spec => []OutcomeExpected
  <1>1. IInv => OutcomeExpected
    <2> SUFFICES ASSUME IInv, pc = "idle", fetches > 0
                 PROVE  Result \in Outcome
      BY DEF OutcomeExpected
    <2>1. ret \in {-4, -2} \cup Nat /\ (ret = -4 => BodyLeft = "none")
      BY DEF IInv, ReturnInv, BodyLeft
    <2>2. BodyLeft \in Body
      BY DEF BodyLeft, Body
    <2>3. QED
      BY <2>1, <2>2 DEF Result, Outcome
  <1>2. QED
    BY <1>1, Invariance, PTL

=============================================================================
