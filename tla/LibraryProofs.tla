---------------------------- MODULE LibraryProofs ----------------------------
(***************************************************************************)
(* Proofs about the saved table of URLs (UrlTable), the database object    *)
(* (MySQLDB), the socket object (Sockets), the headers of a session and    *)
(* its handshake with a proxy (HttpSession, SockProxy), the configuration  *)
(* file (IniFile) and the types of URLs (Uri), each for every value of its *)
(* constants; and that what is proved of these parts and in StructureProofs holds of  *)
(* Library as a whole.                                                     *)
(***************************************************************************)
EXTENDS Library, StructureProofs, SequenceTheorems, TLAPS

-----------------------------------------------------------------------------
(* The table of URLs *)

\* From the rename to the unlink the complete table a save began with is hashtable.old.
TableAside ==
  tablePc \in {"create", "write", "unlink"} /\ TableComplete(tableHad) => tableOld = tableHad

TableInv == TableTypeOK /\ TableAside /\ TableKept

\* The type of the table and its files is an invariant of UrlTable: what is written is a
\* part of the table, whatever write returns.
THEOREM TableTypeCorrect == TableSpec => []TableTypeOK
<1>1. TableInit => TableTypeOK
  <2> SUFFICES ASSUME TableInit PROVE TableTypeOK
    OBVIOUS
  <2>1. TableNoFile \in TableFile
    BY TableAssumption DEF TableFile, TableNoFile
  <2>2. 0 \in 0 .. TableSize
    BY TableAssumption
  <2> QED
    BY <2>1, <2>2 DEF TableInit, TableTypeOK
<1>2. TableTypeOK /\ [TableNext]_tableVars => TableTypeOK'
  <2> SUFFICES ASSUME TableTypeOK, [TableNext]_tableVars PROVE TableTypeOK'
    OBVIOUS
  <2> USE TableAssumption DEF TableTypeOK, tableFiles
  <2>0. TableNoFile \in TableFile
    BY DEF TableFile, TableNoFile
  <2>1. CASE TableCreate
    BY <2>1 DEF TableCreate
  <2>2. CASE TableLoad
    BY <2>2, \A f \in TableFile : f.bits \subseteq TableBits DEF TableLoad, TableFile
  <2>3. ASSUME NEW k \in TableKeys, TableAdd(k) PROVE TableTypeOK'
    <3>1. TableCode[k] \in TableBits
      OBVIOUS
    <3> QED
      BY <2>3, <3>1 DEF TableAdd
  <2>4. CASE SaveRename
    BY <2>4, <2>0 DEF SaveRename
  <2>5. CASE SaveCreate
    <3>1. [len |-> 0, bits |-> {}] \in TableFile /\ 0 \in 0 .. TableSize
      BY DEF TableFile
    <3>2. tableBak' \in TableFile /\ tablePos' \in 0 .. TableSize
      BY <2>5, <3>1 DEF SaveCreate
    <3> QED
      BY <2>5, <3>2 DEF SaveCreate
  <2>6. CASE SaveWrite
    <3>1. ASSUME NEW i \in 1 .. TableSize - tablePos
          PROVE  /\ tablePos + i \in 0 .. TableSize
                 /\ [len |-> tablePos + i, bits |-> tableSet \cap (0 .. tablePos + i - 1)] \in TableFile
      BY DEF TableFile
    <3> QED
      BY <2>6, <3>1 DEF SaveWrite
  <2>7. CASE SaveUnlink
    BY <2>7, <2>0 DEF SaveUnlink, TableComplete
  <2>8. CASE TableCrash
    BY <2>8 DEF TableCrash
  <2>9. CASE UNCHANGED tableVars
    BY <2>9 DEF tableVars
  <2> QED
    BY <2>1, <2>2, <2>3, <2>4, <2>5, <2>6, <2>7, <2>8, <2>9 DEF TableNext
<1> QED
  BY <1>1, <1>2, PTL DEF TableSpec

\* Wherever a crash cuts saveToFile off, the last complete table is still in one of its
\* two files, unless a save ran to its end without being able to write.
THEOREM TableIsKept == TableSpec => []TableKept
<1>1. TableInit => TableAside /\ TableKept
  BY TableAssumption DEF TableInit, TableAside, TableKept, TableComplete, TableNoFile
<1>2. TableAside /\ TableKept /\ [TableNext]_tableVars => (TableAside /\ TableKept)'
  <2> SUFFICES ASSUME TableAside, TableKept, [TableNext]_tableVars PROVE (TableAside /\ TableKept)'
    OBVIOUS
  <2> USE TableAssumption DEF TableAside, TableKept, tableFiles
  <2>1. CASE TableCreate \/ TableLoad \/ (\E k \in TableKeys : TableAdd(k)) \/ TableCrash
    BY <2>1 DEF TableCreate, TableLoad, TableAdd, TableCrash
  <2>2. CASE SaveRename
    <3>1. ~ TableComplete(TableNoFile)
      BY DEF TableComplete, TableNoFile
    <3> QED
      BY <2>2, <3>1 DEF SaveRename
  <2>3. CASE SaveCreate
    BY <2>3 DEF SaveCreate
  <2>4. CASE SaveWrite
    BY <2>4 DEF SaveWrite
  <2>5. CASE SaveUnlink
    BY <2>5 DEF SaveUnlink
  <2>6. CASE UNCHANGED tableVars
    BY <2>6 DEF tableVars
  <2> QED
    BY <2>1, <2>2, <2>3, <2>4, <2>5, <2>6 DEF TableNext
<1> QED
  BY <1>1, <1>2, PTL DEF TableSpec

-----------------------------------------------------------------------------
(* The database object *)

\* A connection is pinged only when there is a retry left.
DbRetryLeft == dbPc = "ping" => dbRetries < MAX_MYSQL_RETRIES

\* The part of DbTypeOK that counts, and the part that does not.
DbCounts ==
  /\ dbPc \in {"idle", "query", "ping", "undefined"}
  /\ dbOpen \in Nat /\ dbRetries \in 0 .. MAX_MYSQL_RETRIES /\ dbRuns \in Nat
DbFlags == dbConnected \in BOOLEAN /\ dbLive \in BOOLEAN /\ dbRet \in BOOLEAN

DbInv == DbCounts /\ DbRetryLeft /\ DbKept

\* closeMySQL leaves no session, whether there was one or not.
LEMMA DbClosedIsZero == DbCounts /\ DbSessions => DbClosed = 0
BY DEF DbCounts, DbSessions, DbClosed

\* However the server drops connections and answers, execQuery keeps DbInv.
LEMMA DbInvHolds == DbSpec => []DbInv
<1> USE DbAssumption
<1>1. DbInit => DbInv
  <2>1. DbInit => DbCounts /\ DbRetryLeft
    BY DEF DbInit, DbCounts, DbRetryLeft
  <2>2. DbInit => DbSessions
    BY DEF DbInit, DbSessions
  <2>3. DbInit => DbRunsBounded
    BY DEF DbInit, DbRunsBounded
  <2> QED
    BY <2>1, <2>2, <2>3 DEF DbInv, DbKept
<1>2. DbInv /\ [DbNext]_dbVars => DbInv'
  <2> SUFFICES ASSUME DbInv, [DbNext]_dbVars PROVE DbInv'
    OBVIOUS
  <2>0. DbCounts /\ DbRetryLeft /\ DbSessions /\ DbRunsBounded /\ DbClosed = 0
    BY DbClosedIsZero DEF DbInv, DbKept
  <2>1. CASE DbCall
    <3>1. DbCounts' /\ DbRetryLeft' /\ DbRunsBounded'
      BY <2>0, <2>1 DEF DbCall, DbConnect, DbCounts, DbRetryLeft, DbRunsBounded
    <3>2. DbSessions'
      BY <2>0, <2>1 DEF DbCall, DbConnect, DbCounts, DbSessions
    <3> QED
      BY <3>1, <3>2 DEF DbInv, DbKept
  <2>2. CASE DbQuery
    <3>1. DbCounts' /\ DbRetryLeft' /\ DbRunsBounded'
      BY <2>0, <2>2 DEF DbQuery, DbQueryFails, DbCounts, DbRetryLeft, DbRunsBounded
    <3>2. DbSessions'
      BY <2>0, <2>2 DEF DbQuery, DbSessions
    <3> QED
      BY <3>1, <3>2 DEF DbInv, DbKept
  <2>3. CASE DbPing
    <3>1. DbCounts' /\ DbRetryLeft' /\ DbRunsBounded'
      BY <2>0, <2>3 DEF DbPing, DbConnect, DbCounts, DbRetryLeft, DbRunsBounded
    <3>2. DbSessions'
      BY <2>0, <2>3 DEF DbPing, DbConnect, DbSessions
    <3> QED
      BY <3>1, <3>2 DEF DbInv, DbKept
  <2>4. CASE DbClose
    <3>1. DbCounts' /\ DbRetryLeft' /\ DbRunsBounded'
      BY <2>0, <2>4 DEF DbClose, DbCounts, DbRetryLeft, DbRunsBounded
    <3>2. DbSessions'
      BY <2>0, <2>4 DEF DbClose, DbSessions
    <3> QED
      BY <3>1, <3>2 DEF DbInv, DbKept
  <2>5. CASE DbDropped
    <3>1. DbCounts' /\ DbRetryLeft' /\ DbRunsBounded'
      BY <2>0, <2>5 DEF DbDropped, DbCounts, DbRetryLeft, DbRunsBounded
    <3>2. DbSessions'
      BY <2>0, <2>5 DEF DbDropped, DbSessions
    <3> QED
      BY <3>1, <3>2 DEF DbInv, DbKept
  <2>6. CASE UNCHANGED dbVars
    BY <2>6 DEF dbVars, DbInv, DbCounts, DbRetryLeft, DbKept, DbSessions, DbRunsBounded
  <2> QED
    BY <2>1, <2>2, <2>3, <2>4, <2>5, <2>6 DEF DbNext
<1> QED
  BY <1>1, <1>2, PTL DEF DbSpec

\* The object never has two sessions at the server and never forgets the one it has, and
\* a call of execQuery runs its statement at most once for each time it tries it.
THEOREM DbIsKept == DbSpec => []DbKept
<1>1. DbInv => DbKept
  BY DEF DbInv
<1> QED
  BY <1>1, DbInvHolds, PTL

\* The counters of execQuery stay in their ranges: retries never passes MAX_MYSQL_RETRIES.
THEOREM DbTypeCorrect == DbSpec => []DbTypeOK
<1>1. DbInit => DbFlags
  BY DEF DbInit, DbFlags
<1>2. DbFlags /\ [DbNext]_dbVars => DbFlags'
  BY DEF DbFlags, DbNext, DbCall, DbConnect, DbQuery, DbQueryFails, DbPing, DbClose, DbDropped, dbVars
<1>3. DbInv /\ DbFlags => DbTypeOK
  BY DEF DbInv, DbCounts, DbFlags, DbTypeOK
<1> QED
  BY <1>1, <1>2, <1>3, DbInvHolds, PTL DEF DbSpec

-----------------------------------------------------------------------------
(* The socket object *)

TcpDescriptors ==
  /\ tcpSock \in Nat /\ tcpOpened \in Nat
  /\ SocketKept

\* The socket object owns the one descriptor that is open, whatever connects and fails,
\* and has an SSL object only while useSSL tells its destructor to free it.
THEOREM SocketIsKept == TcpSpec => []SocketKept
<1>1. TcpInit => TcpDescriptors
  BY DEF TcpInit, TcpDescriptors, SocketKept
<1>2. TcpDescriptors /\ [TcpNext]_tcpVars => TcpDescriptors'
  <2> SUFFICES ASSUME TcpDescriptors, [TcpNext]_tcpVars PROVE TcpDescriptors'
    OBVIOUS
  <2> USE DEF TcpDescriptors, SocketKept
  <2>1. CASE TcpConnect
    BY <2>1 DEF TcpConnect
  <2>2. CASE TcpClose
    BY <2>2 DEF TcpClose
  <2>3. CASE TcpEnableSSL
    BY <2>3 DEF TcpEnableSSL
  <2>4. CASE TcpDisableSSL
    BY <2>4 DEF TcpDisableSSL
  <2>5. CASE TcpDestroy
    BY <2>5 DEF TcpDestroy
  <2>6. CASE TcpSetAsync
    BY <2>6 DEF TcpSetAsync
  <2>7. ASSUME UNCHANGED tcpLife PROVE TcpDescriptors'
    BY <2>7 DEF tcpLife
  <2>8. CASE \E kind \in TcpReads \cup TcpWrites, n \in TcpSizes : TcpBegin(kind, n)
    BY <2>7, <2>8 DEF TcpBegin
  <2>9. CASE TcpTake \/ TcpReadDone \/ TcpSignal \/ TcpNothing \/ TcpError \/ TcpPut
    BY <2>7, <2>9 DEF TcpTake, TcpReadDone, TcpSignal, TcpNothing, TcpError, TcpPut
  <2>10. CASE TcpArrive \/ TcpPeerCloses
    BY <2>7, <2>10 DEF TcpArrive, TcpPeerCloses
  <2>11. CASE UNCHANGED tcpVars
    BY <2>7, <2>11 DEF tcpVars
  <2> QED
    BY <2>1, <2>2, <2>3, <2>4, <2>5, <2>6, <2>8, <2>9, <2>10, <2>11 DEF TcpNext
<1> QED
  BY <1>1, <1>2, PTL DEF TcpSpec, TcpDescriptors

-----------------------------------------------------------------------------
(* The bytes of one call.  A loop has its buffer filled up to tcpPos, with the bytes of
   the peer that follow those it had taken before. *)

TcpCounts ==
  /\ tcpLen \in Nat /\ tcpPos \in 0 .. tcpLen /\ tcpLeft = tcpLen - tcpPos
  /\ tcpSize \in Nat /\ tcpStart \in Nat /\ tcpTaken \in Nat /\ tcpIn \in Nat /\ tcpRet \in Int
  /\ tcpPc \in {"idle"} \cup TcpReads \cup TcpWrites

TcpBuffer == DOMAIN tcpBuf = 1 .. tcpLen

TcpReading ==
  tcpPc \in TcpReads =>
    /\ tcpTaken = tcpStart + tcpSize + tcpPos
    /\ tcpPc # "discard" => tcpSize = 0
    /\ tcpPc = "recv" => tcpPos = 0
    /\ \A i \in 1 .. tcpPos : tcpBuf[i] = tcpStart + tcpSize + i

TcpWriting ==
  tcpPc \in TcpWrites =>
    /\ tcpTaken = tcpStart
    /\ \A i \in 1 .. tcpPos : tcpBuf[i] = i

TcpStreamInv == TcpCounts /\ TcpBuffer /\ TcpReading /\ TcpWriting /\ StreamInStep

\* What TcpFill leaves in the buffer: the bytes it had before pos, and k new ones.
LEMMA TcpFilled ==
  ASSUME NEW k \in Nat, NEW from \in Nat, TcpBuffer, TcpCounts, TcpFill(k, from)
  PROVE  /\ DOMAIN tcpBuf' = 1 .. tcpLen
         /\ \A i \in 1 .. tcpPos : i \in 1 .. tcpLen /\ tcpBuf'[i] = tcpBuf[i]
         /\ \A i \in tcpPos + 1 .. tcpPos + k : i \in 1 .. tcpLen => tcpBuf'[i] = from + i - tcpPos
BY DEF TcpFill, TcpBuffer, TcpCounts

\* A read that ends with what it has read so far leaves the bytes the caller is told of.
LEMMA TcpReadEndsInStep ==
  ASSUME TcpStreamInv, tcpPc # "idle", NEW got \in Int,
         got = -1 \/ (tcpPc \in TcpReads \ {"recv"} /\ got = tcpPos) \/ got = 0,
         TcpReadEnds(got), UNCHANGED <<tcpLen, tcpBuf, tcpStart, tcpPeer>>
  PROVE  TcpStreamInv'
<1> USE DEF TcpStreamInv, TcpCounts, TcpBuffer, TcpReading, TcpWriting, tcpPeer, TcpReads, TcpWrites
<1>1. CASE tcpPc # "discard"
  <2>1. tcpPc' = "idle" /\ tcpRet' = got /\ tcpSize' = tcpSize /\ tcpLeft' = tcpLeft /\ tcpPos' = tcpPos
    BY <1>1 DEF TcpReadEnds, TcpReturn
  <2>2. CASE got <= 0
    BY <2>1, <2>2 DEF StreamInStep
  <2>3. CASE got > 0 /\ got = tcpPos
    <3>1. StreamInStep'
      BY <1>1, <2>1, <2>3 DEF StreamInStep
    <3> QED
      BY <2>1, <3>1
  <2> QED
    BY <2>2, <2>3
<1>2. CASE tcpPc = "discard" /\ got <= 0
  <2>1. tcpPc' = "idle" /\ tcpRet' = tcpSize /\ tcpSize' = tcpSize /\ tcpLeft' = tcpLeft /\ tcpPos' = tcpPos
    BY <1>2 DEF TcpReadEnds
  <2>2. StreamInStep'
    BY <1>2, <2>1 DEF StreamInStep
  <2> QED
    BY <2>1, <2>2
<1>3. CASE tcpPc = "discard" /\ got > 0
  <2>1. tcpPc' = tcpPc /\ tcpRet' = tcpRet /\ tcpSize' = tcpSize + got /\ tcpLeft' = tcpLen /\ tcpPos' = 0
    BY <1>3 DEF TcpReadEnds
  <2>2. StreamInStep'
    BY <1>3, <2>1 DEF StreamInStep
  <2> QED
    BY <1>3, <2>1, <2>2
<1> QED
  BY <1>1, <1>2, <1>3

\* recv and SSL_read: the bytes that are taken follow those in the buffer.
LEMMA TcpTakeInStep == TcpStreamInv /\ TcpTake => TcpStreamInv'
<1> SUFFICES ASSUME TcpStreamInv, TcpTake PROVE TcpStreamInv'
  OBVIOUS
<1>1. PICK k \in 1 .. tcpIn :
        /\ k <= tcpLeft /\ TcpFill(k, tcpTaken)
        /\ tcpTaken' = tcpTaken + k /\ tcpIn' = tcpIn - k
        /\ IF tcpPc = "recv" THEN TcpReturn(k) /\ UNCHANGED <<tcpLeft, tcpPos>>
           ELSE TcpAdvance(k) /\ UNCHANGED <<tcpPc, tcpRet, tcpSize>>
  BY DEF TcpTake
<1>2. tcpPc \in TcpReads /\ tcpLeft > 0 /\ tcpLen' = tcpLen /\ tcpStart' = tcpStart
  BY DEF TcpTake
<1>3. TcpCounts /\ TcpBuffer /\ TcpReading /\ k \in Nat /\ k >= 1 /\ tcpTaken \in Nat
  BY <1>1 DEF TcpStreamInv, TcpCounts
<1>4. /\ DOMAIN tcpBuf' = 1 .. tcpLen
      /\ \A i \in 1 .. tcpPos : i \in 1 .. tcpLen /\ tcpBuf'[i] = tcpBuf[i]
      /\ \A i \in tcpPos + 1 .. tcpPos + k : i \in 1 .. tcpLen => tcpBuf'[i] = tcpTaken + i - tcpPos
  BY <1>1, <1>3, TcpFilled
<1>5. \A i \in 1 .. tcpPos + k : tcpBuf'[i] = tcpStart + tcpSize + i
  <2> SUFFICES ASSUME NEW i \in 1 .. tcpPos + k PROVE tcpBuf'[i] = tcpStart + tcpSize + i
    OBVIOUS
  <2>1. CASE i <= tcpPos
    BY <1>2, <1>3, <1>4, <2>1 DEF TcpReading, TcpCounts
  <2>2. CASE i > tcpPos
    <3>1. i \in tcpPos + 1 .. tcpPos + k /\ i \in 1 .. tcpLen
      BY <1>1, <1>3, <2>2 DEF TcpCounts
    <3> QED
      BY <1>2, <1>3, <1>4, <3>1 DEF TcpReading, TcpCounts
  <2> QED
    BY <1>3, <2>1, <2>2 DEF TcpCounts
<1>6. TcpCounts' /\ TcpBuffer'
  <2>1. TcpBuffer'
    BY <1>2, <1>4 DEF TcpBuffer
  <2>2. CASE tcpPc = "recv"
    BY <1>1, <1>2, <1>3, <2>1, <2>2 DEF TcpReturn, TcpCounts
  <2>3. CASE tcpPc # "recv"
    BY <1>1, <1>2, <1>3, <2>1, <2>3 DEF TcpAdvance, TcpCounts
  <2> QED
    BY <2>2, <2>3
<1>7. CASE tcpPc = "recv"
  <2>1. /\ tcpPc' = "idle" /\ tcpRet' = k /\ tcpSize' = 0 /\ tcpTaken' = tcpStart + k
        /\ tcpPos = 0 /\ tcpSize = 0
    BY <1>1, <1>2, <1>3, <1>7 DEF TcpReturn, TcpReading, TcpCounts
  <2>2. StreamInStep'
    BY <1>2, <1>3, <1>5, <2>1 DEF StreamInStep, TcpCounts, TcpReading
  <2>3. TcpReading' /\ TcpWriting'
    BY <2>1 DEF TcpReading, TcpWriting, TcpReads, TcpWrites
  <2> QED
    BY <1>6, <2>2, <2>3 DEF TcpStreamInv
<1>8. CASE tcpPc # "recv"
  <2>1. tcpPc' = tcpPc /\ tcpSize' = tcpSize /\ tcpPos' = tcpPos + k
    BY <1>1, <1>8 DEF TcpAdvance
  <2>2. TcpReading'
    BY <1>1, <1>2, <1>3, <1>5, <1>8, <2>1 DEF TcpReading, TcpCounts
  <2>3. StreamInStep' /\ TcpWriting'
    BY <1>2, <2>1 DEF StreamInStep, TcpWriting, TcpReads, TcpWrites
  <2> QED
    BY <1>6, <2>2, <2>3 DEF TcpStreamInv
<1> QED
  BY <1>7, <1>8

\* send and SSL_write: the bytes that go out follow those that went.
LEMMA TcpPutInStep == TcpStreamInv /\ TcpPut => TcpStreamInv'
<1> SUFFICES ASSUME TcpStreamInv, TcpPut PROVE TcpStreamInv'
  OBVIOUS
<1>1. PICK k \in 1 .. tcpLeft :
        /\ TcpFill(k, tcpPos) /\ TcpAdvance(k)
        /\ IF k < tcpLeft THEN UNCHANGED <<tcpPc, tcpRet, tcpSize>>
           ELSE TcpReturn(IF tcpPc = "send" THEN k ELSE tcpLen)
  BY DEF TcpPut
<1>2. tcpPc \in TcpWrites /\ tcpLen' = tcpLen /\ tcpStart' = tcpStart /\ tcpTaken' = tcpTaken /\ tcpIn' = tcpIn
  BY DEF TcpPut, tcpPeer
<1>3. TcpCounts /\ TcpBuffer /\ TcpWriting /\ k \in Nat /\ k >= 1 /\ tcpPos \in Nat /\ k <= tcpLeft
  BY <1>1 DEF TcpStreamInv, TcpCounts
<1>4. /\ DOMAIN tcpBuf' = 1 .. tcpLen
      /\ \A i \in 1 .. tcpPos : i \in 1 .. tcpLen /\ tcpBuf'[i] = tcpBuf[i]
      /\ \A i \in tcpPos + 1 .. tcpPos + k : i \in 1 .. tcpLen => tcpBuf'[i] = tcpPos + i - tcpPos
  BY <1>1, <1>3, TcpFilled
<1>5. \A i \in 1 .. tcpPos + k : tcpBuf'[i] = i
  <2> SUFFICES ASSUME NEW i \in 1 .. tcpPos + k PROVE tcpBuf'[i] = i
    OBVIOUS
  <2>1. CASE i <= tcpPos
    BY <1>2, <1>3, <1>4, <2>1 DEF TcpWriting
  <2>2. CASE i > tcpPos
    <3>1. i \in tcpPos + 1 .. tcpPos + k /\ i \in 1 .. tcpLen
      BY <1>3, <2>2 DEF TcpCounts
    <3> QED
      BY <1>3, <1>4, <3>1
  <2> QED
    BY <1>3, <2>1, <2>2
<1>6. tcpLeft' = tcpLeft - k /\ tcpPos' = tcpPos + k
  BY <1>1 DEF TcpAdvance
<1>7. CASE k < tcpLeft
  <2>1. tcpPc' = tcpPc /\ tcpRet' = tcpRet /\ tcpSize' = tcpSize
    BY <1>1, <1>7
  <2>2. TcpCounts' /\ TcpBuffer'
    BY <1>2, <1>3, <1>4, <1>6, <1>7, <2>1 DEF TcpCounts, TcpBuffer
  <2>3. TcpWriting' /\ TcpReading' /\ StreamInStep'
    BY <1>2, <1>3, <1>5, <1>6, <2>1 DEF TcpWriting, TcpReading, StreamInStep, TcpReads, TcpWrites
  <2> QED
    BY <2>2, <2>3 DEF TcpStreamInv
<1>8. CASE ~ k < tcpLeft
  <2>1. tcpPc' = "idle" /\ tcpRet' \in Int /\ tcpSize' = tcpSize /\ tcpPos + k = tcpLen
    BY <1>1, <1>3, <1>8 DEF TcpReturn, TcpCounts
  <2>2. TcpCounts' /\ TcpBuffer'
    BY <1>2, <1>3, <1>4, <1>6, <2>1 DEF TcpCounts, TcpBuffer
  <2>3. TcpWriting' /\ TcpReading'
    BY <2>1 DEF TcpWriting, TcpReading, TcpReads, TcpWrites
  <2>4. StreamInStep'
    BY <1>2, <1>3, <1>5, <2>1 DEF StreamInStep, TcpWriting
  <2> QED
    BY <2>2, <2>3, <2>4 DEF TcpStreamInv
<1> QED
  BY <1>7, <1>8 DEF TcpStreamInv, TcpCounts

\* The counts of the calls on a connection.
LEMMA TcpStreamInvHolds == TcpSpec => []TcpStreamInv
<1>1. TcpInit => TcpStreamInv
  BY DEF TcpInit, TcpStreamInv, TcpCounts, TcpBuffer, TcpReading, TcpWriting, StreamInStep,
         TcpReads, TcpWrites
<1>2. TcpStreamInv /\ [TcpNext]_tcpVars => TcpStreamInv'
  <2> SUFFICES ASSUME TcpStreamInv, [TcpNext]_tcpVars PROVE TcpStreamInv'
    OBVIOUS
  <2>1. ASSUME TcpFresh PROVE TcpStreamInv'
    BY <2>1 DEF TcpFresh, TcpStreamInv, TcpCounts, TcpBuffer, TcpReading, TcpWriting, StreamInStep,
                TcpReads, TcpWrites
  <2>2. ASSUME UNCHANGED <<tcpCall, tcpPeer>> PROVE TcpStreamInv'
    BY <2>2 DEF tcpCall, tcpPeer, TcpStreamInv, TcpCounts, TcpBuffer, TcpReading, TcpWriting, StreamInStep
  <2>3. CASE TcpConnect \/ TcpClose \/ TcpDestroy
    BY <2>1, <2>3 DEF TcpConnect, TcpClose, TcpDestroy
  <2>4. CASE TcpEnableSSL \/ TcpDisableSSL \/ TcpSetAsync \/ UNCHANGED tcpVars
    BY <2>2, <2>4 DEF TcpEnableSSL, TcpDisableSSL, TcpSetAsync, tcpVars
  <2>5. ASSUME NEW kind \in TcpReads \cup TcpWrites, NEW n \in TcpSizes, TcpBegin(kind, n)
        PROVE  TcpStreamInv'
    <3>1. n \in Nat
      BY TcpAssumption
    <3> QED
      BY <2>5, <3>1 DEF TcpBegin, TcpStreamInv, TcpCounts, TcpBuffer, TcpReading, TcpWriting,
                        StreamInStep, TcpReads, TcpWrites, tcpPeer
  <2>6. CASE TcpTake
    BY <2>6, TcpTakeInStep
  <2>7. CASE TcpReadDone
    <3>1. tcpPc \in TcpReads /\ tcpPc # "idle" /\ tcpLen - tcpLeft = tcpPos
      BY <2>7 DEF TcpReadDone, TcpReads, TcpStreamInv, TcpCounts
    <3>2. tcpPc = "recv" => tcpPos = 0
      BY <3>1 DEF TcpStreamInv, TcpReading
    <3>3. tcpPos \in Int /\ TcpReadEnds(tcpPos) /\ UNCHANGED <<tcpLen, tcpBuf, tcpStart, tcpPeer>>
      BY <2>7, <3>1 DEF TcpReadDone, TcpStreamInv, TcpCounts
    <3> QED
      BY <3>1, <3>2, <3>3, TcpReadEndsInStep
  <2>8. CASE TcpSignal
    <3>1. tcpLeft' = tcpLeft /\ tcpPos' = tcpPos
      BY <2>8 DEF TcpSignal, TcpAdvance, TcpStreamInv, TcpCounts
    <3> QED
      BY <2>2, <2>8, <3>1 DEF TcpSignal, tcpCall
  <2>9. CASE TcpNothing
    <3>1. tcpPc \in TcpReads /\ tcpPc # "idle" /\ tcpLen - tcpLeft = tcpPos
      BY <2>9 DEF TcpNothing, TcpReads, TcpStreamInv, TcpCounts
    <3>2. PICK got \in Int :
            /\ got = -1 \/ (tcpPc # "recv" /\ got = tcpPos)
            /\ TcpReadEnds(got) /\ UNCHANGED <<tcpLen, tcpBuf, tcpStart, tcpPeer>>
      BY <2>9, <3>1 DEF TcpNothing, TcpStreamInv, TcpCounts
    <3> QED
      BY <3>1, <3>2, TcpReadEndsInStep
  <2>10. CASE TcpError
    BY <2>10, TcpReadEndsInStep DEF TcpError
  <2>11. CASE TcpPut
    BY <2>11, TcpPutInStep
  <2>12. CASE TcpArrive \/ TcpPeerCloses
    <3>1. UNCHANGED tcpCall /\ tcpTaken' = tcpTaken /\ tcpIn' \in {tcpIn, tcpIn + 1}
      BY <2>12 DEF TcpArrive, TcpPeerCloses
    <3>2. TcpCounts' /\ TcpBuffer'
      BY <3>1 DEF tcpCall, TcpStreamInv, TcpCounts, TcpBuffer
    <3>3. TcpReading' /\ TcpWriting' /\ StreamInStep'
      BY <3>1 DEF tcpCall, TcpStreamInv, TcpReading, TcpWriting, StreamInStep
    <3> QED
      BY <3>2, <3>3 DEF TcpStreamInv
  <2> QED
    BY <2>3, <2>4, <2>5, <2>6, <2>7, <2>8, <2>9, <2>10, <2>11, <2>12 DEF TcpNext
<1> QED
  BY <1>1, <1>2, PTL DEF TcpSpec

\* However the bytes come and go in parts, with signals, timeouts, errors and the close of
\* the peer between them, a read that returns n has the next n bytes of the peer at the
\* front of its buffer, and a write that returns has put its whole buffer out in order.
THEOREM StreamIsInStep == TcpSpec => []StreamInStep
<1>1. TcpStreamInv => StreamInStep
  BY DEF TcpStreamInv
<1> QED
  BY <1>1, TcpStreamInvHolds, PTL

\* What the bounds of the run say of the descriptors and of one call.
TcpLifeOK ==
  /\ tcpSock \in 0 .. tcpOpened /\ tcpFds \subseteq 1 .. tcpOpened /\ tcpOpened \in 0 .. TcpSockets
  /\ tcpUse \in BOOLEAN /\ tcpSsl \in 0 .. tcpOpened /\ tcpAsync \in BOOLEAN

TcpCallOK ==
  /\ tcpLen \in TcpSizes \cup {0} /\ tcpEof \in BOOLEAN
  /\ tcpBuf \in Seq(0 .. TcpBytes + tcpLen) /\ Len(tcpBuf) = tcpLen
  /\ tcpSize <= TcpBytes /\ tcpRet \in -1 .. TcpBytes + tcpLen
  /\ tcpStart <= tcpTaken /\ tcpTaken + tcpIn <= TcpBytes

LEMMA TcpLifeKeeps == TcpLifeOK /\ [TcpNext]_tcpVars => TcpLifeOK'
<1> SUFFICES ASSUME TcpLifeOK, [TcpNext]_tcpVars PROVE TcpLifeOK'
  OBVIOUS
<1> USE TcpAssumption DEF TcpLifeOK
<1>0. tcpOpened \in Nat /\ TcpSockets \in Nat /\ tcpSock \in Nat /\ tcpSsl \in Nat
  OBVIOUS
<1>1. CASE TcpConnect
  <2>1. PICK s \in Nat :
        /\ s = (IF tcpSock = 0 THEN tcpOpened + 1 ELSE tcpSock)
        /\ s \in Nat /\ s <= TcpSockets /\ tcpOpened' = (IF tcpSock = 0 THEN s ELSE tcpOpened)
        /\ UNCHANGED <<tcpUse, tcpSsl, tcpAsync>>
        /\ (tcpSock' = s /\ tcpFds' = tcpFds \cup {s}) \/ (tcpSock' = 0 /\ tcpFds' = tcpFds \ {s})
    BY <1>0, <1>1 DEF TcpConnect
  <2>2. tcpOpened' \in Nat /\ tcpOpened <= tcpOpened' /\ s \in 1 .. tcpOpened' /\ tcpOpened' <= TcpSockets
    BY <1>0, <2>1
  <2>3. tcpFds' \subseteq tcpFds \cup {s} /\ tcpSock' \in {0, s}
    BY <2>1
  <2>4. \A x \in 1 .. tcpOpened : x \in 1 .. tcpOpened'
    BY <1>0, <2>2
  <2>5. tcpFds' \subseteq 1 .. tcpOpened' /\ tcpSock' \in 0 .. tcpOpened'
    BY <2>2, <2>3, <2>4
  <2> QED
    BY <1>0, <2>1, <2>2, <2>5
<1>2. CASE TcpClose \/ TcpDestroy
  <2>1. /\ tcpSock' = 0 /\ tcpFds' \subseteq tcpFds /\ UNCHANGED <<tcpOpened, tcpAsync>>
        /\ tcpUse' \in BOOLEAN /\ tcpSsl' \in {0, tcpSsl}
    BY <1>2 DEF TcpClose, TcpDestroy
  <2> QED
    BY <1>0, <2>1
<1>3. CASE TcpEnableSSL \/ TcpDisableSSL \/ TcpSetAsync
  <2>1. /\ UNCHANGED <<tcpSock, tcpFds, tcpOpened>> /\ tcpUse' \in BOOLEAN /\ tcpAsync' \in BOOLEAN
        /\ tcpSsl' \in {0, tcpSock, tcpSsl}
    BY <1>3 DEF TcpEnableSSL, TcpDisableSSL, TcpSetAsync
  <2> QED
    BY <1>0, <2>1
<1>4. ASSUME UNCHANGED tcpLife PROVE TcpLifeOK'
  BY <1>4 DEF tcpLife
<1>5. CASE \E kind \in TcpReads \cup TcpWrites, n \in TcpSizes : TcpBegin(kind, n)
  BY <1>4, <1>5 DEF TcpBegin
<1>6. CASE TcpTake \/ TcpReadDone \/ TcpSignal \/ TcpNothing \/ TcpError \/ TcpPut
  BY <1>4, <1>6 DEF TcpTake, TcpReadDone, TcpSignal, TcpNothing, TcpError, TcpPut
<1>7. CASE TcpArrive \/ TcpPeerCloses \/ UNCHANGED tcpVars
  BY <1>4, <1>7 DEF TcpArrive, TcpPeerCloses, tcpVars
<1> QED
  BY <1>1, <1>2, <1>3, <1>5, <1>6, <1>7 DEF TcpNext

\* A read that ends returns what was counted.
LEMMA TcpReadEndsCall ==
  ASSUME TcpStreamInv, TcpCallOK, tcpPc \in TcpReads \cup TcpWrites,
         NEW got \in -1 .. tcpLen, tcpPc = "discard" /\ got > 0 => got = tcpPos,
         TcpReadEnds(got), UNCHANGED <<tcpLen, tcpBuf, tcpStart, tcpPeer>>
  PROVE  TcpCallOK'
<1>1. /\ tcpLen \in Nat /\ tcpPos \in 0 .. tcpLen /\ tcpSize \in Nat /\ tcpTaken \in Nat /\ tcpIn \in Nat
      /\ tcpStart \in Nat /\ TcpBytes \in Nat
  BY TcpAssumption DEF TcpStreamInv, TcpCounts
<1>2. tcpPc = "discard" => tcpTaken = tcpStart + tcpSize + tcpPos
  BY DEF TcpStreamInv, TcpReading, TcpReads
<1>3. tcpRet' \in -1 .. TcpBytes + tcpLen /\ tcpSize' <= TcpBytes
  BY <1>1, <1>2 DEF TcpReadEnds, TcpReturn, TcpCallOK
<1> QED
  BY <1>3 DEF TcpCallOK, tcpPeer

\* The bytes that come or go are numbered up to TcpBytes or by the length.
LEMMA TcpFillOK ==
  ASSUME TcpStreamInv, TcpCallOK, NEW k \in Nat, k <= tcpLeft, NEW from \in Nat,
         from + k <= TcpBytes + tcpLen, TcpFill(k, from), UNCHANGED tcpLen
  PROVE  tcpBuf' \in Seq(0 .. TcpBytes + tcpLen) /\ Len(tcpBuf') = tcpLen
<1>1. tcpLen \in Nat /\ tcpPos \in 0 .. tcpLen /\ TcpBytes \in Nat
  BY TcpAssumption DEF TcpStreamInv, TcpCounts
<1>2. ASSUME NEW i \in tcpPos + 1 .. tcpPos + k PROVE from + i - tcpPos \in 0 .. TcpBytes + tcpLen
  BY <1>1
<1>3. DOMAIN tcpBuf = 1 .. tcpLen /\ \A i \in 1 .. tcpLen : tcpBuf[i] \in 0 .. TcpBytes + tcpLen
  BY <1>1 DEF TcpCallOK
<1>4. /\ tcpBuf' = [i \in 1 .. tcpLen |-> tcpBuf'[i]]
      /\ \A i \in 1 .. tcpLen : tcpBuf'[i] \in 0 .. TcpBytes + tcpLen
  BY <1>2, <1>3 DEF TcpFill
<1> QED
  BY <1>1, <1>4

LEMMA TcpNoBytes ==
  ASSUME NEW b, b = <<>>, NEW n, n = 0 PROVE b \in Seq(0 .. TcpBytes + n) /\ Len(b) = n
OBVIOUS

LEMMA TcpCallKeeps == TcpStreamInv /\ TcpCallOK /\ [TcpNext]_tcpVars => TcpCallOK'
<1> SUFFICES ASSUME TcpStreamInv, TcpCallOK, [TcpNext]_tcpVars PROVE TcpCallOK'
  OBVIOUS
<1>0. /\ tcpLen \in Nat /\ tcpPos \in 0 .. tcpLen /\ tcpLeft = tcpLen - tcpPos /\ TcpBytes \in Nat
      /\ tcpSize \in Nat /\ tcpTaken \in Nat /\ tcpIn \in Nat /\ tcpStart \in Nat
  BY TcpAssumption DEF TcpStreamInv, TcpCounts
<1>1. CASE TcpConnect \/ TcpClose \/ TcpDestroy
  <2>1. TcpFresh
    BY <1>1 DEF TcpConnect, TcpClose, TcpDestroy
  <2>2. tcpBuf' \in Seq(0 .. TcpBytes + tcpLen') /\ Len(tcpBuf') = tcpLen'
    BY <2>1, TcpNoBytes DEF TcpFresh
  <2>3. tcpLen' = 0 /\ tcpEof' = FALSE /\ tcpSize' = 0 /\ tcpRet' = 0 /\ tcpStart' = 0 /\ tcpTaken' = 0 /\ tcpIn' = 0
    BY <2>1 DEF TcpFresh
  <2>4. tcpEof' \in BOOLEAN
    BY <2>3, Zenon
  <2>5. /\ tcpLen' \in TcpSizes \cup {0}
        /\ tcpSize' <= TcpBytes /\ tcpRet' \in -1 .. TcpBytes + tcpLen'
        /\ tcpStart' <= tcpTaken' /\ tcpTaken' + tcpIn' <= TcpBytes
    BY <1>0, <2>3, SMT
  <2> QED
    BY <2>2, <2>4, <2>5, Zenon DEF TcpCallOK
<1>2. CASE TcpEnableSSL \/ TcpDisableSSL \/ TcpSetAsync \/ UNCHANGED tcpVars
  BY <1>2 DEF TcpEnableSSL, TcpDisableSSL, TcpSetAsync, tcpVars, tcpCall, tcpPeer, TcpCallOK
<1>3. ASSUME NEW kind \in TcpReads \cup TcpWrites, NEW n \in TcpSizes, TcpBegin(kind, n)
      PROVE  TcpCallOK'
  <2>1. n \in Nat
    BY TcpAssumption
  <2> QED
    BY <1>0, <1>3, <2>1 DEF TcpBegin, TcpCallOK, tcpPeer
<1>4. CASE TcpTake
  <2>1. PICK k \in 1 .. tcpIn :
          /\ k <= tcpLeft /\ TcpFill(k, tcpTaken)
          /\ tcpTaken' = tcpTaken + k /\ tcpIn' = tcpIn - k
          /\ IF tcpPc = "recv" THEN TcpReturn(k) /\ UNCHANGED <<tcpLeft, tcpPos>>
             ELSE TcpAdvance(k) /\ UNCHANGED <<tcpPc, tcpRet, tcpSize>>
    BY <1>4 DEF TcpTake
  <2>2. k \in Nat /\ tcpTaken + k <= TcpBytes /\ k <= tcpLen /\ UNCHANGED <<tcpLen, tcpStart, tcpEof>>
    BY <1>0, <1>4, <2>1 DEF TcpTake, TcpCallOK
  <2>3. tcpTaken + k <= TcpBytes + tcpLen
    BY <1>0, <2>2
  <2>4. tcpBuf' \in Seq(0 .. TcpBytes + tcpLen) /\ Len(tcpBuf') = tcpLen
    BY <1>0, <2>1, <2>2, <2>3, TcpFillOK
  <2>5. tcpSize' <= TcpBytes /\ tcpRet' \in -1 .. TcpBytes + tcpLen
    BY <1>0, <2>1, <2>2 DEF TcpReturn, TcpCallOK
  <2> QED
    BY <1>0, <2>1, <2>2, <2>4, <2>5 DEF TcpCallOK
<1>5. CASE TcpReadDone
  <2>1. tcpPc \in TcpReads /\ tcpLen - tcpLeft = tcpPos /\ tcpPos \in -1 .. tcpLen
    BY <1>0, <1>5 DEF TcpReadDone
  <2>2. TcpReadEnds(tcpPos) /\ UNCHANGED <<tcpLen, tcpBuf, tcpStart, tcpPeer>>
    BY <1>5, <2>1 DEF TcpReadDone
  <2> QED
    BY <2>1, <2>2, TcpReadEndsCall
<1>6. CASE TcpSignal
  BY <1>6 DEF TcpSignal, TcpCallOK, tcpPeer
<1>7. CASE TcpNothing
  <2>1. tcpPc \in TcpReads /\ tcpLen - tcpLeft = tcpPos /\ tcpPos \in -1 .. tcpLen /\ -1 \in -1 .. tcpLen
    BY <1>0, <1>7 DEF TcpNothing
  <2>2. PICK got \in -1 .. tcpLen :
          (got = -1 \/ got = tcpPos) /\ TcpReadEnds(got) /\ UNCHANGED <<tcpLen, tcpBuf, tcpStart, tcpPeer>>
    BY <1>7, <2>1 DEF TcpNothing
  <2>3. tcpPc = "discard" /\ got > 0 => got = tcpPos
    BY <2>2
  <2> QED
    BY <2>1, <2>2, <2>3, TcpReadEndsCall
<1>8. CASE TcpError
  <2>1. tcpPc \in TcpReads \cup TcpWrites /\ -1 \in -1 .. tcpLen /\ ~ (-1 > 0)
    BY <1>0, <1>8 DEF TcpError, TcpStreamInv, TcpCounts
  <2> QED
    BY <1>8, <2>1, TcpReadEndsCall DEF TcpError
<1>9. CASE TcpPut
  <2>1. PICK k \in 1 .. tcpLeft :
          /\ TcpFill(k, tcpPos) /\ TcpAdvance(k)
          /\ IF k < tcpLeft THEN UNCHANGED <<tcpPc, tcpRet, tcpSize>>
             ELSE TcpReturn(IF tcpPc = "send" THEN k ELSE tcpLen)
    BY <1>9 DEF TcpPut
  <2>2. /\ k \in Nat /\ k <= tcpLeft /\ tcpPos \in Nat /\ tcpPos + k <= TcpBytes + tcpLen /\ k <= tcpLen
        /\ UNCHANGED <<tcpLen, tcpStart, tcpPeer>>
    BY <1>0, <1>9, <2>1 DEF TcpPut
  <2>3. tcpBuf' \in Seq(0 .. TcpBytes + tcpLen) /\ Len(tcpBuf') = tcpLen
    BY <2>1, <2>2, TcpFillOK
  <2>4. tcpSize' <= TcpBytes /\ tcpRet' \in -1 .. TcpBytes + tcpLen
    BY <1>0, <2>1, <2>2 DEF TcpReturn, TcpCallOK
  <2> QED
    BY <2>2, <2>3, <2>4 DEF TcpCallOK, tcpPeer
<1>10. CASE TcpArrive \/ TcpPeerCloses
  <2>1. /\ UNCHANGED tcpCall /\ tcpTaken' = tcpTaken /\ tcpEof' \in BOOLEAN
        /\ tcpTaken' + tcpIn' <= TcpBytes
    <3>1. CASE TcpArrive
      BY <1>0, <3>1 DEF TcpArrive, TcpCallOK
    <3>2. CASE TcpPeerCloses
      BY <1>0, <3>2 DEF TcpPeerCloses, TcpCallOK
    <3> QED
      BY <1>10, <3>1, <3>2
  <2> QED
    BY <2>1 DEF tcpCall, TcpCallOK
<1> QED
  BY <1>1, <1>2, <1>3, <1>4, <1>5, <1>6, <1>7, <1>8, <1>9, <1>10 DEF TcpNext

\* Type correctness of the socket object, its buffer and the bytes of its peer, for buffers
\* of any size.
THEOREM TcpTypeCorrect == TcpSpec => []TcpTypeOK
<1>1. TcpInit => TcpLifeOK /\ TcpCallOK
  <2> SUFFICES ASSUME TcpInit PROVE TcpLifeOK /\ TcpCallOK
    OBVIOUS
  <2>1. tcpBuf \in Seq(0 .. TcpBytes + tcpLen) /\ Len(tcpBuf) = tcpLen
    BY TcpNoBytes DEF TcpInit
  <2>2. tcpEof \in BOOLEAN /\ tcpUse \in BOOLEAN /\ tcpAsync \in BOOLEAN
    BY Zenon DEF TcpInit
  <2>3. /\ tcpLen \in TcpSizes \cup {0}
        /\ tcpSize <= TcpBytes /\ tcpRet \in -1 .. TcpBytes + tcpLen
        /\ tcpStart <= tcpTaken /\ tcpTaken + tcpIn <= TcpBytes
    BY TcpAssumption DEF TcpInit
  <2>4. /\ tcpSock \in 0 .. tcpOpened /\ tcpFds \subseteq 1 .. tcpOpened
        /\ tcpOpened \in 0 .. TcpSockets /\ tcpSsl \in 0 .. tcpOpened
    BY TcpAssumption DEF TcpInit
  <2> QED
    BY <2>1, <2>2, <2>3, <2>4, Zenon DEF TcpLifeOK, TcpCallOK
<1>2. TcpStreamInv /\ TcpLifeOK /\ TcpCallOK /\ [TcpNext]_tcpVars => TcpLifeOK' /\ TcpCallOK'
  BY TcpLifeKeeps, TcpCallKeeps
<1>3. TcpStreamInv /\ TcpLifeOK /\ TcpCallOK => TcpTypeOK
  BY TcpAssumption DEF TcpStreamInv, TcpCounts, TcpLifeOK, TcpCallOK, TcpTypeOK
<1> QED
  BY <1>1, <1>2, <1>3, TcpStreamInvHolds, PTL DEF TcpSpec

-----------------------------------------------------------------------------
(* Base 64 *)

\* A string of bytes, and letters that are six bits each of it, whatever stands for the
\* padding.
B64Str(s) == Len(s) \in Nat /\ \A i \in 1 .. Len(s) : s[i] \in 0 .. 255
B64Six(e, s) ==
  Len(e) = B64Len(s) /\ \A i \in 1 .. B64Len(s) : e[i] % 64 = B64Shifted(s, i) % 64

\* The bytes of 24 bits.
B64High(q) == (q \div 65536) % 256
B64Middle(q) == (q \div 256) % 256
B64Low(q) == (q \div 1) % 256

\* A byte of a string, NULs after its end.
LEMMA B64Byte ==
  ASSUME NEW s, B64Str(s), NEW i \in Nat, i > 0
  PROVE  SockByte(s, i) \in 0 .. 255
BY DEF SockByte, B64Str

LEMMA B64QuadIs ==
  ASSUME NEW s, B64Str(s), NEW g \in Nat
  PROVE  B64Quad(s, g) \in Nat /\ B64Quad(s, g) < 16777216
<1>1. 3 * g + 1 \in Nat /\ 3 * g + 1 > 0 /\ 3 * g + 2 \in Nat /\ 3 * g + 2 > 0 /\ 3 * g + 3 \in Nat /\ 3 * g + 3 > 0
  BY SMT
<1> DEFINE a == SockByte(s, 3 * g + 1)
           b == SockByte(s, 3 * g + 2)
           c == SockByte(s, 3 * g + 3)
<1>2. a \in 0 .. 255
  BY <1>1, B64Byte
<1>3. b \in 0 .. 255
  BY <1>1, B64Byte
<1>4. c \in 0 .. 255
  BY <1>1, B64Byte
<1>5. B64Quad(s, g) = 65536 * a + 256 * b + c
  BY SMT DEF B64Quad
<1> HIDE DEF a, b, c
<1> QED
  BY <1>2, <1>3, <1>4, <1>5, SMT

\* The three bytes of a group are its digits.
LEMMA B64QuadBytes ==
  ASSUME NEW s, B64Str(s), NEW g \in Nat
  PROVE  /\ B64High(B64Quad(s, g)) = SockByte(s, 3 * g + 1)
         /\ B64Middle(B64Quad(s, g)) = SockByte(s, 3 * g + 2)
         /\ B64Low(B64Quad(s, g)) = SockByte(s, 3 * g + 3)
<1>1. 3 * g + 1 \in Nat /\ 3 * g + 1 > 0 /\ 3 * g + 2 \in Nat /\ 3 * g + 2 > 0 /\ 3 * g + 3 \in Nat /\ 3 * g + 3 > 0
  BY SMT
<1> DEFINE a == SockByte(s, 3 * g + 1)
           b == SockByte(s, 3 * g + 2)
           c == SockByte(s, 3 * g + 3)
           q == B64Quad(s, g)
<1>2. a \in 0 .. 255
  BY <1>1, B64Byte
<1>3. b \in 0 .. 255
  BY <1>1, B64Byte
<1>4. c \in 0 .. 255
  BY <1>1, B64Byte
<1>5. q = 65536 * a + 256 * b + c
  BY SMT DEF B64Quad
<1> HIDE DEF a, b, c, q
<1>6. q \div 65536 = a /\ q \div 256 = 256 * a + b /\ q \div 1 = 256 * (256 * a + b) + c
  BY <1>2, <1>3, <1>4, <1>5, SMT
<1>7. a % 256 = a /\ (256 * a + b) % 256 = b /\ (256 * (256 * a + b) + c) % 256 = c
  BY <1>2, <1>3, <1>4, SMT
<1>8. (q \div 65536) % 256 = a /\ (q \div 256) % 256 = b /\ (q \div 1) % 256 = c
  BY <1>6, <1>7, SMT
<1> QED
  BY <1>8, SMT DEF a, b, c, q, B64High, B64Middle, B64Low

\* Shifting by six bits four times gives the four letters of three bytes.
LEMMA B64Letters ==
  ASSUME NEW s, NEW g \in Nat
  PROVE  /\ B64Shifted(s, 4 * g + 1) = B64Quad(s, g) \div 262144
         /\ B64Shifted(s, 4 * g + 2) = B64Quad(s, g) \div 4096
         /\ B64Shifted(s, 4 * g + 3) = B64Quad(s, g) \div 64
         /\ B64Shifted(s, 4 * g + 4) = B64Quad(s, g) \div 1
<1> DEFINE w == <<262144, 4096, 64, 1>>
<1>1. w[1] = 262144 /\ w[2] = 4096 /\ w[3] = 64 /\ w[4] = 1
  BY SMT
<1>2. \A i : B64Shifted(s, i) = B64Quad(s, (i - 1) \div 4) \div w[1 + ((i - 1) % 4)]
  BY SMT DEF B64Shifted
<1>3. /\ (4 * g + 1 - 1) \div 4 = g /\ 1 + ((4 * g + 1 - 1) % 4) = 1
      /\ (4 * g + 2 - 1) \div 4 = g /\ 1 + ((4 * g + 2 - 1) % 4) = 2
      /\ (4 * g + 3 - 1) \div 4 = g /\ 1 + ((4 * g + 3 - 1) % 4) = 3
      /\ (4 * g + 4 - 1) \div 4 = g /\ 1 + ((4 * g + 4 - 1) % 4) = 4
  BY SMT
<1> HIDE DEF w
<1>4. B64Shifted(s, 4 * g + 1) = B64Quad(s, g) \div 262144
  <2>1. B64Shifted(s, 4 * g + 1)
          = B64Quad(s, (4 * g + 1 - 1) \div 4) \div w[1 + ((4 * g + 1 - 1) % 4)]
    BY <1>2, SMT
  <2> QED
    BY <1>1, <1>3, <2>1, SMT
<1>5. B64Shifted(s, 4 * g + 2) = B64Quad(s, g) \div 4096
  BY <1>1, <1>2, <1>3, SMT
<1>6. B64Shifted(s, 4 * g + 3) = B64Quad(s, g) \div 64
  BY <1>1, <1>2, <1>3, SMT
<1>7. B64Shifted(s, 4 * g + 4) = B64Quad(s, g) \div 1
  BY <1>1, <1>2, <1>3, SMT
<1> QED
  BY <1>4, <1>5, <1>6, <1>7, SMT

\* Four letters put together are the three bytes again.
LEMMA B64Joined ==
  ASSUME NEW q \in Nat, q < 16777216
  PROVE  262144 * ((q \div 262144) % 64) + 4096 * ((q \div 4096) % 64)
           + 64 * ((q \div 64) % 64) + ((q \div 1) % 64) = q
<1> DEFINE a == q \div 262144
           r == q % 262144
           b == r \div 4096
           t == r % 4096
           c == t \div 64
           d == t % 64
<1>1. a \in Nat /\ a < 64 /\ r \in Nat /\ r < 262144 /\ q = 262144 * a + r
  BY SMT
<1> HIDE DEF a, r
<1>2. b \in Nat /\ b < 64 /\ t \in Nat /\ t < 4096 /\ r = 4096 * b + t
  BY <1>1, SMT
<1> HIDE DEF b, t
<1>3. c \in Nat /\ c < 64 /\ d \in Nat /\ d < 64 /\ t = 64 * c + d
  BY <1>2, SMT
<1> HIDE DEF c, d
<1>4. q \div 262144 = a
  BY <1>1, SMT
<1>5. q \div 4096 = 64 * a + b
  BY <1>1, <1>2, SMT
<1>6. q \div 64 = 64 * (64 * a + b) + c
  BY <1>1, <1>2, <1>3, SMT
<1>7. q \div 1 = 64 * (64 * (64 * a + b) + c) + d
  BY <1>1, <1>2, <1>3, SMT
<1>8. a % 64 = a /\ (64 * a + b) % 64 = b /\ (64 * (64 * a + b) + c) % 64 = c
      /\ (64 * (64 * (64 * a + b) + c) + d) % 64 = d
  BY <1>1, <1>2, <1>3, SMT
<1> QED
  BY <1>1, <1>2, <1>3, <1>4, <1>5, <1>6, <1>7, <1>8, SMT

\* Such letters are read as the string.
LEMMA B64ReadBack ==
  ASSUME NEW s, B64Str(s),
         NEW e, B64Six(e, s)
  PROVE  B64ReadAs(e, s)
<1> DEFINE G == (Len(s) + 2) \div 3
           bytes == Base64Decode(e)
<1>1. G \in Nat /\ Len(s) <= 3 * G /\ Len(e) = 4 * G /\ B64Len(s) = 4 * G /\ Len(e) \div 4 = G
  BY SMT DEF B64Len, B64Str, B64Six
<1>2. ASSUME NEW g \in 0 .. G - 1 PROVE B64Trip(e, g) = B64Quad(s, g)
  <2>1. g \in Nat /\ 4 * g + 1 \in 1 .. B64Len(s) /\ 4 * g + 2 \in 1 .. B64Len(s)
        /\ 4 * g + 3 \in 1 .. B64Len(s) /\ 4 * g + 4 \in 1 .. B64Len(s)
    BY <1>1, SMT
  <2> DEFINE q == B64Quad(s, g)
  <2>2. e[4 * g + 1] % 64 = (q \div 262144) % 64
    BY <2>1, B64Letters, SMT DEF B64Six
  <2>3. e[4 * g + 2] % 64 = (q \div 4096) % 64
    BY <2>1, B64Letters, SMT DEF B64Six
  <2>4. e[4 * g + 3] % 64 = (q \div 64) % 64
    BY <2>1, B64Letters, SMT DEF B64Six
  <2>5. e[4 * g + 4] % 64 = (q \div 1) % 64
    BY <2>1, B64Letters, SMT DEF B64Six
  <2>6. q \in Nat /\ q < 16777216
    <3>1. g \in Nat
      BY <2>1, SMT
    <3> QED
      BY <3>1, B64QuadIs, SMT
  <2> HIDE DEF q
  <2>7. 262144 * ((q \div 262144) % 64) + 4096 * ((q \div 4096) % 64)
           + 64 * ((q \div 64) % 64) + ((q \div 1) % 64) = q
    BY <2>6, B64Joined, SMT
  <2>8. B64Trip(e, g) = 262144 * (e[4 * g + 1] % 64) + 4096 * (e[4 * g + 2] % 64)
                          + 64 * (e[4 * g + 3] % 64) + (e[4 * g + 4] % 64)
    BY SMT DEF B64Trip, B64Pad
  <2>9. B64Trip(e, g) = q
    BY <2>2, <2>3, <2>4, <2>5, <2>7, <2>8, SMT
  <2> QED
    BY <2>9, SMT DEF q
<1>3. ASSUME NEW k \in 1 .. 3 * G PROVE bytes[k] = SockByte(s, k)
  <2> DEFINE w == <<65536, 256, 1>>
             t(h) == (B64Trip(e, h) \div w[1 + ((k - 1) % 3)]) % 256
  <2>1. bytes[k] = t((k - 1) \div 3)
    BY <1>1, SMT DEF Base64Decode
  <2>2. w[1] = 65536 /\ w[2] = 256 /\ w[3] = 1
    BY SMT
  <2> HIDE DEF bytes, w
  <2>3. PICK g \in Nat : /\ g = (k - 1) \div 3 /\ g \in 0 .. G - 1
                         /\ k \in {3 * g + 1, 3 * g + 2, 3 * g + 3}
    BY <1>1, SMT
  <2>4. B64Quad(s, g) = B64Trip(e, g)
    BY <1>2, <2>3, SMT
  <2>5. bytes[k] = (B64Quad(s, g) \div w[1 + ((k - 1) % 3)]) % 256
    BY <2>1, <2>3, <2>4, SMT
  <2>6. CASE k = 3 * g + 1
    <3>1. 1 + ((k - 1) % 3) = 1
      BY <2>6, SMT
    <3>2. bytes[k] = B64High(B64Quad(s, g))
      BY <2>2, <2>5, <3>1, SMT DEF B64High
    <3>3. B64High(B64Quad(s, g)) = SockByte(s, 3 * g + 1)
      BY B64QuadBytes, SMT
    <3> QED
      BY <2>6, <3>2, <3>3, SMT
  <2>7. CASE k = 3 * g + 2
    <3>1. 1 + ((k - 1) % 3) = 2
      BY <2>7, SMT
    <3>2. bytes[k] = B64Middle(B64Quad(s, g))
      BY <2>2, <2>5, <3>1, SMT DEF B64Middle
    <3>3. B64Middle(B64Quad(s, g)) = SockByte(s, 3 * g + 2)
      BY B64QuadBytes, SMT
    <3> QED
      BY <2>7, <3>2, <3>3, SMT
  <2>8. CASE k = 3 * g + 3
    <3>1. 1 + ((k - 1) % 3) = 3
      BY <2>8, SMT
    <3>2. bytes[k] = B64Low(B64Quad(s, g))
      BY <2>2, <2>5, <3>1, SMT DEF B64Low
    <3>3. B64Low(B64Quad(s, g)) = SockByte(s, 3 * g + 3)
      BY B64QuadBytes, SMT
    <3> QED
      BY <2>8, <3>2, <3>3, SMT
  <2> QED
    BY <2>3, <2>6, <2>7, <2>8, SMT
<1>4. Len(bytes) = 3 * G
  BY <1>1, SMT DEF Base64Decode
<1>5. bytes = SockBytes(s, 3 * G)
  <2>1. bytes = [k \in 1 .. 3 * G |-> bytes[k]]
    BY <1>1, SMT DEF Base64Decode
  <2> HIDE DEF bytes
  <2> QED
    BY <1>3, <2>1, SMT DEF SockBytes
<1> HIDE DEF bytes
<1> QED
  BY <1>1, <1>4, <1>5, SMT DEF B64ReadAs, bytes

\* A letter before its low bits are cut off is a number.
LEMMA B64ShiftedIs ==
  ASSUME NEW s, B64Str(s), NEW i \in 1 .. B64Len(s)
  PROVE  B64Shifted(s, i) \in Nat
<1>1. PICK g \in Nat : i \in {4 * g + 1, 4 * g + 2, 4 * g + 3, 4 * g + 4}
  <2>1. B64Len(s) \in Nat
    BY SMT DEF B64Len, B64Str
  <2>2. (i - 1) \div 4 \in Nat
    BY <2>1, SMT
  <2>3. i \in {4 * ((i - 1) \div 4) + 1, 4 * ((i - 1) \div 4) + 2,
               4 * ((i - 1) \div 4) + 3, 4 * ((i - 1) \div 4) + 4}
    BY <2>1, SMT
  <2> QED
    BY <2>2, <2>3, SMT
<1>2. PICK q \in Nat : q = B64Quad(s, g)
  BY B64QuadIs, SMT
<1>3. /\ B64Shifted(s, 4 * g + 1) = q \div 262144 /\ B64Shifted(s, 4 * g + 2) = q \div 4096
      /\ B64Shifted(s, 4 * g + 3) = q \div 64 /\ B64Shifted(s, 4 * g + 4) = q \div 1
  BY <1>2, B64Letters, SMT
<1>4. q \div 262144 \in Nat /\ q \div 4096 \in Nat /\ q \div 64 \in Nat /\ q \div 1 \in Nat
  BY SMT
<1> QED
  BY <1>1, <1>3, <1>4, SMT

\* Padding stands for letters that are 0, and for the last two at most.
LEMMA B64PaddingIs ==
  ASSUME NEW s, B64Str(s), NEW i \in 1 .. B64Len(s), B64Padded(s, i)
  PROVE  /\ B64Shifted(s, i) % 64 = 0 /\ B64Shifted(s, i) % 256 = 0
         /\ i > B64Len(s) - 2 /\ B64Len(s) \in Nat /\ B64Padded(s, B64Len(s))
<1> DEFINE n == Len(s)
<1>1. n \in Nat
  BY DEF B64Str
<1>2. PICK G \in Nat : G = (n + 2) \div 3 /\ B64Len(s) = 4 * G /\ n <= 3 * G /\ 3 * G <= n + 2
  BY <1>1, SMT DEF B64Len
<1>3. \A x : B64Padded(s, x) <=> x > 4 * G - (3 * G - n)
  BY <1>2, SMT DEF B64Padded
<1> HIDE DEF n
<1>4. i > 4 * G - (3 * G - n) /\ i \in 1 .. 4 * G
  BY <1>2, <1>3, SMT
<1>5. G > 0 /\ i > 4 * G - 2 /\ 4 * G > 4 * G - (3 * G - n)
  BY <1>1, <1>2, <1>4, SMT
<1>6. PICK g \in Nat : G = g + 1
  <2>1. G - 1 \in Nat /\ G = (G - 1) + 1
    BY <1>5, SMT
  <2> QED
    BY <2>1, SMT
<1>7. CASE i = 4 * g + 4
  <2>1. 3 * g + 3 > n
    BY <1>1, <1>2, <1>4, <1>6, <1>7, SMT
  <2>2. SockByte(s, 3 * g + 3) = 0
    BY <1>1, <2>1, SMT DEF SockByte, n
  <2>3. 3 * g + 1 \in Nat /\ 3 * g + 1 > 0 /\ 3 * g + 2 \in Nat /\ 3 * g + 2 > 0
    BY SMT
  <2>4. PICK a \in Nat : SockByte(s, 3 * g + 1) = a
    <3>1. SockByte(s, 3 * g + 1) \in 0 .. 255
      BY <2>3, B64Byte
    <3> QED
      BY <3>1, SMT
  <2>5. PICK b \in Nat : SockByte(s, 3 * g + 2) = b
    <3>1. SockByte(s, 3 * g + 2) \in 0 .. 255
      BY <2>3, B64Byte
    <3> QED
      BY <3>1, SMT
  <2>6. B64Quad(s, g) = 65536 * a + 256 * b
    BY <2>2, <2>4, <2>5, SMT DEF B64Quad
  <2>7. B64Shifted(s, i) = (65536 * a + 256 * b) \div 1
    BY <1>7, <2>6, B64Letters, SMT
  <2>8. ((65536 * a + 256 * b) \div 1) % 64 = 0 /\ ((65536 * a + 256 * b) \div 1) % 256 = 0
    BY SMT
  <2> QED
    BY <1>2, <1>3, <1>5, <2>7, <2>8, SMT
<1>8. CASE i = 4 * g + 3
  <2>1. 3 * g + 3 > n /\ 3 * g + 2 > n
    BY <1>1, <1>2, <1>4, <1>6, <1>8, SMT
  <2>2. SockByte(s, 3 * g + 3) = 0 /\ SockByte(s, 3 * g + 2) = 0
    BY <1>1, <2>1, SMT DEF SockByte, n
  <2>3. PICK a \in Nat : SockByte(s, 3 * g + 1) = a
    <3>1. 3 * g + 1 \in Nat /\ 3 * g + 1 > 0
      BY SMT
    <3>2. SockByte(s, 3 * g + 1) \in 0 .. 255
      BY <3>1, B64Byte
    <3> QED
      BY <3>2, SMT
  <2>4. B64Quad(s, g) = 65536 * a
    BY <2>2, <2>3, SMT DEF B64Quad
  <2>5. B64Shifted(s, i) = (65536 * a) \div 64
    BY <1>8, <2>4, B64Letters, SMT
  <2>6. ((65536 * a) \div 64) % 64 = 0 /\ ((65536 * a) \div 64) % 256 = 0
    BY SMT
  <2> QED
    BY <1>2, <1>3, <1>5, <2>5, <2>6, SMT
<1>9. i = 4 * g + 4 \/ i = 4 * g + 3
  BY <1>4, <1>5, <1>6, SMT
<1> QED
  BY <1>7, <1>8, <1>9

\* What the proxy's user and password are encoded to is read back, and is padded at its end.
LEMMA ProxyLoginReadBack ==
  ASSUME NEW s, B64Str(s)
  PROVE  B64ReadAs(base64_encode(s), s) /\ B64Formed(base64_encode(s))
<1> DEFINE e == base64_encode(s)
           n == B64Len(s)
<1>1. n \in Nat
  BY SMT DEF B64Len, B64Str
<1>2. DOMAIN e = 1 .. n /\ Len(e) = n
  BY <1>1, SMT DEF base64_encode
<1>3. \A i \in 1 .. n : e[i] = IF B64Padded(s, i) THEN B64Pad ELSE B64Shifted(s, i) % 64
  BY SMT DEF base64_encode
<1> HIDE DEF e, n
<1>4. ASSUME NEW i \in 1 .. n PROVE e[i] % 64 = B64Shifted(s, i) % 64
  <2>1. B64Shifted(s, i) \in Nat
    BY B64ShiftedIs DEF n
  <2>2. CASE B64Padded(s, i)
    <3>1. B64Shifted(s, i) % 64 = 0
      BY <2>2, B64PaddingIs DEF n
    <3>2. e[i] = 64
      BY <1>3, <2>2, SMT DEF B64Pad
    <3> QED
      BY <3>1, <3>2, SMT
  <2>3. CASE ~ B64Padded(s, i)
    BY <1>3, <2>1, <2>3, SMT
  <2> QED
    BY <2>2, <2>3
<1>5. B64ReadAs(e, s)
  BY <1>2, <1>4, B64ReadBack DEF B64Six, n
<1>6. ASSUME NEW i \in 1 .. n, e[i] = B64Pad PROVE i > n - 2 /\ e[n] = B64Pad
  <2>1. B64Padded(s, i)
    <3>1. B64Shifted(s, i) \in Nat
      BY B64ShiftedIs DEF n
    <3> QED
      BY <1>3, <1>6, <3>1, SMT DEF B64Pad
  <2>2. i > n - 2 /\ B64Padded(s, n)
    BY <2>1, B64PaddingIs DEF n
  <2>3. n \in 1 .. n
    BY <1>1, SMT
  <2> QED
    BY <1>3, <2>2, <2>3
<1>7. B64Formed(e)
  BY <1>2, <1>6 DEF B64Formed
<1> QED
  BY <1>5, <1>7 DEF e

\* What the user and password of a URL are encoded to is read back, and is padded at its end
\* unless eight bits happen to be zero.
LEMMA UrlLoginReadBack ==
  ASSUME NEW s, B64Str(s)
  PROVE  B64ReadAs(Base64Encode(s), s) /\ (B64Clean(s) => B64Formed(Base64Encode(s)))
<1> DEFINE e == Base64Encode(s)
           n == B64Len(s)
<1>1. n \in Nat
  BY SMT DEF B64Len, B64Str
<1>2. DOMAIN e = 1 .. n /\ Len(e) = n
  BY <1>1, SMT DEF Base64Encode
<1>3. \A i \in 1 .. n : e[i] = IF B64Shifted(s, i) % 256 = 0 THEN B64Pad ELSE B64Shifted(s, i) % 64
  BY SMT DEF Base64Encode
<1> HIDE DEF e, n
<1>4. ASSUME NEW i \in 1 .. n PROVE e[i] % 64 = B64Shifted(s, i) % 64
  <2>1. PICK x \in Nat : x = B64Shifted(s, i)
    BY B64ShiftedIs DEF n
  <2>2. CASE x % 256 = 0
    <3>1. x % 64 = 0
      BY <2>2, SMT
    <3>2. e[i] = 64
      BY <1>3, <2>1, <2>2, SMT DEF B64Pad
    <3> QED
      BY <2>1, <3>1, <3>2, SMT
  <2>3. CASE x % 256 # 0
    BY <1>3, <2>1, <2>3, SMT
  <2> QED
    BY <2>2, <2>3
<1>5. B64ReadAs(e, s)
  BY <1>2, <1>4, B64ReadBack DEF B64Six, n
<1>6. ASSUME B64Clean(s), NEW i \in 1 .. n, e[i] = B64Pad PROVE i > n - 2 /\ e[n] = B64Pad
  <2>1. PICK x \in Nat : x = B64Shifted(s, i)
    BY B64ShiftedIs DEF n
  <2>2. B64Padded(s, i)
    BY <1>3, <1>6, <2>1, SMT DEF B64Pad, B64Clean, n
  <2>3. i > n - 2 /\ B64Padded(s, n)
    BY <2>2, B64PaddingIs DEF n
  <2>4. n \in 1 .. n
    BY <1>1, SMT
  <2>5. B64Shifted(s, n) % 256 = 0
    BY <2>3, <2>4, B64PaddingIs DEF n
  <2> QED
    BY <1>3, <2>3, <2>4, <2>5
<1>7. B64Clean(s) => B64Formed(e)
  BY <1>2, <1>6 DEF B64Formed
<1> QED
  BY <1>5, <1>7 DEF e

-----------------------------------------------------------------------------
(* The headers *)

SessVal ==
  {"url", "any", "CrowdSpider", "Close", "no-cache"} \cup [host : SessString, port : Nat] \cup Seq(Nat)
SessKeys ==
  {"Host", "Referer", "Accept", "User-Agent", "Connection", "Authorization",
   "Proxy-Authorization", "Pragma"}
SessHdrSet == [key : SessKeys, val : SessVal]

SessOnce(h) == \A i, j \in DOMAIN h : h[i].key = h[j].key => i = j
SessOf(h, key) == {h[i].val : i \in {i \in DOMAIN h : h[i].key = key}}

\* SetHdr leaves one header with the key it is given, and the others as they were.
LEMMA SetHdrIs ==
  ASSUME NEW h \in Seq(SessHdrSet), SessOnce(h), NEW x \in SessHdrSet
  PROVE  /\ SetHdr(h, x) \in Seq(SessHdrSet) /\ SessOnce(SetHdr(h, x))
         /\ SessOf(SetHdr(h, x), x.key) = {x.val}
         /\ \A c : c # x.key => SessOf(SetHdr(h, x), c) = SessOf(h, c)
<1> DEFINE g == SetHdr(h, x)
           n == Len(h)
<1>1. n \in Nat /\ DOMAIN h = 1 .. n /\ \A i \in 1 .. n : h[i] \in SessHdrSet
  BY LenProperties, ElementOfSeq
<1> HIDE DEF g
<1>3. CASE HasHdr(h, x.key)
  <2>1. g = [i \in 1 .. n |-> IF h[i].key = x.key THEN x ELSE h[i]]
    <3>1. g = SetHdrVal(h, x)
      BY <1>3 DEF g, SetHdr
    <3>2. \A i \in 1 .. n : FirstHdr(h, i, x.key) <=> h[i].key = x.key
      <4>1. ASSUME NEW i \in 1 .. n, NEW j \in 1 .. i - 1, h[i].key = x.key
            PROVE  h[j].key # x.key
        <5>1. j \in DOMAIN h /\ i \in DOMAIN h /\ j # i
          BY <1>1
        <5> QED
          BY <4>1, <5>1 DEF SessOnce
      <4> QED
        BY <4>1 DEF FirstHdr
    <3>3. g = [i \in 1 .. n |-> IF FirstHdr(h, i, x.key) THEN x ELSE h[i]]
      BY <1>1, <3>1 DEF SetHdrVal
    <3> QED
      BY <3>2, <3>3
  <2>2. g \in Seq(SessHdrSet) /\ DOMAIN g = 1 .. n
    BY <1>1, <2>1
  <2>3. \A i \in 1 .. n : g[i] = IF h[i].key = x.key THEN x ELSE h[i]
    BY <2>1
  <2> HIDE DEF n
  <2>4. \A i \in 1 .. n : g[i].key = h[i].key
    BY <2>3
  <2>5. SessOnce(g)
    BY <1>1, <2>2, <2>4 DEF SessOnce
  <2>6. SessOf(g, x.key) = {x.val}
    BY <1>1, <1>3, <2>2, <2>3, <2>4 DEF SessOf, HasHdr
  <2>7. ASSUME NEW c, c # x.key PROVE SessOf(g, c) = SessOf(h, c)
    BY <1>1, <2>2, <2>3, <2>4, <2>7 DEF SessOf
  <2> QED
    BY <2>2, <2>5, <2>6, <2>7 DEF g
<1>4. CASE ~ HasHdr(h, x.key)
  <2>1. g = Append(h, x)
    BY <1>4 DEF g, SetHdr
  <2>2. g \in Seq(SessHdrSet) /\ DOMAIN g = 1 .. n + 1
        /\ \A i \in 1 .. n + 1 : g[i] = IF i <= n THEN h[i] ELSE x
    BY <1>1, <2>1, LenProperties, AppendProperties
  <2> HIDE DEF n
  <2>3. \A i \in 1 .. n : g[i] = h[i] /\ g[i].key # x.key
    BY <1>1, <1>4, <2>2 DEF HasHdr
  <2>4. n + 1 \in 1 .. n + 1 /\ g[n + 1] = x /\ \A i \in 1 .. n + 1 : i \in 1 .. n \/ i = n + 1
    BY <1>1, <2>2
  <2>5. SessOnce(g)
    BY <1>1, <2>2, <2>3, <2>4 DEF SessOnce
  <2>6. SessOf(g, x.key) = {x.val}
    BY <2>2, <2>3, <2>4 DEF SessOf
  <2>7. ASSUME NEW c, c # x.key PROVE SessOf(g, c) = SessOf(h, c)
    BY <1>1, <2>2, <2>3, <2>4, <2>7 DEF SessOf
  <2> QED
    BY <2>2, <2>5, <2>6, <2>7 DEF g
<1> QED
  BY <1>3, <1>4

\* What is encoded is written as a sequence of numbers.
LEMMA SessLoginSet ==
  ASSUME NEW u \in SessString, NEW p \in SessString
  PROVE  /\ B64Str(SessLogin(u, p))
         /\ Base64Encode(SessLogin(u, p)) \in Seq(Nat) /\ base64_encode(SessLogin(u, p)) \in Seq(Nat)
<1> DEFINE s == SessLogin(u, p)
<1>1. s \in Seq(1 .. 127)
  BY ConcatProperties DEF SessLogin, SessString, SessColon
<1> HIDE DEF s
<1>2. B64Str(s)
  BY <1>1, LenProperties, ElementOfSeq DEF B64Str
<1>3. B64Len(s) \in Nat
  BY <1>2, SMT DEF B64Len, B64Str
<1>4. \A i \in 1 .. B64Len(s) : B64Shifted(s, i) \in Nat
  BY <1>2, B64ShiftedIs
<1> DEFINE a == Base64Encode(s)
           b == base64_encode(s)
<1>5. a = [i \in 1 .. B64Len(s) |-> IF B64Shifted(s, i) % 256 = 0 THEN B64Pad ELSE B64Shifted(s, i) % 64]
  BY DEF Base64Encode
<1>6. b = [i \in 1 .. B64Len(s) |-> IF B64Padded(s, i) THEN B64Pad ELSE B64Shifted(s, i) % 64]
  BY DEF base64_encode
<1> HIDE DEF a, b
<1>7. \A i \in 1 .. B64Len(s) : B64Shifted(s, i) % 64 \in Nat
  BY <1>4, SMT
<1>8. B64Pad \in Nat
  BY DEF B64Pad
<1> DEFINE n == B64Len(s)
<1>9. a \in [1 .. n -> Nat] /\ b \in [1 .. n -> Nat]
  BY <1>5, <1>6, <1>7, <1>8, SMT
<1> HIDE DEF n
<1>10. a \in Seq(Nat) /\ b \in Seq(Nat)
  BY <1>3, <1>9, SMT DEF n
<1> QED
  BY <1>2, <1>10 DEF a, b, s

\* A Uri, and the headers of the next request, from those of the last one.
SessUriSet ==
  [scheme : SessScheme, host : SessString, port : Nat, user : SessString, pass : SessString]

SessHdrsOK(h) ==
  /\ h \in Seq(SessHdrSet) /\ SessOnce(h)
  /\ SessOf(h, "Proxy-Authorization") \subseteq
       {base64_encode(SessLogin(sessProxy.user, sessProxy.pass))}

LEMMA SessHdrIn ==
  ASSUME NEW c \in SessKeys, NEW v \in SessVal
  PROVE  SessHdr(c, v) \in SessHdrSet
BY DEF SessHdr, SessHdrSet

LEMMA SessSetsIs ==
  ASSUME sessUri \in SessUriSet, sessProxy \in SessProxies, SessHdrsOK(sessHdrs)
  PROVE  /\ SessHdrsOK(SessSets)
         /\ SessOf(SessSets, "Host") = {[host |-> sessUri.host, port |-> sessUri.port]}
         /\ SessOf(SessSets, "Authorization") =
              IF sessUri.user = <<>> \/ sessUri.pass = <<>> THEN SessOf(sessHdrs, "Authorization")
              ELSE {Base64Encode(SessLogin(sessUri.user, sessUri.pass))}
<1> DEFINE xHost == SessHdr("Host", [host |-> sessUri.host, port |-> sessUri.port])
           xReferer == SessHdr("Referer", "url")
           xAccept == SessHdr("Accept", "any")
           xAgent == SessHdr("User-Agent", "CrowdSpider")
           xClose == SessHdr("Connection", "Close")
           xLogin == SessHdr("Authorization", Base64Encode(SessLogin(sessUri.user, sessUri.pass)))
           xProxy == SessHdr("Proxy-Authorization",
                             base64_encode(SessLogin(sessProxy.user, sessProxy.pass)))
           xPragma == SessHdr("Pragma", "no-cache")
<1>1. sessUri.host \in SessString /\ sessUri.port \in Nat /\ sessUri.user \in SessString
      /\ sessUri.pass \in SessString /\ sessProxy.user \in SessString /\ sessProxy.pass \in SessString
  BY SessAssumption DEF SessUriSet
<1>2. /\ xHost \in SessHdrSet /\ xReferer \in SessHdrSet /\ xAccept \in SessHdrSet
      /\ xAgent \in SessHdrSet /\ xClose \in SessHdrSet /\ xPragma \in SessHdrSet
  <2>1. "url" \in SessVal /\ "any" \in SessVal /\ "CrowdSpider" \in SessVal
        /\ "Close" \in SessVal /\ "no-cache" \in SessVal
    BY Zenon DEF SessVal
  <2>2. [host |-> sessUri.host, port |-> sessUri.port] \in SessVal
    BY <1>1 DEF SessVal
  <2> QED
    BY <2>1, <2>2, SessHdrIn DEF SessKeys
<1>3. xLogin \in SessHdrSet /\ xProxy \in SessHdrSet
  <2>1. \A v \in Seq(Nat) : v \in SessVal
    BY DEF SessVal
  <2> QED
    BY <1>1, <2>1, SessLoginSet, SessHdrIn DEF SessKeys
<1>4. /\ xHost.key = "Host" /\ xReferer.key = "Referer" /\ xAccept.key = "Accept"
      /\ xAgent.key = "User-Agent" /\ xClose.key = "Connection" /\ xLogin.key = "Authorization"
      /\ xProxy.key = "Proxy-Authorization" /\ xPragma.key = "Pragma"
      /\ xHost.val = [host |-> sessUri.host, port |-> sessUri.port]
      /\ xLogin.val = Base64Encode(SessLogin(sessUri.user, sessUri.pass))
      /\ xProxy.val = base64_encode(SessLogin(sessProxy.user, sessProxy.pass))
  BY DEF SessHdr
<1> DEFINE hHost == SetHdr(sessHdrs, xHost)
           hReferer == SetHdr(hHost, xReferer)
           hAccept == SetHdr(hReferer, xAccept)
           hAgent == SetHdr(hAccept, xAgent)
           always == SetHdr(hAgent, xClose)
           login == IF sessUri.user = <<>> \/ sessUri.pass = <<>> THEN always ELSE SetHdr(always, xLogin)
           proxied == IF sessProxy.user = <<>> THEN login ELSE SetHdr(login, xProxy)
           all == IF sessProxy.type = "none" THEN login ELSE SetHdr(proxied, xPragma)
<1>5. SessSets = all
  BY DEF SessSets
<1> HIDE DEF xHost, xReferer, xAccept, xAgent, xClose, xLogin, xProxy, xPragma
<1> DEFINE Same(g, h) == \A c \in {"Authorization", "Proxy-Authorization"} : SessOf(g, c) = SessOf(h, c)
           OK(h) == h \in Seq(SessHdrSet) /\ SessOnce(h)
<1>6. OK(hHost) /\ Same(hHost, sessHdrs) /\ SessOf(hHost, "Host") = {xHost.val}
  BY <1>2, <1>4, SetHdrIs DEF SessHdrsOK
<1> HIDE DEF hHost
<1>7. OK(hReferer) /\ Same(hReferer, hHost) /\ SessOf(hReferer, "Host") = SessOf(hHost, "Host")
  BY <1>2, <1>4, <1>6, SetHdrIs
<1> HIDE DEF hReferer
<1>8. OK(hAccept) /\ Same(hAccept, hReferer) /\ SessOf(hAccept, "Host") = SessOf(hReferer, "Host")
  BY <1>2, <1>4, <1>7, SetHdrIs
<1> HIDE DEF hAccept
<1>9. OK(hAgent) /\ Same(hAgent, hAccept) /\ SessOf(hAgent, "Host") = SessOf(hAccept, "Host")
  BY <1>2, <1>4, <1>8, SetHdrIs
<1> HIDE DEF hAgent
<1>10. OK(always) /\ Same(always, hAgent) /\ SessOf(always, "Host") = SessOf(hAgent, "Host")
  BY <1>2, <1>4, <1>9, SetHdrIs
<1>11. OK(always) /\ Same(always, sessHdrs) /\ SessOf(always, "Host") = {xHost.val}
  BY <1>6, <1>7, <1>8, <1>9, <1>10
<1> HIDE DEF always
<1>12. /\ OK(login) /\ SessOf(login, "Host") = {xHost.val}
       /\ SessOf(login, "Proxy-Authorization") = SessOf(sessHdrs, "Proxy-Authorization")
       /\ SessOf(login, "Authorization") =
            IF sessUri.user = <<>> \/ sessUri.pass = <<>> THEN SessOf(sessHdrs, "Authorization")
            ELSE {xLogin.val}
  <2>1. CASE sessUri.user = <<>> \/ sessUri.pass = <<>>
    <3>1. login = always
      BY <2>1
    <3> HIDE DEF login
    <3> QED
      BY <1>11, <2>1, <3>1
  <2>2. CASE ~ (sessUri.user = <<>> \/ sessUri.pass = <<>>)
    <3>1. login = SetHdr(always, xLogin)
      BY <2>2
    <3> HIDE DEF login
    <3> QED
      BY <1>3, <1>4, <1>11, <2>2, <3>1, SetHdrIs
  <2> QED
    BY <2>1, <2>2
<1> HIDE DEF login
<1>13. /\ OK(proxied) /\ SessOf(proxied, "Host") = {xHost.val}
       /\ SessOf(proxied, "Proxy-Authorization") \subseteq {xProxy.val}
       /\ SessOf(proxied, "Authorization") = SessOf(login, "Authorization")
  <2>1. CASE sessProxy.user = <<>>
    <3>1. proxied = login
      BY <2>1
    <3> HIDE DEF proxied
    <3> QED
      BY <1>4, <1>12, <3>1 DEF SessHdrsOK
  <2>2. CASE sessProxy.user # <<>>
    <3>1. proxied = SetHdr(login, xProxy)
      BY <2>2
    <3> HIDE DEF proxied
    <3> QED
      BY <1>3, <1>4, <1>12, <3>1, SetHdrIs
  <2> QED
    BY <2>1, <2>2
<1> HIDE DEF proxied
<1>14. /\ OK(all) /\ SessOf(all, "Host") = {xHost.val}
       /\ SessOf(all, "Proxy-Authorization") \subseteq {xProxy.val}
       /\ SessOf(all, "Authorization") = SessOf(login, "Authorization")
  <2>1. CASE sessProxy.type = "none"
    <3>1. all = login
      BY <2>1
    <3> HIDE DEF all
    <3> QED
      BY <1>4, <1>12, <3>1 DEF SessHdrsOK
  <2>2. CASE sessProxy.type # "none"
    <3>1. all = SetHdr(proxied, xPragma)
      BY <2>2
    <3> HIDE DEF all
    <3>2. OK(all) /\ \A c : c # "Pragma" => SessOf(all, c) = SessOf(proxied, c)
      BY <1>2, <1>4, <1>13, <3>1, SetHdrIs
    <3> QED
      BY <1>13, <3>2
  <2> QED
    BY <2>1, <2>2
<1> HIDE DEF all
<1> QED
  BY <1>4, <1>5, <1>12, <1>14 DEF SessHdrsOK

-----------------------------------------------------------------------------
(* The sessions *)

\* The latest URL of a sequence that is one of S, if any, and after one URL more.
SessLast(s, S) ==
  {s[i] : i \in {i \in DOMAIN s : s[i] \in S /\ \A j \in i + 1 .. Len(s) : s[j] \notin S}}

LEMMA SessLastIs ==
  ASSUME NEW s \in Seq(SessUrls), NEW x \in SessUrls, NEW S
  PROVE  /\ x \in S => SessLast(Append(s, x), S) = {x}
         /\ x \notin S => SessLast(Append(s, x), S) = SessLast(s, S)
<1> DEFINE n == Len(s)
           t == Append(s, x)
           Ends(q, m, i) == q[i] \in S /\ \A j \in i + 1 .. m : q[j] \notin S
<1>1. n \in Nat /\ DOMAIN s = 1 .. n /\ DOMAIN t = 1 .. n + 1 /\ Len(t) = n + 1
      /\ t[n + 1] = x /\ \A i \in 1 .. n : t[i] = s[i]
  BY AppendProperties, LenProperties
<1>2. /\ SessLast(s, S) = {s[i] : i \in {i \in 1 .. n : Ends(s, n, i)}}
      /\ SessLast(t, S) = {t[i] : i \in {i \in 1 .. n + 1 : Ends(t, n + 1, i)}}
  BY <1>1 DEF SessLast
<1> HIDE DEF n, t
<1>3. CASE x \in S
  <2>1. Ends(t, n + 1, n + 1)
    BY <1>1, <1>3
  <2>2. ASSUME NEW i \in 1 .. n PROVE ~Ends(t, n + 1, i)
    <3>1. n + 1 \in i + 1 .. n + 1
      BY <1>1
    <3> QED
      BY <1>1, <1>3, <3>1
  <2>3. \A i \in 1 .. n + 1 : Ends(t, n + 1, i) <=> i = n + 1
    <3>1. \A i \in 1 .. n + 1 : i = n + 1 \/ i \in 1 .. n
      BY <1>1
    <3> QED
      BY <2>1, <2>2, <3>1
  <2> HIDE DEF Ends
  <2>4. n + 1 \in 1 .. n + 1
    BY <1>1
  <2>5. {i \in 1 .. n + 1 : Ends(t, n + 1, i)} = {n + 1}
    BY <2>3, <2>4, Zenon
  <2> QED
    BY <1>1, <1>2, <1>3, <2>5 DEF t
<1>4. CASE x \notin S
  <2>1. ~Ends(t, n + 1, n + 1)
    BY <1>1, <1>4
  <2>2. ASSUME NEW i \in 1 .. n PROVE Ends(t, n + 1, i) <=> Ends(s, n, i)
    <3>1. t[i] = s[i]
      BY <1>1
    <3>2. \A j \in i + 1 .. n : t[j] = s[j]
      BY <1>1
    <3>3. \A j \in i + 1 .. n + 1 : j = n + 1 \/ j \in i + 1 .. n
      BY <1>1
    <3>4. \A j \in i + 1 .. n : j \in i + 1 .. n + 1
      BY <1>1
    <3> QED
      BY <1>1, <1>4, <3>1, <3>2, <3>3, <3>4
  <2>3. \A i : i \in 1 .. n + 1 <=> i = n + 1 \/ i \in 1 .. n
    BY <1>1
  <2> HIDE DEF Ends
  <2>4. {i \in 1 .. n + 1 : Ends(t, n + 1, i)} = {i \in 1 .. n : Ends(s, n, i)}
    BY <2>1, <2>2, <2>3, Zenon
  <2>5. SessLast(t, S) = {t[i] : i \in {i \in 1 .. n : Ends(s, n, i)}}
    BY <1>2, <2>4, Zenon
  <2>6. \A i \in {i \in 1 .. n : Ends(s, n, i)} : t[i] = s[i]
    BY <1>1, Zenon
  <2>7. SessLast(t, S) = SessLast(s, S)
    BY <1>2, <2>5, <2>6, Zenon
  <2> QED
    BY <1>4, <2>7 DEF t
<1> QED
  BY <1>3, <1>4

LEMMA SessLatestIs == \A S : SessLatest(S) = SessLast(sessSeen, S)
BY DEF SessLatest, SessLast

\* The Uri has each part of the latest URL that has one.
SessFrom ==
  /\ sessSeen \in Seq(SessUrls)
  /\ \A x \in SessLast(sessSeen, SessWithHost) : sessUri.scheme = x.scheme /\ sessUri.host = x.host
  /\ \A x \in SessLast(sessSeen, SessWithPort) : sessUri.port = x.port /\ x.port # 0
  /\ SessLast(sessSeen, SessWithPort) = {} => sessUri.port \in {0, 80}
  /\ \A x \in SessLast(sessSeen, SessWithUser) : sessUri.user = x.user
  /\ \A x \in SessLast(sessSeen, SessWithPass) : sessUri.pass = x.pass
  /\ SessLast(sessSeen, SessWithPass) = {}
       => sessUri.pass = <<>> /\ SessOf(sessHdrs, "Authorization") = {}

\* Where a session stands fits its proxy and its Uri, and a direct http connection is the Uri's.
SessPlace ==
  /\ sessPc \notin {"idle", "connect", "request", "reply", "undefined"} => sessProxy.type # "none"
  /\ sessPc # "idle" => sessUri.port # 0
  /\ sessPc \in {"request", "reply"} /\ sessProxy.type = "none" /\ sessUri.scheme = "http"
       => sessConn = [host |-> sessUri.host, port |-> sessUri.port % 65536]

\* The request made last has the headers of the session, or none when its line was too long.
SessAsked ==
  sessPc = "reply" =>
    \/ sessReq.hdrs = <<>>
    \/ /\ sessReq.hdrs = sessHdrs
       /\ SessOf(sessHdrs, "Host") = {[host |-> sessUri.host, port |-> sessUri.port]}
       /\ sessUri.user # <<>> /\ sessUri.pass # <<>>
            => SessOf(sessHdrs, "Authorization") =
                 {Base64Encode(SessLogin(sessUri.user, sessUri.pass))}

SessInv ==
  /\ sessUri \in SessUriSet /\ sessProxy \in SessProxies
  /\ SessHdrsOK(sessHdrs) /\ SessFrom /\ SessPlace /\ SessAsked

\* Uri::init keeps what the URL lacks.
LEMMA SessOpened ==
  ASSUME SessInv, NEW x \in SessUrls, SessOpen(x)
  PROVE  sessUri' \in SessUriSet /\ sessUri'.port # 0 /\ SessFrom'
<1> DEFINE u == sessUri
           v == SessUriInit(u, x)
<1>1. sessUri' = v /\ sessHdrs' = sessHdrs /\ sessSeen' = Append(sessSeen, x)
  BY DEF SessOpen
<1>2. u \in SessUriSet /\ x \in SessUrl /\ SessFrom /\ sessSeen \in Seq(SessUrls)
  BY SessAssumption DEF SessInv, SessFrom
<1>3. /\ x.scheme \in SessScheme /\ x.host \in SessString /\ x.port \in Nat
      /\ x.user \in SessString /\ x.pass \in SessString
      /\ u.scheme \in SessScheme /\ u.host \in SessString /\ u.port \in Nat
      /\ u.user \in SessString /\ u.pass \in SessString
  BY <1>2 DEF SessUrl, SessUriSet
<1>4. /\ v.scheme = IF x.scheme = "none" THEN u.scheme ELSE x.scheme
      /\ v.host = IF x.scheme = "none" THEN u.host ELSE x.host
      /\ v.port = IF x.port # 0 THEN x.port ELSE IF u.port # 0 THEN u.port ELSE 80
      /\ v.user = IF x.login = "none" THEN u.user ELSE x.user
      /\ v.pass = IF x.login = "both" THEN x.pass ELSE u.pass
  BY DEF SessUriInit
<1>5. v \in SessUriSet /\ v.port # 0
  BY <1>3 DEF SessUriInit, SessUriSet
<1> HIDE DEF v, u
<1>6. \A S : /\ x \in S => SessLast(sessSeen', S) = {x}
             /\ x \notin S => SessLast(sessSeen', S) = SessLast(sessSeen, S)
  BY <1>1, <1>2, SessLastIs
<1>7. /\ x \in SessWithHost <=> x.scheme # "none"
      /\ x \in SessWithPort <=> x.port # 0
      /\ x \in SessWithUser <=> x.login # "none"
      /\ x \in SessWithPass <=> x.login = "both"
  BY DEF SessWithHost, SessWithPort, SessWithUser, SessWithPass
<1> DEFINE Newest(S) == SessLast(sessSeen', S)
           Was(S) == SessLast(sessSeen, S)
<1>8. /\ \A y \in Was(SessWithHost) : u.scheme = y.scheme /\ u.host = y.host
      /\ \A y \in Was(SessWithPort) : u.port = y.port /\ y.port # 0
      /\ Was(SessWithPort) = {} => u.port \in {0, 80}
      /\ \A y \in Was(SessWithUser) : u.user = y.user
      /\ \A y \in Was(SessWithPass) : u.pass = y.pass
      /\ Was(SessWithPass) = {} => u.pass = <<>> /\ SessOf(sessHdrs, "Authorization") = {}
  BY <1>2 DEF SessFrom, u
<1> HIDE DEF Was
<1>9. \A y \in Newest(SessWithHost) : v.scheme = y.scheme /\ v.host = y.host
  BY <1>4, <1>6, <1>7, <1>8 DEF Was
<1>10. \A y \in Newest(SessWithPort) : v.port = y.port /\ y.port # 0
  BY <1>4, <1>6, <1>7, <1>8 DEF Was
<1>11. Newest(SessWithPort) = {} => v.port \in {0, 80}
  BY <1>4, <1>6, <1>7, <1>8 DEF Was
<1>12. \A y \in Newest(SessWithUser) : v.user = y.user
  BY <1>4, <1>6, <1>7, <1>8 DEF Was
<1>13. \A y \in Newest(SessWithPass) : v.pass = y.pass
  BY <1>4, <1>6, <1>7, <1>8 DEF Was
<1>14. Newest(SessWithPass) = {} => v.pass = <<>> /\ SessOf(sessHdrs', "Authorization") = {}
  BY <1>1, <1>4, <1>6, <1>7, <1>8 DEF Was
<1>15. sessSeen' \in Seq(SessUrls)
  BY <1>1, <1>2, AppendProperties
<1> QED
  BY <1>1, <1>5, <1>9, <1>10, <1>11, <1>12, <1>13, <1>14, <1>15 DEF SessFrom

LEMMA SessInvHolds == SessSpec => []SessInv
<1>1. SessInit => SessInv
  <2> SUFFICES ASSUME SessInit PROVE SessInv
    OBVIOUS
  <2>1. /\ sessHdrs = <<>> /\ sessUri = SessNoUri /\ sessPc = "idle" /\ sessProxy \in SessProxies
        /\ sessSeen = <<>>
    BY DEF SessInit
  <2>2. sessUri \in SessUriSet /\ sessUri.port = 0 /\ sessUri.pass = <<>>
    <3>1. <<>> \in SessString
      BY DEF SessString
    <3>2. SessNoUri \in SessUriSet /\ SessNoUri.port = 0 /\ SessNoUri.pass = <<>>
      BY <3>1 DEF SessNoUri, SessUriSet, SessScheme
    <3> QED
      BY <2>1, <3>2
  <2>3. sessHdrs \in Seq(SessHdrSet) /\ SessOnce(sessHdrs) /\ \A c : SessOf(sessHdrs, c) = {}
    BY <2>1 DEF SessOnce, SessOf
  <2>4. sessSeen \in Seq(SessUrls) /\ \A S : SessLast(sessSeen, S) = {}
    BY <2>1 DEF SessLast
  <2>5. SessFrom
    BY <2>2, <2>3, <2>4 DEF SessFrom
  <2> QED
    BY <2>1, <2>2, <2>3, <2>5 DEF SessInv, SessHdrsOK, SessPlace, SessAsked
<1>2. SessInv /\ [SessNext]_sessVars => SessInv'
  <2> SUFFICES ASSUME SessInv, [SessNext]_sessVars PROVE SessInv'
    OBVIOUS
  <2>1. ASSUME NEW x \in SessUrls, SessOpen(x) PROVE SessInv'
    <3>1. sessUri' \in SessUriSet /\ sessUri'.port # 0 /\ SessFrom'
      BY <2>1, SessOpened
    <3>2. sessPc' = "connect" /\ UNCHANGED <<sessProxy, sessHdrs>>
      BY <2>1 DEF SessOpen
    <3>3. SessHdrsOK(sessHdrs)'
      BY <3>2 DEF SessInv, SessHdrsOK
    <3>4. (SessPlace /\ SessAsked)'
      BY <3>1, <3>2 DEF SessPlace, SessAsked
    <3> QED
      BY <3>1, <3>2, <3>3, <3>4 DEF SessInv
  <2> DEFINE Elsewhere == SessInv /\ UNCHANGED sessKept /\ (SessPlace /\ SessAsked)' => SessInv'
  <2>2. Elsewhere
    BY DEF SessInv, SessHdrsOK, SessFrom, sessKept
  <2>3. CASE SessConnect
    <3>1. UNCHANGED sessKept /\ sessProxy.type = "none" /\ sessPc = "connect"
      BY <2>3 DEF SessConnect
    <3>2. CASE SessFails
      BY <2>2, <3>1, <3>2 DEF SessFails, SessPlace, SessAsked
    <3>3. ASSUME SessConnects(sessUri.host, IF sessUri.scheme = "https" THEN 443 ELSE sessUri.port,
                              "request")
          PROVE  SessInv'
      <4>1. /\ sessPc' = "request"
            /\ sessUri.scheme = "http"
                 => sessConn' = [host |-> sessUri.host, port |-> sessUri.port % 65536]
        BY <3>3 DEF SessConnects
      <4>2. (SessPlace /\ SessAsked)'
        BY <3>1, <4>1 DEF SessInv, SessPlace, SessAsked, sessKept
      <4> QED
        BY <2>2, <3>1, <4>2
    <3> QED
      BY <2>3, <3>2, <3>3 DEF SessConnect
  <2>4. CASE SessConnectProxy
    <3>1. UNCHANGED sessKept /\ sessProxy.type # "none" /\ sessPc' # "reply" /\ sessPc # "idle"
      BY <2>4 DEF SessConnectProxy, SessConnects, SessFails
    <3> QED
      BY <2>2, <3>1 DEF SessInv, SessPlace, SessAsked, sessKept
  <2>5. CASE SessNoProxyCase
    BY <2>2, <2>5 DEF SessNoProxyCase, SessInv, SessPlace, SessAsked, sessKept
  <2>6. CASE Send4Req \/ Recv4Rep \/ Send5AuthReq \/ Recv5AuthRep \/ Send5PassReq
             \/ Recv5PassRep \/ Send5Req \/ Recv5Rep
    <3>1. UNCHANGED sessKept /\ sessPc' # "reply" /\ sessProxy.type # "none" /\ sessPc # "idle"
      BY <2>6 DEF Send4Req, Recv4Rep, Send5AuthReq, Recv5AuthRep, Send5PassReq, Recv5PassRep,
                  Send5Req, Recv5Rep, SockSend, SockReceived, SessInv, SessPlace
    <3> QED
      BY <2>2, <3>1 DEF SessInv, SessPlace, SessAsked, sessKept
  <2>7. CASE SessRequest
    <3>1. /\ sessHdrs' = SessSets /\ sessPc = "request" /\ sessPc' = "reply"
          /\ UNCHANGED <<sessProxy, sessUri, sessSeen, sessConn>>
          /\ sessReq'.hdrs = <<>> \/ sessReq'.hdrs = sessHdrs'
      BY <2>7 DEF SessRequest
    <3>2. /\ SessHdrsOK(SessSets)
          /\ SessOf(SessSets, "Host") = {[host |-> sessUri.host, port |-> sessUri.port]}
          /\ SessOf(SessSets, "Authorization") =
               IF sessUri.user = <<>> \/ sessUri.pass = <<>> THEN SessOf(sessHdrs, "Authorization")
               ELSE {Base64Encode(SessLogin(sessUri.user, sessUri.pass))}
      BY SessSetsIs DEF SessInv
    <3>3. SessHdrsOK(sessHdrs)'
      BY <3>1, <3>2 DEF SessHdrsOK
    <3>4. SessPlace'
      BY <3>1 DEF SessInv, SessPlace
    <3>5. SessAsked'
      BY <3>1, <3>2 DEF SessAsked
    <3>6. SessFrom'
      BY <3>1, <3>2 DEF SessInv, SessFrom
    <3> QED
      BY <3>1, <3>3, <3>4, <3>5, <3>6 DEF SessInv
  <2>8. CASE SessEnds
    BY <2>2, <2>8 DEF SessEnds, SessPlace, SessAsked
  <2>9. CASE UNCHANGED sessVars
    BY <2>2, <2>9 DEF sessVars, sessKept, SessPlace, SessAsked, SessInv
  <2> QED
    BY <2>1, <2>3, <2>4, <2>5, <2>6, <2>7, <2>8, <2>9 DEF SessNext
<1> QED
  BY <1>1, <1>2, PTL DEF SessSpec

\* A request has each header once, a Host of the latest URLs that have a host and a port,
\* which is where a direct session is connected to, and credentials that are read back as
\* those of the latest URLs and of the configuration (setupHttpSession, Uri::init, SetHdr,
\* the two coders).
THEOREM SessHeadersHold == SessSpec => []SessHeaders
<1>1. SessInv => SessHeaders
  <2> SUFFICES ASSUME SessInv, sessPc = "reply", sessReq.hdrs # <<>> PROVE SessHeaders
    BY DEF SessHeaders
  <2> DEFINE host == [host |-> sessUri.host, port |-> sessUri.port]
             login == SessLogin(sessUri.user, sessUri.pass)
             Newest(S) == SessLast(sessSeen, S)
  <2>1. /\ SessHdrsOK(sessReq.hdrs) /\ SessPlace /\ SessFrom /\ sessReq.hdrs = sessHdrs
        /\ SessOf(sessReq.hdrs, "Host") = {host}
        /\ sessUri.user # <<>> /\ sessUri.pass # <<>>
             => SessOf(sessReq.hdrs, "Authorization") = {Base64Encode(login)}
    BY DEF SessInv, SessAsked
  <2>2. \A c : SessValue(c) = SessOf(sessReq.hdrs, c)
    BY DEF SessValue, SessOf
  <2>3. B64Str(login) /\ B64Str(SessLogin(sessProxy.user, sessProxy.pass))
    BY SessLoginSet, SessAssumption DEF SessInv, SessUriSet
  <2>4. \A S : SessLatest(S) = Newest(S)
    BY SessLatestIs
  <2> DEFINE Same == \A i, j \in DOMAIN sessReq.hdrs : sessReq.hdrs[i].key = sessReq.hdrs[j].key => i = j
             Target(v, x) ==
               /\ v.host = x.host
               /\ sessProxy.type = "none" /\ x.scheme = "http"
                    => sessConn = [host |-> v.host, port |-> v.port % 65536]
             Hosts(v) ==
               /\ \A x \in SessLatest(SessWithHost) : Target(v, x)
               /\ \A x \in SessLatest(SessWithPort) : v.port = x.port
               /\ SessLatest(SessWithPort) = {} => v.port = 80
             Read(s) ==
               /\ SessValue("Authorization") # {}
               /\ \A v \in SessValue("Authorization") : B64ReadAs(v, s) /\ (B64Clean(s) => B64Formed(v))
             Logins ==
               \A x \in SessLatest(SessWithUser), y \in SessLatest(SessWithPass) :
                 x.user # <<>> /\ y.pass # <<>> => Read(SessLogin(x.user, y.pass))
             Proxies ==
               \A v \in SessValue("Proxy-Authorization") :
                 B64ReadAs(v, SessLogin(sessProxy.user, sessProxy.pass)) /\ B64Formed(v)
  <2>5. Same
    BY <2>1 DEF SessHdrsOK, SessOnce
  <2>6. SessValue("Host") = {host}
    BY <2>1, <2>2
  <2>7. Hosts(host)
    <3>1. ASSUME NEW x \in SessLatest(SessWithHost) PROVE Target(host, x)
      <4>1. sessUri.scheme = x.scheme /\ sessUri.host = x.host
        BY <2>1, <2>4, <3>1 DEF SessFrom
      <4> QED
        BY <2>1, <4>1 DEF SessPlace
    <3>2. ASSUME NEW x \in SessLatest(SessWithPort) PROVE host.port = x.port
      BY <2>1, <2>4, <3>2 DEF SessFrom
    <3>3. SessLatest(SessWithPort) = {} => host.port = 80
      BY <2>1, <2>4 DEF SessFrom, SessPlace
    <3> QED
      BY <3>1, <3>2, <3>3
  <2>8. Logins
    <3> SUFFICES ASSUME NEW x \in SessLatest(SessWithUser), NEW y \in SessLatest(SessWithPass),
                        x.user # <<>>, y.pass # <<>>
                 PROVE  Read(SessLogin(x.user, y.pass))
      OBVIOUS
    <3>1. sessUri.user = x.user /\ sessUri.pass = y.pass
      BY <2>1, <2>4 DEF SessFrom
    <3>2. SessValue("Authorization") = {Base64Encode(login)}
      BY <2>1, <2>2, <3>1
    <3>3. Read(login)
      BY <2>3, <3>2, UrlLoginReadBack
    <3> QED
      BY <3>1, <3>3
  <2>9. SessLatest(SessWithPass) = {} => SessValue("Authorization") = {}
    BY <2>1, <2>2, <2>4 DEF SessFrom
  <2>10. Proxies
    BY <2>1, <2>2, <2>3, ProxyLoginReadBack DEF SessHdrsOK
  <2>11. Same /\ Logins /\ Proxies /\ SessValue("Host") # {} /\ (\A v \in SessValue("Host") : Hosts(v))
         /\ (SessLatest(SessWithPass) = {} => SessValue("Authorization") = {})
           => SessHeaders
    BY DEF SessHeaders
  <2> HIDE DEF Same, Logins, Proxies, Hosts
  <2>12. SessValue("Host") # {} /\ \A v \in SessValue("Host") : Hosts(v)
    BY <2>6, <2>7
  <2> QED
    BY <2>5, <2>8, <2>9, <2>10, <2>11, <2>12
<1> QED
  BY <1>1, SessInvHolds, PTL

-----------------------------------------------------------------------------
(* The handshake with a SOCKS proxy *)

SockOctet == 0 .. 255
SockOctets == Seq(SockOctet)

\* One string of bytes after another, and its byte at a place.
SockJoin(s, t) == s \o t

LEMMA SockLen ==
  ASSUME NEW s \in SockOctets
  PROVE  Len(s) \in Nat
BY LenProperties DEF SockOctets

LEMMA SockJoinIs ==
  ASSUME NEW s \in SockOctets, NEW t \in SockOctets
  PROVE  /\ SockJoin(s, t) \in SockOctets /\ Len(SockJoin(s, t)) = Len(s) + Len(t)
         /\ \A i \in 1 .. Len(s) : SockByte(SockJoin(s, t), i) = SockByte(s, i)
         /\ \A i \in 1 .. Len(t) : SockByte(SockJoin(s, t), Len(s) + i) = SockByte(t, i)
<1>1. Len(s) \in Nat /\ Len(t) \in Nat
  BY SockLen
<1>2. /\ s \o t \in SockOctets /\ Len(s \o t) = Len(s) + Len(t)
      /\ \A i \in 1 .. Len(s) + Len(t) : (s \o t)[i] = IF i <= Len(s) THEN s[i] ELSE t[i - Len(s)]
  BY ConcatProperties DEF SockOctets
<1> DEFINE j == s \o t
<1>3. /\ j \in SockOctets /\ Len(j) = Len(s) + Len(t)
      /\ \A i \in 1 .. Len(s) + Len(t) : j[i] = IF i <= Len(s) THEN s[i] ELSE t[i - Len(s)]
  BY <1>2
<1> HIDE DEF j
<1>4. \A i \in 1 .. Len(s) : SockByte(j, i) = SockByte(s, i)
  BY <1>1, <1>3, SMT DEF SockByte
<1>5. \A i \in 1 .. Len(t) : SockByte(j, Len(s) + i) = SockByte(t, i)
  BY <1>1, <1>3, SMT DEF SockByte
<1>6. SockJoin(s, t) = j
  BY DEF SockJoin, j
<1> QED
  BY <1>3, <1>4, <1>5, <1>6

\* j is the m bytes of s and then the n bytes of t.
SockJoined(j, s, m, t, n) ==
  /\ j \in SockOctets /\ Len(j) = m + n
  /\ \A i \in 1 .. m : SockByte(j, i) = SockByte(s, i)
  /\ \A i \in 1 .. n : SockByte(j, m + i) = SockByte(t, i)

LEMMA SockJoinAt ==
  ASSUME NEW s \in SockOctets, NEW t \in SockOctets, NEW m, NEW n, Len(s) = m, Len(t) = n
  PROVE  SockJoined(SockJoin(s, t), s, m, t, n)
BY SockJoinIs, Zenon DEF SockJoined

\* What is left of a stream after a packet.
LEMMA SockRest ==
  ASSUME NEW p \in SockOctets, NEW r \in SockOctets
  PROVE  SubSeq(SockJoin(p, r), Len(p) + 1, Len(SockJoin(p, r))) = r
<1>1. Len(p) \in Nat /\ Len(r) \in Nat
  BY SockLen
<1>2. CASE Len(r) = 0
  <2>1. r = <<>>
    BY <1>2, EmptySeq, SMT DEF SockOctets
  <2>2. Len(SockJoin(p, r)) < Len(p) + 1 /\ Len(SockJoin(p, r)) \in Int /\ Len(p) + 1 \in Int
    BY <1>1, <1>2, SockJoinIs, SMT
  <2> QED
    BY <2>1, <2>2, SubSeqEmpty
<1>3. CASE Len(r) # 0
  <2>1. /\ Len(p) + 1 \in Len(p) + 1 .. Len(p) + Len(r)
        /\ Len(p) + Len(r) \in Len(p) + 1 .. Len(p) + Len(r)
        /\ (Len(p) + 1) - Len(p) = 1 /\ (Len(p) + Len(r)) - Len(p) = Len(r)
    BY <1>1, <1>3, SMT
  <2>2. SubSeq(p \o r, Len(p) + 1, Len(p) + Len(r)) = SubSeq(r, 1, Len(r))
    <3> DEFINE m == Len(p) + 1
               n == Len(p) + Len(r)
    <3>1. m \in Len(p) + 1 .. Len(p) + Len(r) /\ n \in Len(p) + 1 .. Len(p) + Len(r)
          /\ m - Len(p) = 1 /\ n - Len(p) = Len(r)
      BY <2>1
    <3> HIDE DEF m, n
    <3>2. \A x, y \in Len(p) + 1 .. Len(p) + Len(r) :
            SubSeq(p \o r, x, y) = SubSeq(r, x - Len(p), y - Len(p))
      BY SubSeqOfConcat2 DEF SockOctets
    <3>3. SubSeq(p \o r, m, n) = SubSeq(r, m - Len(p), n - Len(p))
      BY <3>1, <3>2, Zenon
    <3> QED
      BY <3>1, <3>3, Zenon DEF m, n
  <2>3. SubSeq(r, 1, Len(r)) = r
    BY SubSeqFull DEF SockOctets
  <2>4. Len(SockJoin(p, r)) = Len(p) + Len(r)
    BY SockJoinIs
  <2> QED
    BY <2>2, <2>3, <2>4, Zenon DEF SockJoin
<1> QED
  BY <1>2, <1>3

LEMMA SockPair ==
  ASSUME NEW a \in SockOctet, NEW b \in SockOctet
  PROVE  <<a, b>> \in SockOctets /\ Len(<<a, b>>) = 2
         /\ SockByte(<<a, b>>, 1) = a /\ SockByte(<<a, b>>, 2) = b
BY SMT DEF SockOctets, SockByte

LEMMA SockOne ==
  ASSUME NEW a \in SockOctet
  PROVE  <<a>> \in SockOctets /\ Len(<<a>>) = 1 /\ SockByte(<<a>>, 1) = a
BY SMT DEF SockOctets, SockByte

\* A port of 16 bits, and the two bytes that it is read from.
SockPort16(p) == p \in Nat /\ p < 65536
SockPortRead(high, low) == 256 * high + low

LEMMA SockPortBytes ==
  ASSUME NEW p, SockPort16(p)
  PROVE  /\ SockPort(p) \in SockOctets /\ Len(SockPort(p)) = 2
         /\ SockPortRead(SockByte(SockPort(p), 1), SockByte(SockPort(p), 2)) = p
<1>1. p \in Nat /\ p < 65536
  BY DEF SockPort16
<1>2. (p % 65536) \div 256 \in SockOctet /\ p % 256 \in SockOctet
  BY <1>1, SMT DEF SockOctet
<1> DEFINE a == (p % 65536) \div 256
           b == p % 256
           d == p \div 256
<1>3. p % 65536 = p
  BY <1>1, SMT
<1>4. a = d
  BY <1>3
<1>5. b = p - 256 * d /\ d \in Int
  BY <1>1, SMT
<1>6. a \in SockOctet /\ b \in SockOctet /\ SockPort(p) = <<a, b>>
  BY <1>2 DEF SockPort
<1> HIDE DEF a, b, d
<1>7. SockPortRead(a, b) = p
  BY <1>1, <1>4, <1>5, SMT DEF SockPortRead
<1>8. SockPort(p) \in SockOctets /\ Len(SockPort(p)) = 2
      /\ SockByte(SockPort(p), 1) = a /\ SockByte(SockPort(p), 2) = b
  BY <1>6, SockPair, SMT
<1> QED
  BY <1>7, <1>8

\* The n bytes of s stand in w from this place on.
SockHas(w, from, n, s) ==
  n = Len(s) /\ \A i \in 1 .. n : SockByte(w, from + i - 1) = SockByte(s, i)

LEMMA SockTaken ==
  ASSUME NEW w, NEW from, NEW n, NEW s \in SockOctets, SockHas(w, from, n, s)
  PROVE  SockTake(w, from, n) = s
<1>1. Len(s) \in Nat
  BY SockLen
<1>2. \A i \in 1 .. Len(s) : SockByte(s, i) = s[i]
  BY <1>1, SMT DEF SockByte
<1>3. SockTake(w, from, n) = [i \in 1 .. Len(s) |-> s[i]]
  BY <1>2, Zenon DEF SockTake, SockHas
<1>4. s = [i \in 1 .. Len(s) |-> s[i]]
  BY LenProperties, SMT DEF SockOctets
<1> QED
  BY <1>3, <1>4

LEMMA SockSeen ==
  ASSUME NEW s, NEW i \in Nat, i <= Len(s)
  PROVE  SockByte(s, i) = s[i]
BY DEF SockByte

LEMMA SockText ==
  ASSUME NEW u \in SessString
  PROVE  u \in SockOctets /\ Len(u) \in Nat /\ \A i \in 1 .. Len(u) : SockByte(u, i) # 0
<1>1. 1 .. 127 \subseteq SockOctet
  BY DEF SockOctet
<1>2. u \in SockOctets
  BY <1>1, SeqMonotonic, Zenon DEF SockOctets, SessString
<1>3. Len(u) \in Nat
  BY <1>2, SockLen
<1>4. \A i \in 1 .. Len(u) : u[i] \in 1 .. 127
  BY ElementOfSeq, Zenon DEF SessString
<1>5. ASSUME NEW i \in 1 .. Len(u) PROVE SockByte(u, i) # 0
  <2>1. i \in Nat /\ i <= Len(u)
    BY <1>3
  <2>2. SockByte(u, i) = u[i]
    BY <2>1, SockSeen
  <2>3. u[i] \in 1 .. 127
    BY <1>4, Zenon
  <2>4. \A x \in 1 .. 127 : x # 0
    BY SMT
  <2> QED
    BY <2>2, <2>3, <2>4, Zenon
<1> QED
  BY <1>2, <1>3, <1>5

\* A request that the proxy reads back from its packet, whatever is sent after it.
SockCarried(q) ==
  /\ SockPackGet(q) \in SockOctets /\ SockFits(q)
  /\ SockReadLen(q) = Len(SockPackGet(q))
  /\ \A r \in SockOctets : SockReadOne(q.kind, SockJoin(SockPackGet(q), r)) = q

\* The end of a name is its first NUL.
LEMMA SockEndIs ==
  ASSUME NEW w, NEW from \in Nat, NEW n \in Nat, Len(w) \in Nat, n <= Len(w),
         SockByte(w, from + n) = 0, \A i \in 1 .. n : SockByte(w, from + i - 1) # 0
  PROVE  SockEnd(w, from) = n
<1> DEFINE Ends(m) == SockByte(w, from + m) = 0 /\ \A i \in 1 .. m : SockByte(w, from + i - 1) # 0
<1>1. n \in 0 .. Len(w) /\ Ends(n)
  BY SMT
<1>2. ASSUME NEW m \in 0 .. Len(w), Ends(m) PROVE m = n
  <2>1. ~ m < n
    <3> SUFFICES ASSUME m < n PROVE FALSE
      OBVIOUS
    <3>1. m + 1 \in 1 .. n /\ from + (m + 1) - 1 = from + m
      BY SMT
    <3>2. SockByte(w, from + (m + 1) - 1) # 0
      BY <3>1
    <3> QED
      BY <1>2, <3>1, <3>2
  <2>2. ~ n < m
    <3> SUFFICES ASSUME n < m PROVE FALSE
      OBVIOUS
    <3>1. n + 1 \in 1 .. m /\ from + (n + 1) - 1 = from + n
      BY SMT
    <3>2. SockByte(w, from + (n + 1) - 1) # 0
      BY <1>2, <3>1
    <3> QED
      BY <3>1, <3>2
  <2> QED
    BY <2>1, <2>2, SMT
<1>3. SockEnd(w, from) = CHOOSE m \in 0 .. Len(w) : Ends(m)
  BY DEF SockEnd
<1> HIDE DEF Ends
<1> QED
  BY <1>1, <1>2, <1>3, Zenon

LEMMA Sock4Carried ==
  ASSUME NEW p, SockPort16(p), NEW a \in SockOctets, Len(a) = 4, NEW u \in SessString
  PROVE  SockCarried(Sock4Req(p, a, u))
<1> DEFINE q == Sock4Req(p, a, u)
           v == <<SOCKS_VERS_4, SOCKS_CMDS_CONNECT>>
           o == SockPort(p)
           z == <<0>>
           vo == SockJoin(v, o)
           voa == SockJoin(vo, a)
           voau == SockJoin(voa, u)
           k == SockJoin(voau, z)
           n == Len(u)
<1>1. u \in SockOctets /\ n \in Nat /\ \A i \in 1 .. n : SockByte(u, i) # 0
  BY SockText
<1>2. o \in SockOctets /\ Len(o) = 2 /\ SockPortRead(SockByte(o, 1), SockByte(o, 2)) = p
  BY SockPortBytes
<1>3. v \in SockOctets /\ Len(v) = 2
  <2>1. SOCKS_VERS_4 \in SockOctet /\ SOCKS_CMDS_CONNECT \in SockOctet
    BY DEF SockOctet, SOCKS_VERS_4, SOCKS_CMDS_CONNECT
  <2> QED
    BY <2>1, SockPair
<1>4. z \in SockOctets /\ Len(z) = 1 /\ SockByte(z, 1) = 0
  <2>1. 0 \in SockOctet
    BY DEF SockOctet
  <2> QED
    BY <2>1, SockOne
<1>5. q.kind = "4REQ" /\ q.port = p /\ q.addr = a /\ q.user = u
  BY DEF Sock4Req
<1>6. SockPackGet(q) = k /\ SockReadLen(q) = 9 + n /\ SockPackSize(q) = 4 + (9 + n)
  BY <1>5 DEF SockPackGet, SockPack4, SockReadLen, SockPackSize, SockJoin
<1> HIDE DEF v, o, z, q, k, voau, voa, vo, n
<1>7. /\ vo \in SockOctets /\ Len(vo) = 4
      /\ SockByte(vo, 3) = SockByte(o, 1) /\ SockByte(vo, 4) = SockByte(o, 2)
  <2>1. /\ vo \in SockOctets /\ Len(vo) = 2 + 2
        /\ \A i \in 1 .. 2 : SockByte(vo, 2 + i) = SockByte(o, i)
    <3>1. SockJoined(vo, v, 2, o, 2)
      BY <1>2, <1>3, SockJoinAt, Zenon DEF vo
    <3> QED
      BY <3>1 DEF SockJoined
  <2>2. SockByte(vo, 2 + 1) = SockByte(o, 1) /\ SockByte(vo, 2 + 2) = SockByte(o, 2)
    BY <2>1, SMT
  <2> QED
    BY <2>1, <2>2, SMT
<1>8. /\ voa \in SockOctets /\ Len(voa) = 8
      /\ SockByte(voa, 3) = SockByte(o, 1) /\ SockByte(voa, 4) = SockByte(o, 2)
      /\ \A i \in 1 .. 4 : SockByte(voa, 4 + i) = SockByte(a, i)
  <2>1. /\ voa \in SockOctets /\ Len(voa) = 4 + 4
        /\ \A i \in 1 .. 4 : SockByte(voa, i) = SockByte(vo, i)
        /\ \A i \in 1 .. 4 : SockByte(voa, 4 + i) = SockByte(a, i)
    <3>1. SockJoined(voa, vo, 4, a, 4)
      BY <1>7, SockJoinAt, Zenon DEF voa
    <3> QED
      BY <3>1 DEF SockJoined
  <2> QED
    BY <1>7, <2>1, SMT
<1>9. /\ voau \in SockOctets /\ Len(voau) = 8 + n
      /\ SockByte(voau, 3) = SockByte(o, 1) /\ SockByte(voau, 4) = SockByte(o, 2)
      /\ \A i \in 1 .. 4 : SockByte(voau, 4 + i) = SockByte(a, i)
      /\ \A i \in 1 .. n : SockByte(voau, 8 + i) = SockByte(u, i)
  <2>1. /\ voau \in SockOctets /\ Len(voau) = 8 + n
        /\ \A i \in 1 .. 8 : SockByte(voau, i) = SockByte(voa, i)
        /\ \A i \in 1 .. n : SockByte(voau, 8 + i) = SockByte(u, i)
    <3>1. SockJoined(voau, voa, 8, u, n)
      BY <1>1, <1>8, SockJoinAt, Zenon DEF voau, n
    <3> QED
      BY <3>1 DEF SockJoined
  <2> QED
    BY <1>8, <2>1, SMT
<1>10. /\ k \in SockOctets /\ Len(k) = 9 + n
       /\ SockByte(k, 3) = SockByte(o, 1) /\ SockByte(k, 4) = SockByte(o, 2)
       /\ \A i \in 1 .. 4 : SockByte(k, 4 + i) = SockByte(a, i)
       /\ \A i \in 1 .. n : SockByte(k, 8 + i) = SockByte(u, i)
       /\ SockByte(k, 9 + n) = 0
  <2>1. /\ k \in SockOctets /\ Len(k) = (8 + n) + 1
        /\ \A i \in 1 .. 8 + n : SockByte(k, i) = SockByte(voau, i)
        /\ \A i \in 1 .. 1 : SockByte(k, (8 + n) + i) = SockByte(z, i)
    <3>1. SockJoined(k, voau, 8 + n, z, 1)
      BY <1>4, <1>9, SockJoinAt, Zenon DEF k
    <3> QED
      BY <3>1 DEF SockJoined
  <2>2. SockByte(k, (8 + n) + 1) = 0
    BY <1>4, <2>1, SMT
  <2> QED
    BY <1>1, <1>9, <2>1, <2>2, SMT
<1>11. ASSUME NEW r \in SockOctets PROVE SockRead4(SockJoin(k, r)) = Sock4Req(p, a, u)
  <2> DEFINE w == SockJoin(k, r)
  <2>1. w \in SockOctets /\ Len(w) \in Nat /\ Len(w) >= 9 + n /\ \A i \in 1 .. 9 + n : SockByte(w, i) = SockByte(k, i)
    <3>1. w \in SockOctets /\ Len(w) = (9 + n) + Len(r) /\ \A i \in 1 .. 9 + n : SockByte(w, i) = SockByte(k, i)
      <4>1. SockJoined(w, k, 9 + n, r, Len(r))
        BY <1>10, SockJoinAt, Zenon
      <4> QED
        BY <4>1 DEF SockJoined
    <3>2. Len(r) \in Nat
      BY SockLen
    <3> QED
      BY <1>1, <3>1, <3>2, SMT
  <2> HIDE DEF w
  <2>2. SockPortRead(SockByte(w, 3), SockByte(w, 4)) = p
    <3>1. SockByte(w, 3) = SockByte(o, 1) /\ SockByte(w, 4) = SockByte(o, 2)
      BY <1>1, <1>10, <2>1, SMT
    <3> QED
      BY <1>2, <3>1
  <2>3. SockTake(w, 5, 4) = a
    <3>1. SockHas(w, 5, 4, a)
      BY <1>1, <1>10, <2>1, SMT DEF SockHas
    <3> QED
      BY <3>1, SockTaken
  <2>4. \A i \in 1 .. n : SockByte(w, 9 + i - 1) = SockByte(u, i)
    BY <1>1, <1>10, <2>1, SMT
  <2>5. SockEnd(w, 9) = n
    <3>1. SockByte(w, 9 + n) = 0 /\ n <= Len(w)
      BY <1>1, <1>10, <2>1, SMT
    <3>2. \A i \in 1 .. n : SockByte(w, 9 + i - 1) # 0
      BY <1>1, <2>4
    <3> QED
      BY <1>1, <2>1, <3>1, <3>2, SockEndIs
  <2>6. SockTake(w, 9, n) = u
    <3>1. SockHas(w, 9, n, u)
      BY <2>4 DEF SockHas, n
    <3> QED
      BY <1>1, <3>1, SockTaken
  <2> QED
    BY <2>2, <2>3, <2>5, <2>6, SMT DEF SockRead4, SockPortRead, w
<1>12. SockPackGet(q) \in SockOctets /\ SockFits(q) /\ SockReadLen(q) = Len(SockPackGet(q))
  BY <1>1, <1>6, <1>10, SMT DEF SockFits
<1>13. ASSUME NEW r \in SockOctets PROVE SockReadOne(q.kind, SockJoin(SockPackGet(q), r)) = q
  BY <1>5, <1>6, <1>11 DEF SockReadOne, q
<1> QED
  BY <1>12, <1>13 DEF SockCarried, q

LEMMA SockBytesAll ==
  ASSUME NEW s \in SockOctets, NEW n, n = Len(s)
  PROVE  SockBytes(s, n) = s
<1>1. Len(s) \in Nat
  BY SockLen
<1>2. \A i \in 1 .. Len(s) : SockByte(s, i) = s[i]
  BY <1>1, SMT DEF SockByte
<1>3. SockBytes(s, n) = [i \in 1 .. Len(s) |-> s[i]]
  BY <1>2, Zenon DEF SockBytes
<1>4. s = [i \in 1 .. Len(s) |-> s[i]]
  BY LenProperties, SMT DEF SockOctets
<1> QED
  BY <1>3, <1>4

LEMMA SockLen8Is ==
  ASSUME NEW s, Len(s) \in SockOctet
  PROVE  SockLen8(s) = Len(s)
<1> DEFINE n == Len(s)
<1>1. n \in SockOctet /\ SockLen8(s) = n % 256
  BY DEF SockLen8
<1> HIDE DEF n
<1>2. n % 256 = n
  BY <1>1, SMT DEF SockOctet
<1> QED
  BY <1>1, <1>2 DEF n

\* The lengths of an address that the packet and the proxy tell from its type.
SockAddrTold(t, a) ==
  \/ t = SOCKS_ADDR_IPV4ADDR /\ Len(a) = 4
  \/ t = SOCKS_ADDR_HOSTNAME /\ Len(a) = 1 + SockByte(a, 1)

LEMMA Sock5Carried ==
  ASSUME NEW p, SockPort16(p), NEW a \in SockOctets, Len(a) > 0, NEW t, SockAddrTold(t, a)
  PROVE  SockCarried(Sock5Req(t, p, a))
<1> DEFINE q == Sock5Req(t, p, a)
           v == <<SOCKS_VERS_5, SOCKS_CMDS_CONNECT, 0, t>>
           o == SockPort(p)
           va == SockJoin(v, a)
           k == SockJoin(va, o)
           n == Len(a)
<1>1. n \in Nat /\ n > 0
  BY SockLen
<1>2. o \in SockOctets /\ Len(o) = 2 /\ SockPortRead(SockByte(o, 1), SockByte(o, 2)) = p
  BY SockPortBytes
<1>3. v \in SockOctets /\ Len(v) = 4 /\ SockByte(v, 4) = t
  <2>1. SOCKS_VERS_5 \in SockOctet /\ SOCKS_CMDS_CONNECT \in SockOctet /\ 0 \in SockOctet /\ t \in SockOctet
    BY DEF SockOctet, SOCKS_VERS_5, SOCKS_CMDS_CONNECT, SockAddrTold, SOCKS_ADDR_IPV4ADDR, SOCKS_ADDR_HOSTNAME
  <2> QED
    BY <2>1, SMT DEF SockOctets, SockByte
<1>4. q.kind = "5REQ" /\ q.type = t /\ q.port = p /\ q.addr = a
  BY DEF Sock5Req
<1>5. SockAddrLen(q) = n /\ SockBytes(a, n) = a
  <2>1. SockAddrLen(q) = n
    BY <1>4, SMT DEF SockAddrTold, SockAddrLen, SOCKS_ADDR_IPV4ADDR, SOCKS_ADDR_HOSTNAME, SOCKS_ADDR_IPV6ADDR
  <2> QED
    BY <2>1, SockBytesAll
<1>6. SockPackGet(q) = k /\ SockReadLen(q) = 6 + n
  BY <1>4, <1>5 DEF SockPackGet, SockPack5, SockReadLen, SockJoin
<1>7. SockPackSize(q) > 6 + n
  <2>1. SockPackSize(q) = 4 + (6 + (IF t = SOCKS_ADDR_IPV4ADDR THEN 4
                                    ELSE IF t = SOCKS_ADDR_IPV6ADDR THEN 16
                                    ELSE IF t = SOCKS_ADDR_HOSTNAME THEN 2 + SockByte(a, 1)
                                    ELSE 2 + Len(a)))
    BY <1>4 DEF SockPackSize
  <2>2. CASE t = SOCKS_ADDR_IPV4ADDR /\ n = 4
    BY <2>1, <2>2, SMT
  <2>3. CASE t = SOCKS_ADDR_HOSTNAME /\ n = 1 + SockByte(a, 1)
    <3>1. SockByte(a, 1) \in Int
      <4>1. 1 \in Nat /\ 1 <= Len(a)
        BY <1>1
      <4>2. SockByte(a, 1) = a[1] /\ a[1] \in SockOctet
        BY <4>1, SockSeen, ElementOfSeq DEF SockOctets
      <4> QED
        BY <4>2, SMT DEF SockOctet
    <3> QED
      BY <1>1, <2>1, <2>3, <3>1, SMT DEF SOCKS_ADDR_IPV4ADDR, SOCKS_ADDR_HOSTNAME, SOCKS_ADDR_IPV6ADDR
  <2> QED
    BY <2>2, <2>3 DEF SockAddrTold
<1> HIDE DEF v, o, q, k, va, n
<1>8. /\ va \in SockOctets /\ Len(va) = 4 + n
      /\ SockByte(va, 4) = t
      /\ \A i \in 1 .. n : SockByte(va, 4 + i) = SockByte(a, i)
  <2>1. SockJoined(va, v, 4, a, n)
    BY <1>3, SockJoinAt, Zenon DEF va, n
  <2> QED
    BY <1>3, <2>1, SMT DEF SockJoined
<1>9. /\ k \in SockOctets /\ Len(k) = 6 + n
      /\ SockByte(k, 4) = t
      /\ \A i \in 1 .. n : SockByte(k, 4 + i) = SockByte(a, i)
      /\ SockByte(k, 5 + n) = SockByte(o, 1) /\ SockByte(k, 6 + n) = SockByte(o, 2)
  <2>1. SockJoined(k, va, 4 + n, o, 2)
    BY <1>2, <1>8, SockJoinAt, Zenon DEF k
  <2>2. SockByte(k, (4 + n) + 1) = SockByte(o, 1) /\ SockByte(k, (4 + n) + 2) = SockByte(o, 2)
    BY <2>1, SMT DEF SockJoined
  <2>3. (4 + n) + 1 = 5 + n /\ (4 + n) + 2 = 6 + n
    BY <1>1, SMT
  <2>4. \A i \in 1 .. 4 + n : SockByte(k, i) = SockByte(va, i)
    BY <2>1 DEF SockJoined
  <2>5. SockByte(k, 4) = t /\ \A i \in 1 .. n : SockByte(k, 4 + i) = SockByte(a, i)
    BY <1>1, <1>8, <2>4, SMT
  <2> QED
    BY <2>1, <2>2, <2>3, <2>5, SMT DEF SockJoined
<1>10. ASSUME NEW r \in SockOctets PROVE SockRead5(SockJoin(k, r)) = Sock5Req(t, p, a)
  <2> DEFINE w == SockJoin(k, r)
  <2>1. \A i \in 1 .. 6 + n : SockByte(w, i) = SockByte(k, i)
    <3>1. SockJoined(w, k, 6 + n, r, Len(r))
      BY <1>9, SockJoinAt, Zenon
    <3> QED
      BY <3>1 DEF SockJoined
  <2> HIDE DEF w
  <2>2. SockByte(w, 4) = t
    BY <1>1, <1>9, <2>1, SMT
  <2>3. \A i \in 1 .. n : SockByte(w, 5 + i - 1) = SockByte(a, i)
    BY <1>1, <1>9, <2>1, SMT
  <2>4. SockByte(w, 5) = SockByte(a, 1)
    BY <1>1, <2>3, SMT
  <2>5. (IF SockByte(w, 4) = SOCKS_ADDR_HOSTNAME THEN 1 + SockByte(w, 5) ELSE 4) = n
    BY <2>2, <2>4 DEF SockAddrTold, SOCKS_ADDR_IPV4ADDR, SOCKS_ADDR_HOSTNAME, n
  <2>6. SockTake(w, 5, n) = a
    <3>1. SockHas(w, 5, n, a)
      BY <2>3 DEF SockHas, n
    <3> QED
      BY <3>1, SockTaken
  <2>7. SockPortRead(SockByte(w, 5 + n), SockByte(w, 6 + n)) = p
    <3>1. SockByte(w, 5 + n) = SockByte(o, 1) /\ SockByte(w, 6 + n) = SockByte(o, 2)
      BY <1>1, <1>9, <2>1, SMT
    <3> QED
      BY <1>2, <3>1
  <2>8. SockRead5(w) = Sock5Req(SockByte(w, 4), SockPortRead(SockByte(w, 5 + n), SockByte(w, 6 + n)), SockTake(w, 5, n))
    BY <2>5, SMT DEF SockRead5, SockPortRead
  <2> QED
    BY <2>2, <2>6, <2>7, <2>8, Zenon DEF w
<1>11. SockPackGet(q) \in SockOctets /\ SockFits(q) /\ SockReadLen(q) = Len(SockPackGet(q))
  BY <1>1, <1>6, <1>7, <1>9, SMT DEF SockFits
<1>12. ASSUME NEW r \in SockOctets PROVE SockReadOne(q.kind, SockJoin(SockPackGet(q), r)) = q
  BY <1>4, <1>6, <1>10 DEF SockReadOne, q
<1> QED
  BY <1>11, <1>12 DEF SockCarried, q

LEMMA SockAuthCarried ==
  ASSUME NEW a \in SockOctets, Len(a) \in SockOctet
  PROVE  SockCarried(Sock5AuthReq(a))
<1> DEFINE q == Sock5AuthReq(a)
           n == Len(a)
           v == <<SOCKS_VERS_5, n>>
           k == SockJoin(v, a)
<1>1. n \in Nat
  BY SockLen
<1>2. v \in SockOctets /\ Len(v) = 2 /\ SockByte(v, 2) = n
  <2>1. SOCKS_VERS_5 \in SockOctet
    BY DEF SockOctet, SOCKS_VERS_5
  <2> QED
    BY <2>1, SockPair
<1>3. q.kind = "5AUTHREQ" /\ q.auths = a
  BY DEF Sock5AuthReq
<1>4. SockPackGet(q) = k /\ SockReadLen(q) = 2 + n /\ SockPackSize(q) = 4 + (4 + n)
  BY <1>3 DEF SockPackGet, SockPackAuth, SockReadLen, SockPackSize, SockJoin
<1> HIDE DEF v, q, k, n
<1>5. SockJoined(k, v, 2, a, n)
  BY <1>2, SockJoinAt, Zenon DEF k, n
<1>6. /\ k \in SockOctets /\ Len(k) = 2 + n
      /\ SockByte(k, 2) = n /\ \A i \in 1 .. n : SockByte(k, 2 + i) = SockByte(a, i)
  BY <1>2, <1>5, SMT DEF SockJoined
<1>7. ASSUME NEW r \in SockOctets PROVE SockReadAuth(SockJoin(k, r)) = Sock5AuthReq(a)
  <2> DEFINE w == SockJoin(k, r)
  <2>1. \A i \in 1 .. 2 + n : SockByte(w, i) = SockByte(k, i)
    <3>1. SockJoined(w, k, 2 + n, r, Len(r))
      BY <1>6, SockJoinAt, Zenon
    <3> QED
      BY <3>1 DEF SockJoined
  <2> HIDE DEF w
  <2>2. SockByte(w, 2) = n
    BY <1>1, <1>6, <2>1, SMT
  <2>3. SockHas(w, 3, n, a)
    <3>1. \A i \in 1 .. n : SockByte(w, 3 + i - 1) = SockByte(a, i)
      BY <1>1, <1>6, <2>1, SMT
    <3> QED
      BY <3>1 DEF SockHas, n
  <2>4. SockTake(w, 3, n) = a
    BY <2>3, SockTaken
  <2> QED
    BY <2>2, <2>4, Zenon DEF SockReadAuth, w
<1>8. SockPackGet(q) \in SockOctets /\ SockFits(q) /\ SockReadLen(q) = Len(SockPackGet(q))
  BY <1>1, <1>4, <1>6, SMT DEF SockFits
<1>9. ASSUME NEW r \in SockOctets PROVE SockReadOne(q.kind, SockJoin(SockPackGet(q), r)) = q
  BY <1>3, <1>4, <1>7 DEF SockReadOne, q
<1> QED
  BY <1>8, <1>9 DEF SockCarried, q

LEMMA SockPassCarried ==
  ASSUME NEW u \in SockOctets, NEW c \in SockOctets, Len(u) \in SockOctet, Len(u) = Len(c)
  PROVE  SockCarried(Sock5PassReq(u, c))
<1> DEFINE q == Sock5PassReq(u, c)
           n == Len(u)
           v == <<1, n>>
           z == <<n>>
           vu == SockJoin(v, u)
           vuz == SockJoin(vu, z)
           k == SockJoin(vuz, c)
<1>1. n \in Nat
  BY SockLen
<1>2. v \in SockOctets /\ Len(v) = 2 /\ SockByte(v, 2) = n
  <2>1. 1 \in SockOctet
    BY DEF SockOctet
  <2> QED
    BY <2>1, SockPair
<1>3. z \in SockOctets /\ Len(z) = 1 /\ SockByte(z, 1) = n
  BY SockOne
<1>4. q.kind = "5PASSREQ" /\ q.user = u /\ q.pass = c
  BY DEF Sock5PassReq
<1>5. SockLen8(u) = n /\ SockLen8(c) = n /\ SockBytes(u, n) = u /\ SockBytes(c, n) = c
  BY SockLen8Is, SockBytesAll
<1>6. SockPackGet(q) = k /\ SockReadLen(q) = 3 + n + n /\ SockPackSize(q) = 4 + (4 + n + n)
  BY <1>4, <1>5 DEF SockPackGet, SockPackPass, SockReadLen, SockPackSize, SockJoin
<1> HIDE DEF v, q, k, n, z, vu, vuz
<1>7. /\ vu \in SockOctets /\ Len(vu) = 2 + n
      /\ SockByte(vu, 2) = n /\ \A i \in 1 .. n : SockByte(vu, 2 + i) = SockByte(u, i)
  <2>1. SockJoined(vu, v, 2, u, n)
    BY <1>2, SockJoinAt, Zenon DEF vu, n
  <2> QED
    BY <1>2, <2>1, SMT DEF SockJoined
<1>8. /\ vuz \in SockOctets /\ Len(vuz) = 3 + n
      /\ SockByte(vuz, 2) = n /\ \A i \in 1 .. n : SockByte(vuz, 2 + i) = SockByte(u, i)
      /\ SockByte(vuz, 3 + n) = n
  <2>1. SockJoined(vuz, vu, 2 + n, z, 1)
    BY <1>3, <1>7, SockJoinAt, Zenon DEF vuz
  <2>2. Len(vuz) = (2 + n) + 1 /\ SockByte(vuz, (2 + n) + 1) = n
    BY <1>3, <2>1, SMT DEF SockJoined
  <2>3. (2 + n) + 1 = 3 + n
    BY <1>1, SMT
  <2>4. vuz \in SockOctets /\ \A i \in 1 .. 2 + n : SockByte(vuz, i) = SockByte(vu, i)
    BY <2>1 DEF SockJoined
  <2>5. SockByte(vuz, 2) = n /\ \A i \in 1 .. n : SockByte(vuz, 2 + i) = SockByte(u, i)
    BY <1>1, <1>7, <2>4, SMT
  <2> QED
    BY <2>2, <2>3, <2>4, <2>5
<1>9. /\ k \in SockOctets /\ Len(k) = (3 + n) + n
      /\ SockByte(k, 2) = n /\ \A i \in 1 .. n : SockByte(k, 2 + i) = SockByte(u, i)
      /\ SockByte(k, 3 + n) = n /\ \A i \in 1 .. n : SockByte(k, (3 + n) + i) = SockByte(c, i)
  <2>1. SockJoined(k, vuz, 3 + n, c, n)
    <3>1. Len(c) = n
      BY DEF n
    <3> QED
      BY <1>8, <3>1, SockJoinAt, Zenon DEF k
  <2>2. /\ k \in SockOctets /\ Len(k) = (3 + n) + n
        /\ \A i \in 1 .. 3 + n : SockByte(k, i) = SockByte(vuz, i)
        /\ \A i \in 1 .. n : SockByte(k, (3 + n) + i) = SockByte(c, i)
    BY <2>1 DEF SockJoined
  <2>3. SockByte(k, 2) = n /\ SockByte(k, 3 + n) = n /\ \A i \in 1 .. n : SockByte(k, 2 + i) = SockByte(u, i)
    BY <1>1, <1>8, <2>2, SMT
  <2> QED
    BY <2>2, <2>3
<1>10. ASSUME NEW r \in SockOctets PROVE SockReadPass(SockJoin(k, r)) = Sock5PassReq(u, c)
  <2> DEFINE w == SockJoin(k, r)
  <2>1. \A i \in 1 .. (3 + n) + n : SockByte(w, i) = SockByte(k, i)
    <3>1. SockJoined(w, k, (3 + n) + n, r, Len(r))
      BY <1>9, SockJoinAt, Zenon
    <3> QED
      BY <3>1 DEF SockJoined
  <2> HIDE DEF w
  <2>2. SockByte(w, 2) = n /\ SockByte(w, 3 + n) = n
    BY <1>1, <1>9, <2>1, SMT
  <2>3. SockTake(w, 3, n) = u
    <3>1. \A i \in 1 .. n : SockByte(w, 3 + i - 1) = SockByte(u, i)
      BY <1>1, <1>9, <2>1, SMT
    <3>2. SockHas(w, 3, n, u)
      BY <3>1 DEF SockHas, n
    <3> QED
      BY <3>2, SockTaken
  <2>4. SockTake(w, 4 + n, n) = c
    <3>1. \A i \in 1 .. n : SockByte(w, (4 + n) + i - 1) = SockByte(c, i)
      BY <1>1, <1>9, <2>1, SMT
    <3>2. SockHas(w, 4 + n, n, c)
      BY <3>1 DEF SockHas, n
    <3> QED
      BY <3>2, SockTaken
  <2> QED
    BY <2>2, <2>3, <2>4, Zenon DEF SockReadPass, w
<1>11. SockPackGet(q) \in SockOctets /\ SockFits(q) /\ SockReadLen(q) = Len(SockPackGet(q))
  BY <1>1, <1>6, <1>9, SMT DEF SockFits
<1>12. ASSUME NEW r \in SockOctets PROVE SockReadOne(q.kind, SockJoin(SockPackGet(q), r)) = q
  BY <1>4, <1>6, <1>10 DEF SockReadOne, q
<1> QED
  BY <1>11, <1>12 DEF SockCarried, q

\* Where the reader is after n of the requests, and what one more makes of it.
SockReadStep(at, kind) ==
  LET q == SockReadOne(kind, at.rest)
  IN  [read |-> Append(at.read, q), rest |-> SubSeq(at.rest, SockReadLen(q) + 1, Len(at.rest))]
SockReader(at, kinds, w) ==
  at = [n \in 0 .. Len(kinds) |->
          IF n = 0 THEN [read |-> <<>>, rest |-> w] ELSE SockReadStep(at[n - 1], kinds[n])]

LEMMA SockReadsAre ==
  ASSUME NEW kinds, NEW w, NEW g, SockReader(g, kinds, w)
  PROVE  \E at : SockReader(at, kinds, w) /\ SockReads(kinds, w) = at[Len(kinds)]
<1> DEFINE at == CHOOSE f : SockReader(f, kinds, w)
<1>1. SockReader(at, kinds, w)
  BY Zenon
<1>2. SockReads(kinds, w) = at[Len(kinds)]
  BY Zenon DEF SockReads, SockReader, SockReadStep
<1> QED
  BY <1>1, <1>2, Zenon

\* The reader of no more than three requests.
LEMMA SockReaderOf3 ==
  ASSUME NEW kinds, NEW w, Len(kinds) \in 0 .. 3
  PROVE  \E g : SockReader(g, kinds, w)
<1> DEFINE s0 == [read |-> <<>>, rest |-> w]
           s1 == SockReadStep(s0, kinds[1])
           s2 == SockReadStep(s1, kinds[2])
           s3 == SockReadStep(s2, kinds[3])
           N == Len(kinds)
           g == [n \in 0 .. N |-> IF n = 0 THEN s0 ELSE IF n = 1 THEN s1 ELSE IF n = 2 THEN s2 ELSE s3]
           h == [n \in 0 .. N |-> IF n = 0 THEN s0 ELSE SockReadStep(g[n - 1], kinds[n])]
<1> HIDE DEF s0
<1> HIDE DEF N
<1>1. N \in 0 .. 3
  BY DEF N
<1>2. ASSUME NEW n \in 0 .. N PROVE g[n] = h[n]
  <2>1. CASE n = 0
    BY <2>1
  <2>2. CASE n = 1
    <3>1. g[0] = s0
      BY <1>1
    <3>2. n - 1 = 0
      BY <2>2
    <3> QED
      BY <2>2, <3>1, <3>2
  <2>3. CASE n = 2
    <3>1. g[1] = s1
      BY <1>1, <2>3
    <3>2. n - 1 = 1
      BY <2>3
    <3> QED
      BY <2>3, <3>1, <3>2
  <2>4. CASE n = 3
    <3>1. g[2] = s2
      BY <1>1, <2>4
    <3>2. n - 1 = 2
      BY <2>4
    <3> QED
      BY <2>4, <3>1, <3>2
  <2> QED
    BY <1>1, <2>1, <2>2, <2>3, <2>4
<1>3. g = h
  BY <1>2
<1>4. SockReader(g, kinds, w)
  BY <1>3 DEF SockReader, s0, N
<1> QED
  BY <1>4

\* The reader with these requests read and these bytes left.
SockAt(ms, r) == [read |-> ms, rest |-> r]

LEMMA SockReadNext ==
  ASSUME NEW q, SockCarried(q), NEW r \in SockOctets, NEW ms
  PROVE  SockReadStep(SockAt(ms, SockJoin(SockPackGet(q), r)), q.kind) = SockAt(Append(ms, q), r)
<1> DEFINE w == SockJoin(SockPackGet(q), r)
<1>1. SockReadOne(q.kind, w) = q /\ SockReadLen(q) = Len(SockPackGet(q)) /\ SockPackGet(q) \in SockOctets
  BY DEF SockCarried
<1>2. SubSeq(w, SockReadLen(q) + 1, Len(w)) = r
  BY <1>1, SockRest
<1> HIDE DEF w
<1>3. SockReadStep([read |-> ms, rest |-> w], q.kind) = [read |-> Append(ms, q), rest |-> r]
  BY <1>1, <1>2, Zenon DEF SockReadStep
<1> QED
  BY <1>3, Zenon DEF SockAt, w

LEMMA SockReaderAt ==
  ASSUME NEW at, NEW kinds, NEW w, SockReader(at, kinds, w), Len(kinds) \in 0 .. 3
  PROVE  /\ at[0] = SockAt(<<>>, w)
         /\ Len(kinds) \in {1, 2, 3} => at[1] = SockReadStep(at[0], kinds[1])
         /\ Len(kinds) \in {2, 3} => at[2] = SockReadStep(at[1], kinds[2])
         /\ Len(kinds) = 3 => at[3] = SockReadStep(at[2], kinds[3])
<1> DEFINE s0 == [read |-> <<>>, rest |-> w]
           N == Len(kinds)
<1> HIDE DEF s0, N
<1>1. at = [n \in 0 .. N |-> IF n = 0 THEN s0 ELSE SockReadStep(at[n - 1], kinds[n])]
  BY DEF SockReader, s0, N
<1>0. N \in 0 .. 3
  BY DEF N
<1>2. at[0] = s0
  BY <1>0, <1>1
<1>3. \A n \in 1 .. N : at[n] = SockReadStep(at[n - 1], kinds[n])
  BY <1>0, <1>1
<1>4. 1 - 1 = 0 /\ 2 - 1 = 1 /\ 3 - 1 = 2
  OBVIOUS
<1>5. N \in {1, 2, 3} => at[1] = SockReadStep(at[1 - 1], kinds[1])
  BY <1>0, <1>3
<1>6. N \in {2, 3} => at[2] = SockReadStep(at[2 - 1], kinds[2])
  BY <1>0, <1>3
<1>7. N = 3 => at[3] = SockReadStep(at[3 - 1], kinds[3])
  BY <1>0, <1>3
<1> QED
  BY <1>2, <1>4, <1>5, <1>6, <1>7 DEF s0, N, SockAt

LEMMA SockJoinEmpty ==
  ASSUME NEW s \in SockOctets
  PROVE  SockJoin(s, <<>>) = s /\ SockJoin(<<>>, s) = s /\ <<>> \in SockOctets
BY ConcatEmptySeq, EmptySeq, Zenon DEF SockJoin, SockOctets

LEMMA SockJoinAssoc ==
  ASSUME NEW s \in SockOctets, NEW t \in SockOctets, NEW r \in SockOctets
  PROVE  SockJoin(SockJoin(s, t), r) = SockJoin(s, SockJoin(t, r))
<1>1. \A x, y, z \in Seq(SockOctet) : (x \o y) \o z = x \o (y \o z)
  BY ConcatAssociative
<1> QED
  BY <1>1, Zenon DEF SockJoin, SockOctets

LEMMA SockAppended ==
  ASSUME NEW a, NEW b, NEW c
  PROVE  Append(<<>>, a) = <<a>> /\ Append(<<a>>, b) = <<a, b>> /\ Append(<<a, b>>, c) = <<a, b, c>>
<1> DEFINE S == {a, b, c}
<1>1. <<a>> \in Seq(S) /\ <<a, b>> \in Seq(S) /\ <<a, b, c>> \in Seq(S)
  OBVIOUS
<1>2. Append(<<>>, a) = <<a>>
  OBVIOUS
<1>3. Append(<<a>>, b) = <<a, b>>
  <2>1. Append(<<a>>, b) \in Seq(S) /\ Len(Append(<<a>>, b)) = 2
        /\ Append(<<a>>, b)[1] = a /\ Append(<<a>>, b)[2] = b
    BY <1>1
  <2>2. Len(<<a, b>>) = 2 /\ <<a, b>>[1] = a /\ <<a, b>>[2] = b
    OBVIOUS
  <2> DEFINE s == Append(<<a>>, b)
             t == <<a, b>>
  <2> HIDE DEF s, t
  <2>3. \A i \in 1 .. 2 : s[i] = t[i]
    BY <2>1, <2>2 DEF s, t
  <2> QED
    BY <1>1, <2>1, <2>2, <2>3, SeqEqual DEF s, t
<1>4. Append(<<a, b>>, c) = <<a, b, c>>
  <2>1. Append(<<a, b>>, c) \in Seq(S) /\ Len(Append(<<a, b>>, c)) = 3
        /\ Append(<<a, b>>, c)[1] = a /\ Append(<<a, b>>, c)[2] = b /\ Append(<<a, b>>, c)[3] = c
    BY <1>1
  <2>2. Len(<<a, b, c>>) = 3 /\ <<a, b, c>>[1] = a /\ <<a, b, c>>[2] = b /\ <<a, b, c>>[3] = c
    OBVIOUS
  <2> DEFINE s == Append(<<a, b>>, c)
             t == <<a, b, c>>
  <2> HIDE DEF s, t
  <2>3. \A i \in 1 .. 3 : s[i] = t[i]
    BY <2>1, <2>2 DEF s, t
  <2> QED
    BY <1>1, <2>1, <2>2, <2>3, SeqEqual DEF s, t
<1> QED
  BY <1>2, <1>3, <1>4

\* The bytes of no more than three requests, one after another.
SockStream(ms, w) ==
  \/ ms = <<>> /\ w = <<>>
  \/ \E a : SockCarried(a) /\ ms = <<a>> /\ w = SockPackGet(a)
  \/ \E a, b : /\ SockCarried(a) /\ SockCarried(b) /\ ms = <<a, b>>
               /\ w = SockJoin(SockPackGet(a), SockPackGet(b))
  \/ \E a, b, c : /\ SockCarried(a) /\ SockCarried(b) /\ SockCarried(c) /\ ms = <<a, b, c>>
                  /\ w = SockJoin(SockJoin(SockPackGet(a), SockPackGet(b)), SockPackGet(c))

\* The kinds that the proxy expects.
SockKinds(ms) == [i \in DOMAIN ms |-> ms[i].kind]

LEMMA SockStreamRead ==
  ASSUME NEW ms, NEW w, SockStream(ms, w)
  PROVE  SockReads(SockKinds(ms), w) = [read |-> ms, rest |-> <<>>]
<1> DEFINE k == SockKinds(ms)
<1>0. Len(k) \in 0 .. 3
  BY SMT DEF SockStream, SockKinds
<1> SUFFICES ASSUME NEW at, SockReader(at, k, w) PROVE at[Len(k)] = SockAt(ms, <<>>)
  <2>2. PICK g : SockReader(g, k, w)
    BY <1>0, SockReaderOf3
  <2>3. PICK f : SockReader(f, k, w) /\ SockReads(k, w) = f[Len(k)]
    BY <2>2, SockReadsAre
  <2> QED
    BY <2>3 DEF SockAt
<1>1. CASE ms = <<>> /\ w = <<>>
  <2>1. Len(k) = 0
    BY <1>1 DEF SockKinds
  <2> HIDE DEF k
  <2>2. at[0] = SockAt(<<>>, w)
    BY <1>0, <2>1, SockReaderAt, Zenon
  <2> QED
    BY <1>1, <2>1, <2>2
<1>2. ASSUME NEW a, SockCarried(a), ms = <<a>>, w = SockPackGet(a)
      PROVE  at[Len(k)] = SockAt(ms, <<>>)
  <2>1. Len(k) = 1 /\ k[1] = a.kind
    BY <1>2 DEF SockKinds
  <2> HIDE DEF k
  <2>2. at[0] = SockAt(<<>>, w) /\ at[1] = SockReadStep(at[0], k[1])
    BY <1>0, <2>1, SockReaderAt, Zenon
  <2>3. SockPackGet(a) \in SockOctets
    BY <1>2 DEF SockCarried
  <2>4. w = SockJoin(SockPackGet(a), <<>>) /\ <<>> \in SockOctets
    BY <1>2, <2>3, SockJoinEmpty
  <2>5. at[1] = SockAt(Append(<<>>, a), <<>>)
    <3>1. SockReadStep(SockAt(<<>>, SockJoin(SockPackGet(a), <<>>)), a.kind) = SockAt(Append(<<>>, a), <<>>)
      BY <1>2, <2>4, SockReadNext
    <3> QED
      BY <2>1, <2>2, <2>4, <3>1, Zenon
  <2>6. Append(<<>>, a) = <<a>>
    BY SockAppended
  <2> QED
    BY <1>2, <2>1, <2>5, <2>6
<1>3. ASSUME NEW a, NEW b, SockCarried(a), SockCarried(b), ms = <<a, b>>,
             w = SockJoin(SockPackGet(a), SockPackGet(b))
      PROVE  at[Len(k)] = SockAt(ms, <<>>)
  <2>1. Len(k) = 2 /\ k[1] = a.kind /\ k[2] = b.kind
    BY <1>3 DEF SockKinds
  <2> HIDE DEF k
  <2>2. at[0] = SockAt(<<>>, w) /\ at[1] = SockReadStep(at[0], k[1])
        /\ at[2] = SockReadStep(at[1], k[2])
    BY <1>0, <2>1, SockReaderAt, Zenon
  <2>3. SockPackGet(a) \in SockOctets /\ SockPackGet(b) \in SockOctets
    BY <1>3 DEF SockCarried
  <2>4. SockPackGet(b) = SockJoin(SockPackGet(b), <<>>) /\ <<>> \in SockOctets
    BY <2>3, SockJoinEmpty
  <2>5. at[1] = SockAt(Append(<<>>, a), SockPackGet(b))
    <3>1. SockReadStep(SockAt(<<>>, SockJoin(SockPackGet(a), SockPackGet(b))), a.kind)
            = SockAt(Append(<<>>, a), SockPackGet(b))
      BY <1>3, <2>3, SockReadNext
    <3> QED
      BY <1>3, <2>1, <2>2, <3>1, Zenon
  <2>6. at[2] = SockAt(Append(Append(<<>>, a), b), <<>>)
    <3>1. SockReadStep(SockAt(Append(<<>>, a), SockJoin(SockPackGet(b), <<>>)), b.kind)
            = SockAt(Append(Append(<<>>, a), b), <<>>)
      BY <1>3, <2>4, SockReadNext
    <3> QED
      BY <1>3, <2>1, <2>2, <2>4, <2>5, <3>1, Zenon
  <2>7. Append(Append(<<>>, a), b) = <<a, b>>
    BY SockAppended, Zenon
  <2> QED
    BY <1>3, <2>1, <2>6, <2>7
<1>4. ASSUME NEW a, NEW b, NEW c, SockCarried(a), SockCarried(b), SockCarried(c), ms = <<a, b, c>>,
             w = SockJoin(SockJoin(SockPackGet(a), SockPackGet(b)), SockPackGet(c))
      PROVE  at[Len(k)] = SockAt(ms, <<>>)
  <2>1. Len(k) = 3 /\ k[1] = a.kind /\ k[2] = b.kind /\ k[3] = c.kind
    BY <1>4 DEF SockKinds
  <2> HIDE DEF k
  <2>2. at[0] = SockAt(<<>>, w) /\ at[1] = SockReadStep(at[0], k[1])
        /\ at[2] = SockReadStep(at[1], k[2]) /\ at[3] = SockReadStep(at[2], k[3])
    BY <1>0, <2>1, SockReaderAt, Zenon
  <2>3. SockPackGet(a) \in SockOctets /\ SockPackGet(b) \in SockOctets /\ SockPackGet(c) \in SockOctets
    BY <1>4 DEF SockCarried
  <2>4. SockPackGet(c) = SockJoin(SockPackGet(c), <<>>) /\ <<>> \in SockOctets
    BY <2>3, SockJoinEmpty
  <2>5. /\ w = SockJoin(SockPackGet(a), SockJoin(SockPackGet(b), SockPackGet(c)))
        /\ SockJoin(SockPackGet(b), SockPackGet(c)) \in SockOctets
    BY <1>4, <2>3, SockJoinAssoc, SockJoinIs
  <2>6. at[1] = SockAt(Append(<<>>, a), SockJoin(SockPackGet(b), SockPackGet(c)))
    <3>1. SockReadStep(SockAt(<<>>, SockJoin(SockPackGet(a), SockJoin(SockPackGet(b), SockPackGet(c)))), a.kind)
            = SockAt(Append(<<>>, a), SockJoin(SockPackGet(b), SockPackGet(c)))
      BY <1>4, <2>5, SockReadNext
    <3> QED
      BY <1>4, <2>1, <2>2, <2>5, <3>1, Zenon
  <2>7. at[2] = SockAt(Append(Append(<<>>, a), b), SockPackGet(c))
    <3>1. SockReadStep(SockAt(Append(<<>>, a), SockJoin(SockPackGet(b), SockPackGet(c))), b.kind)
            = SockAt(Append(Append(<<>>, a), b), SockPackGet(c))
      BY <1>4, <2>3, SockReadNext
    <3> QED
      BY <1>4, <2>1, <2>2, <2>6, <3>1, Zenon
  <2>8. at[3] = SockAt(Append(Append(Append(<<>>, a), b), c), <<>>)
    <3>1. SockReadStep(SockAt(Append(Append(<<>>, a), b), SockJoin(SockPackGet(c), <<>>)), c.kind)
            = SockAt(Append(Append(Append(<<>>, a), b), c), <<>>)
      BY <1>4, <2>4, SockReadNext
    <3> QED
      BY <1>4, <2>1, <2>2, <2>4, <2>7, <3>1, Zenon
  <2>9. Append(Append(Append(<<>>, a), b), c) = <<a, b, c>>
    <3>1. Append(<<>>, a) = <<a>> /\ Append(<<a>>, b) = <<a, b>> /\ Append(<<a, b>>, c) = <<a, b, c>>
      BY SockAppended
    <3> QED
      BY <3>1, Zenon
  <2> QED
    BY <1>4, <2>1, <2>8, <2>9
<1> QED
  BY <1>1, <1>2, <1>3, <1>4, Zenon DEF SockStream

\* One packet more.
LEMMA SockStreamSent ==
  ASSUME NEW ms, NEW w, SockStream(ms, w), Len(ms) < 3, NEW q, SockCarried(q)
  PROVE  SockStream(Append(ms, q), SockJoin(w, SockPackGet(q)))
<1>1. SockPackGet(q) \in SockOctets
  BY DEF SockCarried
<1>2. CASE ms = <<>> /\ w = <<>>
  <2>1. SockJoin(w, SockPackGet(q)) = SockPackGet(q)
    BY <1>1, <1>2, SockJoinEmpty
  <2>2. Append(ms, q) = <<q>>
    BY <1>2
  <2> QED
    BY <2>1, <2>2, Zenon DEF SockStream
<1>3. ASSUME NEW a, SockCarried(a), ms = <<a>>, w = SockPackGet(a)
      PROVE  SockStream(Append(ms, q), SockJoin(w, SockPackGet(q)))
  <2>1. Append(ms, q) = <<a, q>>
    BY <1>3, SockAppended, Zenon
  <2> QED
    BY <1>3, <2>1, Zenon DEF SockStream
<1>4. ASSUME NEW a, NEW b, SockCarried(a), SockCarried(b), ms = <<a, b>>,
             w = SockJoin(SockPackGet(a), SockPackGet(b))
      PROVE  SockStream(Append(ms, q), SockJoin(w, SockPackGet(q)))
  <2>1. Append(ms, q) = <<a, b, q>>
    BY <1>4, SockAppended, Zenon
  <2> QED
    BY <1>4, <2>1, Zenon DEF SockStream
<1>5. ASSUME NEW a, NEW b, NEW c, ms = <<a, b, c>> PROVE FALSE
  <2>1. Len(ms) = 3
    BY <1>5
  <2> QED
    BY <2>1
<1> QED
  BY <1>2, <1>3, <1>4, <1>5, Zenon DEF SockStream

-----------------------------------------------------------------------------
(* The stream of a handshake *)

\* No more than one, two or three requests.
SockOf1(ms) == ms = <<>> \/ \E a : ms = <<a>>
SockOf2(ms) == SockOf1(ms) \/ \E a, b : ms = <<a, b>>
SockOf3(ms) == SockOf2(ms) \/ \E a, b, c : ms = <<a, b, c>>

SockAllPlain(ms) == \A i \in DOMAIN ms : SockPlain(ms[i])

LEMMA SockOneMore ==
  ASSUME NEW ms, NEW q
  PROVE  /\ ms = <<>> => SockOf1(Append(ms, q))
         /\ SockOf1(ms) => SockOf2(Append(ms, q))
         /\ SockOf2(ms) => SockOf3(Append(ms, q))
<1>1. ms = <<>> => SockOf1(Append(ms, q))
  BY SockAppended, Zenon DEF SockOf1
<1>2. ASSUME NEW a, ms = <<a>> PROVE SockOf2(Append(ms, q))
  <2>1. Append(<<a>>, q) = <<a, q>>
    BY SockAppended, Zenon
  <2>2. Append(ms, q) = <<a, q>>
    BY <1>2, <2>1
  <2> QED
    BY <2>2 DEF SockOf2
<1>3. ASSUME NEW a, NEW b, ms = <<a, b>> PROVE SockOf3(Append(ms, q))
  <2>1. Append(<<a, b>>, q) = <<a, b, q>>
    BY SockAppended, Zenon
  <2>2. Append(ms, q) = <<a, b, q>>
    BY <1>3, <2>1
  <2> QED
    BY <2>2 DEF SockOf3
<1>4. SockOf1(ms) => SockOf2(Append(ms, q))
  BY <1>1, <1>2, Zenon DEF SockOf1, SockOf2
<1>5. SockOf2(ms) => SockOf3(Append(ms, q))
  BY <1>3, <1>4, Zenon DEF SockOf2, SockOf3
<1> QED
  BY <1>1, <1>4, <1>5

LEMMA SockPlainBefore ==
  ASSUME NEW ms, NEW q, SockOf2(ms), SockAllPlain(Append(ms, q))
  PROVE  SockAllPlain(ms) /\ SockPlain(q)
<1>1. CASE ms = <<>>
  <2>1. Append(ms, q) = <<q>>
    BY <1>1, SockAppended, Zenon
  <2>2. SockAllPlain(<<q>>)
    BY <2>1
  <2> QED
    BY <1>1, <2>2 DEF SockAllPlain
<1>2. ASSUME NEW a, ms = <<a>> PROVE SockAllPlain(ms) /\ SockPlain(q)
  <2>1. Append(ms, q) = <<a, q>>
    BY <1>2, SockAppended, Zenon
  <2>2. SockAllPlain(<<a, q>>)
    BY <2>1
  <2>3. SockPlain(a) /\ SockPlain(q)
    BY <2>2 DEF SockAllPlain
  <2> QED
    BY <1>2, <2>3 DEF SockAllPlain
<1>3. ASSUME NEW a, NEW b, ms = <<a, b>> PROVE SockAllPlain(ms) /\ SockPlain(q)
  <2>1. Append(ms, q) = <<a, b, q>>
    BY <1>3, SockAppended, Zenon
  <2>2. SockAllPlain(<<a, b, q>>)
    BY <2>1
  <2>3. SockPlain(a) /\ SockPlain(b) /\ SockPlain(q)
    BY <2>2 DEF SockAllPlain
  <2> QED
    BY <1>3, <2>3 DEF SockAllPlain
<1> QED
  BY <1>1, <1>2, <1>3, Zenon DEF SockOf1, SockOf2

\* While no send failed the proxy has the bytes of the requests that were meant.
SockSent == sockUp /\ SockAllPlain(sockMeant) => SockStream(sockMeant, sockWire)

LEMMA SockSendKeeps ==
  ASSUME NEW q, NEW next, SockSend(q, next), SockOf2(sockMeant), SockSent,
         SockPlain(q) => SockCarried(q)
  PROVE  SockSent'
<1> SUFFICES ASSUME sockUp', SockAllPlain(sockMeant') PROVE SockStream(sockMeant', sockWire')
  BY DEF SockSent
<1>1. sockMeant' = Append(sockMeant, q)
  BY DEF SockSend
<1>2. SockAllPlain(sockMeant) /\ SockPlain(q)
  BY <1>1, SockPlainBefore, Zenon
<1>3. SockCarried(q) /\ SockFits(q)
  BY <1>2 DEF SockCarried
<1>4. sockWire' = SockJoin(sockWire, SockPackGet(q)) /\ sockUp
  BY <1>3 DEF SockSend, SockJoin
<1>5. SockStream(sockMeant, sockWire)
  BY <1>2, <1>4 DEF SockSent
<1>6. Len(sockMeant) < 3
  <2>1. sockMeant = <<>> => Len(sockMeant) < 3
    BY SMT
  <2>2. \A a : sockMeant = <<a>> => Len(sockMeant) < 3
    BY SMT
  <2>3. \A a, b : sockMeant = <<a, b>> => Len(sockMeant) < 3
    BY SMT
  <2> QED
    BY <2>1, <2>2, <2>3, Zenon DEF SockOf1, SockOf2
<1> QED
  BY <1>1, <1>3, <1>4, <1>5, <1>6, SockStreamSent, Zenon

SockDest == sessDest \in SockOctets /\ Len(sessDest) = 4

\* How many requests were made by then.
SockCount ==
  /\ sessPc \in {"connect", "s4req", "s5auth"} => sockMeant = <<>> /\ sockWire = <<>>
  /\ sessPc \in {"s4rep", "s5authrep", "s5pass"} => SockOf1(sockMeant)
  /\ sessPc \in {"s5passrep", "s5req"} => SockOf2(sockMeant)

SockInv == SockDest /\ SockCount /\ SockSent

LEMMA SockOctetIs ==
  ASSUME NEW n \in Nat
  PROVE  /\ n < 256 => n \in SockOctet
         /\ n % 256 \in SockOctet
BY SMT DEF SockOctet

LEMMA SockStringIs ==
  ASSUME NEW s \in SessString
  PROVE  s \in SockOctets
BY SMT DEF SessString, SockOctets, SockOctet

LEMMA SockDestIs ==
  ASSUME NEW h \in DOMAIN SessAddr
  PROVE  SessAddr[h] \in SockOctets /\ Len(SessAddr[h]) = 4
<1>1. SessAddr[h] \in Seq(0 .. 255) /\ Len(SessAddr[h]) = 4
  BY SessAssumption, Zenon
<1> QED
  BY <1>1, Zenon DEF SockOctets, SockOctet

LEMMA SockNoneIs == INADDR_NONE \in SockOctets /\ Len(INADDR_NONE) = 4
BY SMT DEF INADDR_NONE, SockOctets, SockOctet

\* The requests of a handshake, when they are plain, are carried.
LEMMA Sock4ReqIs ==
  ASSUME SessInv, SockDest, SockPlain(Sock4Req(sessProxy.port, sessDest, sessProxy.user))
  PROVE  SockCarried(Sock4Req(sessProxy.port, sessDest, sessProxy.user))
<1>1. sessProxy.port \in Nat /\ sessProxy.user \in SessString
  BY SessAssumption DEF SessInv
<1>2. SockPort16(sessProxy.port)
  BY <1>1 DEF SockPlain, Sock4Req, SockPort16
<1> QED
  BY <1>1, <1>2, Sock4Carried DEF SockDest

LEMMA SockPassReqIs ==
  ASSUME SessInv, SockPlain(Sock5PassReq(sessProxy.user, sessProxy.pass))
  PROVE  SockCarried(Sock5PassReq(sessProxy.user, sessProxy.pass))
<1>1. sessProxy.user \in SessString /\ sessProxy.pass \in SessString
  BY SessAssumption DEF SessInv
<1>2. sessProxy.user \in SockOctets /\ sessProxy.pass \in SockOctets
  BY <1>1, SockStringIs, Zenon
<1>3. Len(sessProxy.user) \in SockOctet /\ Len(sessProxy.user) = Len(sessProxy.pass)
  <2>1. Len(sessProxy.user) \in Nat
    BY <1>2, SockLen, Zenon
  <2>2. Len(sessProxy.user) < 256 /\ Len(sessProxy.user) = Len(sessProxy.pass)
    BY DEF SockPlain, Sock5PassReq
  <2> QED
    BY <2>1, <2>2, SockOctetIs, Zenon
<1> QED
  BY <1>2, <1>3, SockPassCarried, Zenon

LEMMA SockAuthReqIs == SockCarried(Sock5AuthReq(<<SOCKS_AUTH_NONE, SOCKS_AUTH_PASSWD>>))
<1>1. <<SOCKS_AUTH_NONE, SOCKS_AUTH_PASSWD>> \in SockOctets
      /\ Len(<<SOCKS_AUTH_NONE, SOCKS_AUTH_PASSWD>>) \in SockOctet
  BY SMT DEF SOCKS_AUTH_NONE, SOCKS_AUTH_PASSWD, SockOctets, SockOctet
<1> QED
  BY <1>1, SockAuthCarried, Zenon

LEMMA Sock5AddrIs ==
  ASSUME SessInv, SockDest, SockPlain(Sock5Req(SOCKS_ADDR_IPV4ADDR, sessProxy.port, sessDest))
  PROVE  SockCarried(Sock5Req(SOCKS_ADDR_IPV4ADDR, sessProxy.port, sessDest))
<1>1. sessProxy.port \in Nat
  BY SessAssumption DEF SessInv
<1>2. SockPort16(sessProxy.port)
  BY <1>1 DEF SockPlain, Sock5Req, SockPort16
<1>3. SockAddrTold(SOCKS_ADDR_IPV4ADDR, sessDest) /\ sessDest \in SockOctets /\ Len(sessDest) > 0
  BY SMT DEF SockAddrTold, SockDest
<1> QED
  BY <1>2, <1>3, Sock5Carried, Zenon

SockNamed(h) == SockJoin(<<SockLen8(h)>>, h)

LEMMA Sock5NameIs ==
  ASSUME SessInv, SockPlain(Sock5Req(SOCKS_ADDR_HOSTNAME, sessProxy.port, SockNamed(sessUri.host)))
  PROVE  SockCarried(Sock5Req(SOCKS_ADDR_HOSTNAME, sessProxy.port, SockNamed(sessUri.host)))
<1> DEFINE h == sessUri.host
           z == <<SockLen8(h)>>
           a == SockJoin(z, h)
<1>1. sessProxy.port \in Nat /\ h \in SessString
  BY SessAssumption DEF SessInv, SessUriSet
<1>2. h \in SockOctets /\ Len(h) \in Nat
  BY <1>1, SockStringIs, SockLen, Zenon
<1>3. SockNamed(sessUri.host) = a
  BY DEF SockNamed
<1>4. sessProxy.port < 65536 /\ Len(a) <= 256
  BY <1>3 DEF SockPlain, Sock5Req
<1>5. SockPort16(sessProxy.port)
  BY <1>1, <1>4 DEF SockPort16
<1>6. SockLen8(h) \in SockOctet
  BY <1>2, SockOctetIs, Zenon DEF SockLen8
<1>7. z \in SockOctets /\ Len(z) = 1 /\ SockByte(z, 1) = SockLen8(h)
  BY <1>6, SockOne, Zenon
<1> HIDE DEF z, a
<1>8. a \in SockOctets /\ Len(a) = 1 + Len(h) /\ SockByte(a, 1) = SockLen8(h)
  <2>1. a \in SockOctets /\ Len(a) = Len(z) + Len(h) /\ \A i \in 1 .. Len(z) : SockByte(a, i) = SockByte(z, i)
    BY <1>2, <1>7, SockJoinIs, Zenon DEF a
  <2>2. 1 \in 1 .. Len(z)
    BY <1>7, SMT
  <2> QED
    BY <1>7, <2>1, <2>2, Zenon
<1>9. Len(h) \in SockOctet
  <2> DEFINE n == Len(h)
             m == Len(a)
  <2>1. n \in Nat /\ m <= 256 /\ m = 1 + n
    BY <1>2, <1>4, <1>8
  <2> HIDE DEF n, m
  <2>2. n < 256
    BY <2>1, SMT
  <2> QED
    BY <2>1, <2>2, SockOctetIs, Zenon DEF n
<1>10. SockLen8(h) = Len(h)
  BY <1>9, SockLen8Is, Zenon
<1>11. SockAddrTold(SOCKS_ADDR_HOSTNAME, a)
  BY <1>8, <1>10, Zenon DEF SockAddrTold
<1>12. Len(a) > 0
  BY <1>2, <1>8, SMT
<1> QED
  BY <1>3, <1>5, <1>8, <1>11, <1>12, Sock5Carried, Zenon

LEMMA SockInvHolds == SessSpec => []SockInv
<1>1. SessInit => SockInv
  <2> SUFFICES ASSUME SessInit PROVE SockInv
    OBVIOUS
  <2>1. sessPc = "idle" /\ sockMeant = <<>> /\ sockWire = <<>> /\ sessDest = INADDR_NONE
    BY DEF SessInit
  <2>2. SockDest
    BY <2>1, SockNoneIs, Zenon DEF SockDest
  <2>3. SockSent
    BY <2>1, Zenon DEF SockSent, SockStream
  <2>4. SockCount
    BY <2>1 DEF SockCount
  <2> QED
    BY <2>2, <2>3, <2>4 DEF SockInv
<1>2. SessInv /\ SockInv /\ [SessNext]_sessVars => SockInv'
  <2> SUFFICES ASSUME SessInv, SockInv, [SessNext]_sessVars PROVE SockInv'
    OBVIOUS
  <2>0. SockDest /\ SockCount /\ SockSent
    BY DEF SockInv
  <2>1. ASSUME NEW x \in SessUrls, SessOpen(x) PROVE SockInv'
    <3>1. /\ sessPc' = "connect" /\ sessDest' = INADDR_NONE
          /\ sockMeant' = <<>> /\ sockWire' = <<>>
      BY <2>1 DEF SessOpen
    <3>2. SockDest'
      BY <3>1, SockNoneIs, Zenon DEF SockDest
    <3>3. SockSent'
      BY <3>1, Zenon DEF SockSent, SockStream
    <3>4. SockCount'
      BY <3>1 DEF SockCount
    <3> QED
      BY <3>2, <3>3, <3>4 DEF SockInv
  <2> DEFINE Quiet == UNCHANGED <<sockMeant, sockWire, sockUp>>
  <2>2. Quiet /\ SockDest' /\ SockCount' => SockInv'
    BY <2>0 DEF SockSent, SockInv
  <2>3. UNCHANGED sessDest => SockDest'
    BY <2>0 DEF SockDest
  <2>4. ASSUME NEW q, NEW next, SockSend(q, next), SockOf2(sockMeant), SockCount',
               SockPlain(q) => SockCarried(q)
        PROVE  SockInv'
    <3>1. UNCHANGED sessDest
      BY <2>4 DEF SockSend
    <3>2. SockSent'
      BY <2>0, <2>4, SockSendKeeps, Zenon
    <3> QED
      BY <2>3, <2>4, <3>1, <3>2 DEF SockInv
  <2>5. CASE SessConnect
    <3>1. Quiet /\ UNCHANGED sessDest /\ sessPc' \in {"idle", "request"}
      BY <2>5 DEF SessConnect, SessConnects, SessFails
    <3> QED
      BY <2>2, <2>3, <3>1 DEF SockCount
  <2>6. CASE SessConnectProxy
    <3>1. Quiet /\ sessPc = "connect" /\ sessPc' \in {"idle", "request", "s4req", "s5auth"}
      BY <2>6 DEF SessConnectProxy, SessConnects, SessFails
    <3>2. SockCount'
      BY <2>0, <3>1 DEF SockCount
    <3>3. UNCHANGED sessDest \/ sessDest' = INADDR_NONE
          \/ \E h \in DOMAIN SessAddr : sessDest' = SessAddr[h]
      BY <2>6 DEF SessConnectProxy
    <3>4. SockDest'
      BY <2>3, <3>3, SockNoneIs, SockDestIs, Zenon DEF SockDest
    <3> QED
      BY <2>2, <3>1, <3>2, <3>4
  <2>7. CASE SessNoProxyCase \/ SessRequest \/ SessEnds
    <3>1. Quiet /\ UNCHANGED sessDest /\ sessPc' \in {"idle", "request", "reply"}
      BY <2>7 DEF SessNoProxyCase, SessRequest, SessEnds
    <3> QED
      BY <2>2, <2>3, <3>1 DEF SockCount
  <2>8. CASE Recv4Rep \/ Recv5AuthRep \/ Recv5PassRep \/ Recv5Rep
    <3>1. Quiet /\ UNCHANGED sessDest
      BY <2>8 DEF Recv4Rep, Recv5AuthRep, Recv5PassRep, Recv5Rep, SockReceived
    <3>2. \/ sessPc' \in {"request", "undefined"}
          \/ sessPc = "s5authrep" /\ sessPc' \in {"s5pass", "s5req"}
          \/ sessPc = "s5passrep" /\ sessPc' = "s5req"
      BY <2>8 DEF Recv4Rep, Recv5AuthRep, Recv5PassRep, Recv5Rep, SockReceived
    <3>3. SockCount'
      BY <2>0, <3>1, <3>2 DEF SockCount, SockOf2
    <3> QED
      BY <2>2, <2>3, <3>1, <3>3
  <2>9. CASE Send4Req
    <3> DEFINE q == Sock4Req(sessProxy.port, sessDest, sessProxy.user)
    <3>1. sessPc = "s4req" /\ SockSend(q, "s4rep")
      BY <2>9 DEF Send4Req
    <3>2. SockPlain(q) => SockCarried(q)
      BY <2>0, Sock4ReqIs
    <3> HIDE DEF q
    <3>3. sockMeant = <<>> /\ sessPc' = "s4rep" /\ sockMeant' = Append(sockMeant, q)
      BY <2>0, <3>1 DEF SockCount, SockSend
    <3>4. SockCount' /\ SockOf2(sockMeant)
      BY <3>3, SockOneMore DEF SockCount, SockOf1, SockOf2
    <3> QED
      BY <2>4, <3>1, <3>2, <3>4
  <2>10. CASE Send5AuthReq
    <3> DEFINE q == Sock5AuthReq(<<SOCKS_AUTH_NONE, SOCKS_AUTH_PASSWD>>)
    <3>1. sessPc = "s5auth" /\ SockSend(q, "s5authrep")
      BY <2>10 DEF Send5AuthReq
    <3>2. SockPlain(q) => SockCarried(q)
      BY SockAuthReqIs
    <3> HIDE DEF q
    <3>3. sockMeant = <<>> /\ sessPc' = "s5authrep" /\ sockMeant' = Append(sockMeant, q)
      BY <2>0, <3>1 DEF SockCount, SockSend
    <3>4. SockCount' /\ SockOf2(sockMeant)
      BY <3>3, SockOneMore DEF SockCount, SockOf1, SockOf2
    <3> QED
      BY <2>4, <3>1, <3>2, <3>4
  <2>11. CASE Send5PassReq
    <3> DEFINE q == Sock5PassReq(sessProxy.user, sessProxy.pass)
    <3>1. sessPc = "s5pass" /\ SockSend(q, "s5passrep")
      BY <2>11 DEF Send5PassReq
    <3>2. SockPlain(q) => SockCarried(q)
      BY SockPassReqIs
    <3> HIDE DEF q
    <3>3. SockOf1(sockMeant) /\ sessPc' = "s5passrep" /\ sockMeant' = Append(sockMeant, q)
      BY <2>0, <3>1 DEF SockCount, SockSend
    <3>4. SockCount' /\ SockOf2(sockMeant)
      BY <3>3, SockOneMore DEF SockCount, SockOf2
    <3> QED
      BY <2>4, <3>1, <3>2, <3>4
  <2>12. CASE Send5Req
    <3> DEFINE p == Sock5Req(SOCKS_ADDR_IPV4ADDR, sessProxy.port, sessDest)
               n == Sock5Req(SOCKS_ADDR_HOSTNAME, sessProxy.port, SockNamed(sessUri.host))
               q == IF sessDest # INADDR_NONE THEN p ELSE n
    <3>1. sessPc = "s5req" /\ SockSend(q, "s5rep")
      BY <2>12 DEF Send5Req, SockNamed, SockJoin
    <3>2. (SockPlain(p) => SockCarried(p)) /\ (SockPlain(n) => SockCarried(n))
      BY <2>0, Sock5AddrIs, Sock5NameIs
    <3>3. SockPlain(q) => SockCarried(q)
      BY <3>2
    <3> HIDE DEF q
    <3>4. SockOf2(sockMeant) /\ sessPc' = "s5rep"
      BY <2>0, <3>1 DEF SockCount, SockSend
    <3>5. SockCount'
      BY <3>4 DEF SockCount
    <3> QED
      BY <2>4, <3>1, <3>3, <3>4, <3>5
  <2>13. CASE UNCHANGED sessVars
    <3>1. Quiet /\ UNCHANGED <<sessDest, sessPc>>
      BY <2>13 DEF sessVars
    <3>2. SockCount'
      BY <2>0, <3>1 DEF SockCount
    <3> QED
      BY <2>2, <2>3, <3>1, <3>2
  <2> QED
    BY <2>1, <2>5, <2>6, <2>7, <2>8, <2>9, <2>10, <2>11, <2>12, <2>13 DEF SessNext
<1> QED
  BY <1>1, <1>2, SessInvHolds, PTL DEF SessSpec

\* While no send failed and the requests are plain, a SOCKS proxy reads from the bytes it was
\* sent the requests that were meant, in order and with nothing left over (SockProxy.cpp).
THEOREM SockIsFramed == SessSpec => []SockFramed
<1>1. SockInv => SockFramed
  <2> SUFFICES ASSUME SockInv, sockUp, \A i \in DOMAIN sockMeant : SockPlain(sockMeant[i])
               PROVE  SockReads([i \in DOMAIN sockMeant |-> sockMeant[i].kind], sockWire)
                        = [read |-> sockMeant, rest |-> <<>>]
    BY DEF SockFramed
  <2>1. SockStream(sockMeant, sockWire)
    BY DEF SockInv, SockSent, SockAllPlain
  <2>2. SockReads(SockKinds(sockMeant), sockWire) = [read |-> sockMeant, rest |-> <<>>]
    BY <2>1, SockStreamRead, Zenon
  <2> QED
    BY <2>2, Zenon DEF SockKinds
<1> QED
  BY <1>1, SockInvHolds, PTL

-----------------------------------------------------------------------------
(* The types of a session *)

LEMMA SockBytesOctets ==
  ASSUME NEW s \in SockOctets, NEW n \in Nat
  PROVE  SockBytes(s, n) \in SockOctets
<1>1. Len(s) \in Nat
  BY SockLen
<1>2. 0 \in SockOctet
  BY DEF SockOctet
<1>3. ASSUME NEW i \in 1 .. n PROVE SockByte(s, i) \in SockOctet
  BY <1>1, <1>2 DEF SockByte, SockOctets
<1>4. SockBytes(s, n) = [i \in 1 .. n |-> SockByte(s, i)]
  BY DEF SockBytes
<1> QED
  BY <1>3, <1>4 DEF SockOctets

LEMMA SockPortOctets ==
  ASSUME NEW p \in Nat
  PROVE  SockPort(p) \in SockOctets
<1>1. (p % 65536) \div 256 \in SockOctet /\ p % 256 \in SockOctet
  BY SMT DEF SockOctet
<1>2. <<(p % 65536) \div 256, p % 256>> \in SockOctets
  BY <1>1, SockPair
<1> QED
  BY <1>2 DEF SockPort

\* Any packet is made of bytes, also one that does not keep its fields.
LEMMA SockPacks4 ==
  ASSUME NEW p \in Nat, NEW a \in SockOctets, NEW u \in SockOctets
  PROVE  SockPackGet(Sock4Req(p, a, u)) \in SockOctets
<1> DEFINE q == Sock4Req(p, a, u)
<1>1. <<SOCKS_VERS_4, SOCKS_CMDS_CONNECT>> \in SockOctets /\ <<0>> \in SockOctets
  <2>1. SOCKS_VERS_4 \in SockOctet /\ SOCKS_CMDS_CONNECT \in SockOctet /\ 0 \in SockOctet
    BY SMT DEF SockOctet, SOCKS_VERS_4, SOCKS_CMDS_CONNECT
  <2> QED
    BY <2>1, SockPair, SockOne
<1>2. SockPackGet(q)
        = SockJoin(SockJoin(SockJoin(SockJoin(<<SOCKS_VERS_4, SOCKS_CMDS_CONNECT>>, SockPort(p)), a), u), <<0>>)
  BY DEF Sock4Req, SockPackGet, SockPack4, SockJoin
<1> DEFINE x == SockJoin(<<SOCKS_VERS_4, SOCKS_CMDS_CONNECT>>, SockPort(p))
           y == SockJoin(x, a)
           z == SockJoin(y, u)
<1>3. x \in SockOctets
  BY <1>1, SockJoinIs, SockPortOctets, Zenon
<1> HIDE DEF x
<1>4. y \in SockOctets
  BY <1>3, SockJoinIs, Zenon
<1> HIDE DEF y
<1>5. z \in SockOctets
  BY <1>4, SockJoinIs, Zenon
<1>6. SockPackGet(q) = SockJoin(z, <<0>>)
  BY <1>2 DEF x, y
<1> HIDE DEF z
<1> QED
  BY <1>1, <1>5, <1>6, SockJoinIs, Zenon

LEMMA SockPacks5 ==
  ASSUME NEW t \in {SOCKS_ADDR_IPV4ADDR, SOCKS_ADDR_HOSTNAME}, NEW p \in Nat, NEW a \in SockOctets
  PROVE  SockPackGet(Sock5Req(t, p, a)) \in SockOctets
<1> DEFINE q == Sock5Req(t, p, a)
           n == SockAddrLen(q)
<1>1. q.kind = "5REQ" /\ q.type = t /\ q.port = p /\ q.addr = a
  BY DEF Sock5Req
<1>2. SockByte(a, 1) \in SockOctet /\ Len(a) \in Nat
  <2>1. Len(a) \in Nat /\ (1 <= Len(a) => a[1] \in SockOctet) /\ 0 \in SockOctet
    <3>1. Len(a) \in Nat /\ 0 \in SockOctet
      BY SockLen, SMT DEF SockOctet
    <3>2. 1 <= Len(a) => 1 \in 1 .. Len(a)
      BY <3>1
    <3> QED
      BY <3>1, <3>2, ElementOfSeq, Zenon DEF SockOctets
  <2> QED
    BY <2>1 DEF SockByte
<1>3. n \in Nat
  <2>1. \A b \in SockOctet : 1 + b \in Nat
    BY SMT DEF SockOctet
  <2>2. n \in {4, 16, 1 + SockByte(a, 1), Len(a)}
    BY <1>1 DEF SockAddrLen
  <2> HIDE DEF n, q
  <2> QED
    BY <1>2, <2>1, <2>2
<1>4. <<SOCKS_VERS_5, SOCKS_CMDS_CONNECT, 0, t>> \in SockOctets
  BY SMT DEF SockOctets, SockOctet, SOCKS_VERS_5, SOCKS_CMDS_CONNECT, SOCKS_ADDR_IPV4ADDR, SOCKS_ADDR_HOSTNAME
<1>5. SockPackGet(q)
        = SockJoin(SockJoin(<<SOCKS_VERS_5, SOCKS_CMDS_CONNECT, 0, t>>, SockBytes(a, n)), SockPort(p))
  BY <1>1 DEF SockPackGet, SockPack5, SockJoin
<1> HIDE DEF n, q
<1>6. SockPackGet(q) \in SockOctets
  <2>1. SockPort(p) \in SockOctets /\ SockBytes(a, n) \in SockOctets
    BY <1>3, SockPortOctets, SockBytesOctets, Zenon
  <2>2. SockJoin(<<SOCKS_VERS_5, SOCKS_CMDS_CONNECT, 0, t>>, SockBytes(a, n)) \in SockOctets
    BY <1>4, <2>1, SockJoinIs, Zenon
  <2> QED
    BY <1>5, <2>1, <2>2, SockJoinIs, Zenon
<1> QED
  BY <1>6 DEF q

LEMMA SockPacksPass ==
  ASSUME NEW u \in SockOctets, NEW p \in SockOctets
  PROVE  SockPackGet(Sock5PassReq(u, p)) \in SockOctets
<1> DEFINE q == Sock5PassReq(u, p)
           n == SockLen8(u)
<1>1. q.kind = "5PASSREQ" /\ q.user = u /\ q.pass = p
  BY DEF Sock5PassReq
<1>2. Len(u) \in Nat /\ Len(p) \in Nat
  BY SockLen
<1>3. n \in SockOctet /\ SockLen8(p) \in SockOctet
  BY <1>2, SockOctetIs, Zenon DEF SockLen8
<1>4. n \in Nat /\ 1 \in SockOctet
  BY <1>3, SMT DEF SockOctet
<1>5. <<1, n>> \in SockOctets /\ <<SockLen8(p)>> \in SockOctets
  BY <1>3, <1>4, SockPair, SockOne, Zenon
<1>6. SockPackGet(q)
        = SockJoin(SockJoin(SockJoin(<<1, n>>, SockBytes(u, n)), <<SockLen8(p)>>), SockBytes(p, n))
  BY <1>1 DEF SockPackGet, SockPackPass, SockJoin
<1> HIDE DEF n, q
<1>7. SockBytes(u, n) \in SockOctets /\ SockBytes(p, n) \in SockOctets
  BY <1>4, SockBytesOctets, Zenon
<1>8. SockJoin(<<1, n>>, SockBytes(u, n)) \in SockOctets
  BY <1>5, <1>7, SockJoinIs, Zenon
<1>9. SockJoin(SockJoin(<<1, n>>, SockBytes(u, n)), <<SockLen8(p)>>) \in SockOctets
  BY <1>5, <1>8, SockJoinIs, Zenon
<1>10. SockPackGet(q) \in SockOctets
  BY <1>6, <1>7, <1>9, SockJoinIs, Zenon
<1> QED
  BY <1>10 DEF q

SessPlaces ==
  {"idle", "connect", "s4req", "s4rep", "s5auth", "s5authrep", "s5pass", "s5passrep",
   "s5req", "s5rep", "request", "reply", "undefined"}

SessTypes ==
  /\ sessPc \in SessPlaces /\ sessSeen \in Seq(SessUrls) /\ Len(sessSeen) <= SessMax
  /\ sessConn.port \in Nat /\ sessReq.target \in {"none", "path", "url"}
  /\ sockWire \in SockOctets /\ SockOf3(sockMeant) /\ sockUp \in BOOLEAN

\* A request that is sent, or is meant to be.
LEMMA SessSendTypes ==
  ASSUME SessTypes, NEW q, NEW next \in SessPlaces, SockSend(q, next), SockOf2(sockMeant),
         SockPackGet(q) \in SockOctets
  PROVE  SessTypes'
<1>1. SockOf3(sockMeant')
  BY SockOneMore DEF SockSend
<1>2. sockWire' \in SockOctets
  <2>1. SockJoin(sockWire, SockPackGet(q)) \in SockOctets
    BY SockJoinIs, Zenon DEF SessTypes
  <2>2. sockWire' = SockJoin(sockWire, SockPackGet(q)) \/ sockWire' = sockWire
    BY DEF SockSend, SockJoin
  <2> QED
    BY <2>1, <2>2 DEF SessTypes
<1>3. sockUp' \in BOOLEAN
  BY Zenon DEF SockSend, SessTypes
<1>4. sessPc' \in SessPlaces /\ sessSeen' \in Seq(SessUrls) /\ Len(sessSeen') <= SessMax
      /\ sessConn'.port \in Nat /\ sessReq'.target \in {"none", "path", "url"}
  BY DEF SockSend, sessKept, SessTypes
<1> QED
  BY <1>1, <1>2, <1>3, <1>4, Zenon DEF SessTypes

LEMMA SessTypesKeep == SessInv /\ SockInv /\ SessTypes /\ [SessNext]_sessVars => SessTypes'
<1> SUFFICES ASSUME SessInv, SockInv, SessTypes, [SessNext]_sessVars PROVE SessTypes'
  OBVIOUS
<1> DEFINE Quiet == UNCHANGED <<sockMeant, sockWire, sockUp>>
<1>1. /\ sessProxy.port \in Nat /\ sessProxy.user \in SockOctets /\ sessProxy.pass \in SockOctets
      /\ sessUri.port \in Nat /\ sessUri.host \in SockOctets /\ sessDest \in SockOctets
  BY SessAssumption, SockStringIs DEF SessInv, SessUriSet, SockInv, SockDest
<1>0. \A n \in Nat : n % 65536 \in Nat
  BY SMT
<1>2. ASSUME Quiet, UNCHANGED <<sessSeen>>, sessPc' \in SessPlaces,
             sessConn'.port \in Nat, sessReq'.target \in {"none", "path", "url"}
      PROVE  SessTypes'
  BY <1>2, Zenon DEF SessTypes
<1>3. ASSUME NEW x \in SessUrls, SessOpen(x) PROVE SessTypes'
  <2>1. sessPc' \in SessPlaces /\ sessConn'.port \in Nat /\ sessReq'.target \in {"none", "path", "url"}
    BY <1>3 DEF SessOpen, SessPlaces, SessNoConn, SessNoReq
  <2>2. sessSeen' \in Seq(SessUrls) /\ Len(sessSeen') <= SessMax
    <3>1. sessSeen' = Append(sessSeen, x) /\ Len(sessSeen) < SessMax /\ sessSeen \in Seq(SessUrls)
      BY <1>3 DEF SessOpen, SessTypes
    <3>2. sessSeen' \in Seq(SessUrls) /\ Len(sessSeen') = Len(sessSeen) + 1 /\ Len(sessSeen) \in Nat
      BY <3>1, AppendProperties, LenProperties
    <3> QED
      BY <3>1, <3>2, SessAssumption
  <2>3. sockWire' \in SockOctets /\ SockOf3(sockMeant')
    BY <1>3 DEF SessOpen, SockOctets, SockOf1, SockOf2, SockOf3
  <2>4. sockUp' \in BOOLEAN
    BY <1>3, Zenon DEF SessOpen
  <2> QED
    BY <2>1, <2>2, <2>3, <2>4, Zenon DEF SessTypes
<1>4. CASE SessConnect
  <2>1. Quiet /\ UNCHANGED <<sessSeen, sessReq>> /\ sessPc' \in SessPlaces
    BY <1>4 DEF SessConnect, SessConnects, SessFails, sessKept, SessPlaces
  <2>2. sessConn'.port \in {443 % 65536, sessUri.port % 65536, sessConn.port}
    BY <1>4 DEF SessConnect, SessConnects, SessFails
  <2> QED
    BY <1>0, <1>1, <1>2, <2>1, <2>2 DEF SessTypes
<1>5. CASE SessConnectProxy
  <2>1. Quiet /\ UNCHANGED <<sessSeen, sessReq>> /\ sessPc' \in SessPlaces
    BY <1>5 DEF SessConnectProxy, SessConnects, SessFails, sessKept, SessPlaces
  <2>2. sessConn'.port \in {sessProxy.port % 65536, sessConn.port}
    BY <1>5 DEF SessConnectProxy, SessConnects, SessFails
  <2> QED
    BY <1>0, <1>1, <1>2, <2>1, <2>2 DEF SessTypes
<1>6. CASE SessNoProxyCase \/ Recv4Rep \/ Recv5AuthRep \/ Recv5PassRep \/ Recv5Rep
  <2>1. Quiet /\ UNCHANGED <<sessSeen, sessReq, sessConn>> /\ sessPc' \in SessPlaces
    BY <1>6 DEF SessNoProxyCase, Recv4Rep, Recv5AuthRep, Recv5PassRep, Recv5Rep, SockReceived, sessKept,
                SessPlaces
  <2> QED
    BY <1>2, <2>1 DEF SessTypes
<1>7. CASE SessRequest
  <2>1. Quiet /\ UNCHANGED <<sessSeen, sessConn>> /\ sessPc' \in SessPlaces
    BY <1>7 DEF SessRequest, SessPlaces
  <2>2. sessReq'.target \in {"none", "path", "url"}
    BY <1>7 DEF SessRequest
  <2> QED
    BY <1>2, <2>1, <2>2 DEF SessTypes
<1>8. CASE SessEnds
  <2>1. Quiet /\ UNCHANGED <<sessSeen, sessReq>> /\ sessPc' \in SessPlaces
    BY <1>8 DEF SessEnds, sessKept, SessPlaces
  <2>2. sessConn'.port \in Nat
    BY <1>8 DEF SessEnds, SessNoConn
  <2> QED
    BY <1>2, <2>1, <2>2 DEF SessTypes
<1>9. SockCount
  BY DEF SockInv
<1>10. CASE Send4Req
  <2>1. "s4rep" \in SessPlaces /\ SockOf2(sockMeant)
    BY <1>9, <1>10 DEF Send4Req, SockCount, SockOf1, SockOf2, SessPlaces
  <2> QED
    BY <1>1, <1>10, <2>1, SessSendTypes, SockPacks4 DEF Send4Req
<1>11. CASE Send5AuthReq
  <2>1. "s5authrep" \in SessPlaces /\ SockOf2(sockMeant)
    BY <1>9, <1>11 DEF Send5AuthReq, SockCount, SockOf1, SockOf2, SessPlaces
  <2> QED
    BY <1>11, <2>1, SessSendTypes, SockAuthReqIs DEF Send5AuthReq, SockCarried
<1>12. CASE Send5PassReq
  <2>1. "s5passrep" \in SessPlaces /\ SockOf2(sockMeant)
    BY <1>9, <1>12 DEF Send5PassReq, SockCount, SockOf2, SessPlaces
  <2> QED
    BY <1>1, <1>12, <2>1, SessSendTypes, SockPacksPass DEF Send5PassReq
<1>13. CASE Send5Req
  <2> DEFINE p == Sock5Req(SOCKS_ADDR_IPV4ADDR, sessProxy.port, sessDest)
             n == Sock5Req(SOCKS_ADDR_HOSTNAME, sessProxy.port, SockNamed(sessUri.host))
             q == IF sessDest # INADDR_NONE THEN p ELSE n
  <2>1. SockOf2(sockMeant) /\ SockSend(q, "s5rep") /\ "s5rep" \in SessPlaces
    BY <1>9, <1>13 DEF Send5Req, SockNamed, SockJoin, SockCount, SessPlaces
  <2>2. SockNamed(sessUri.host) \in SockOctets
    <3>1. SockLen8(sessUri.host) \in SockOctet
      BY <1>1, SockLen, SockOctetIs, Zenon DEF SockLen8
    <3>2. <<SockLen8(sessUri.host)>> \in SockOctets
      BY <3>1, SockOne, Zenon
    <3> QED
      BY <1>1, <3>2, SockJoinIs, Zenon DEF SockNamed
  <2>3. SockPackGet(p) \in SockOctets /\ SockPackGet(n) \in SockOctets
    BY <1>1, <2>2, SockPacks5
  <2>4. SockPackGet(q) \in SockOctets
    BY <2>3
  <2> HIDE DEF q
  <2> QED
    BY <2>1, <2>4, SessSendTypes
<1>14. CASE UNCHANGED sessVars
  BY <1>14, Zenon DEF sessVars, sessKept, SessTypes
<1> QED
  BY <1>3, <1>4, <1>5, <1>6, <1>7, <1>8, <1>10, <1>11, <1>12, <1>13, <1>14 DEF SessNext

\* Type correctness of a session, its request and its handshake: whatever does not fit its
\* field is cut to bytes.
THEOREM SessTypeCorrect == SessSpec => []SessTypeOK
<1>1. SessInit => SessTypes
  <2> SUFFICES ASSUME SessInit PROVE SessTypes
    OBVIOUS
  <2>1. /\ sessPc \in SessPlaces /\ sessSeen \in Seq(SessUrls) /\ Len(sessSeen) <= SessMax
        /\ sessConn.port \in Nat /\ sessReq.target \in {"none", "path", "url"}
    BY SessAssumption DEF SessInit, SessPlaces, SessNoConn, SessNoReq
  <2>2. sockWire \in SockOctets /\ SockOf3(sockMeant)
    BY DEF SessInit, SockOctets, SockOf1, SockOf2, SockOf3
  <2>3. sockUp \in BOOLEAN
    BY Zenon DEF SessInit
  <2> QED
    BY <2>1, <2>2, <2>3, Zenon DEF SessTypes
<1>2. SessInv /\ SockInv /\ SessTypes => SessTypeOK
  <2> SUFFICES ASSUME SessInv, SockInv, SessTypes PROVE SessTypeOK
    OBVIOUS
  <2>1. sessUri.host \in Seq(0 .. 127) /\ sessUri.port \in Nat
    <3>1. 1 .. 127 \subseteq 0 .. 127
      BY SMT
    <3>2. sessUri.host \in Seq(1 .. 127) /\ sessUri.port \in Nat
      BY DEF SessInv, SessUriSet, SessString
    <3> QED
      BY <3>1, <3>2, SeqMonotonic
  <2>2. \A i \in DOMAIN sessHdrs : DOMAIN sessHdrs[i] = {"key", "val"}
    <3>1. sessHdrs \in Seq(SessHdrSet)
      BY DEF SessInv, SessHdrsOK
    <3>2. ASSUME NEW i \in DOMAIN sessHdrs PROVE sessHdrs[i] \in SessHdrSet
      BY <3>1
    <3>3. \A h \in SessHdrSet : DOMAIN h = {"key", "val"}
      BY DEF SessHdrSet
    <3> QED
      BY <3>2, <3>3
  <2>3. Len(sockMeant) <= 3
    <3>1. \A a, b, c : Len(<<>>) <= 3 /\ Len(<<a>>) <= 3 /\ Len(<<a, b>>) <= 3 /\ Len(<<a, b, c>>) <= 3
      OBVIOUS
    <3> QED
      BY <3>1, Zenon DEF SessTypes, SockOf1, SockOf2, SockOf3
  <2>4. sessDest \in Seq(0 .. 255) /\ sockWire \in Seq(0 .. 255)
    BY Zenon DEF SockInv, SockDest, SessTypes, SockOctets, SockOctet
  <2>5. sessProxy \in SessProxies
    BY DEF SessInv
  <2> QED
    BY <2>1, <2>2, <2>3, <2>4, <2>5, Zenon DEF SessTypes, SessPlaces, SessTypeOK
<1> QED
  BY <1>1, <1>2, SessTypesKeep, SessInvHolds, SockInvHolds, PTL DEF SessSpec

-----------------------------------------------------------------------------
(* The configuration file *)

\* What the parser knows after each of the lines.
IniReader(f, lines) ==
  f = [n \in 0 .. Len(lines) |-> IF n = 0 THEN IniUnread ELSE IniParseLine(f[n - 1], lines[n])]

\* The same, one line after another.
IniReads(f, lines) ==
  /\ f[0] = IniUnread
  /\ \A n \in 1 .. Len(lines) : f[n] = IniParseLine(f[n - 1], lines[n])

LEMMA IniReaderReads ==
  ASSUME NEW lines, Len(lines) \in Nat, NEW f, IniReader(f, lines)
  PROVE  IniReads(f, lines)
BY DEF IniReader, IniReads

LEMMA IniReaderIs ==
  ASSUME NEW lines, Len(lines) \in Nat, NEW f, IniReads(f, lines)
  PROVE  IniReader([n \in 0 .. Len(lines) |-> f[n]], lines)
<1> DEFINE N == Len(lines)
           g == [n \in 0 .. N |-> f[n]]
           h == [n \in 0 .. N |-> IF n = 0 THEN IniUnread ELSE IniParseLine(g[n - 1], lines[n])]
<1>1. ASSUME NEW n \in 0 .. N PROVE g[n] = h[n]
  <2>1. CASE n = 0
    BY <2>1 DEF IniReads
  <2>2. CASE n # 0
    <3>1. n \in 1 .. N /\ n - 1 \in 0 .. N
      BY <2>2
    <3>2. f[n] = IniParseLine(f[n - 1], lines[n]) /\ g[n - 1] = f[n - 1] /\ g[n] = f[n]
      BY <3>1 DEF IniReads
    <3> QED
      BY <2>2, <3>2
  <2> QED
    BY <2>1, <2>2
<1>2. g = h
  BY <1>1
<1> QED
  BY <1>2, Zenon DEF IniReader

\* All readers of the same lines agree.
LEMMA IniReadsSame ==
  ASSUME NEW lines, Len(lines) \in Nat, NEW f, IniReads(f, lines),
         NEW more, NEW g, IniReads(g, more), Len(more) \in Nat, Len(lines) <= Len(more),
         \A i \in 1 .. Len(lines) : lines[i] = more[i]
  PROVE  \A n \in 0 .. Len(lines) : f[n] = g[n]
<1> DEFINE N == Len(lines)
           T == {n \in 0 .. N : f[n] = g[n]}
<1>1. 0 \in T
  BY DEF IniReads
<1>2. ASSUME NEW n \in 0 .. N, n \in T, n < N PROVE n + 1 \in T
  <2>1. n + 1 \in 1 .. N /\ n + 1 \in 1 .. Len(more) /\ (n + 1) - 1 = n /\ n + 1 \in 0 .. N
    BY <1>2
  <2>2. f[n + 1] = IniParseLine(f[n], lines[n + 1]) /\ g[n + 1] = IniParseLine(g[n], more[n + 1])
    BY <2>1 DEF IniReads
  <2>3. f[n] = g[n] /\ lines[n + 1] = more[n + 1]
    BY <1>2, <2>1
  <2> QED
    BY <2>1, <2>2, <2>3
<1> HIDE DEF T
<1>3. \A n \in 0 .. N : n \in T
  BY <1>1, <1>2, UpTo
<1> QED
  BY <1>3 DEF T

\* The parser's result, read off any reader of these lines or of more.
LEMMA IniParsedIs ==
  ASSUME NEW lines, Len(lines) \in Nat, NEW more, NEW g, IniReads(g, more),
         Len(more) \in Nat, Len(lines) <= Len(more),
         \A i \in 1 .. Len(lines) : lines[i] = more[i]
  PROVE  IniParsed(lines) = g[Len(lines)]
<1> DEFINE at == CHOOSE f : IniReader(f, lines)
           h == [n \in 0 .. Len(lines) |-> g[n]]
<1>1. IniReads(g, lines)
  BY DEF IniReads
<1>2. IniReader(h, lines)
  BY <1>1, IniReaderIs
<1>3. IniReader(at, lines)
  BY <1>2, Zenon
<1>4. IniParsed(lines) = at[Len(lines)]
  BY Zenon DEF IniParsed, IniReader
<1> HIDE DEF at
<1>5. IniReads(at, lines)
  BY <1>3, IniReaderReads
<1>6. at[Len(lines)] = g[Len(lines)]
  BY <1>5, IniReadsSame
<1> QED
  BY <1>4, <1>6

-----------------------------------------------------------------------------
(* A line of the configuration file *)

\* The parser inside section s, with the pairs p.
IniAcc(s, p) == [sect |-> s, map |-> p]

LEMMA IniBlankRead ==
  ASSUME NEW a
  PROVE  IniParseLine(a, IniBlank) = a
<1>1. IniBlank[1] = "other"
  BY DEF IniBlank
<1> HIDE DEF IniBlank
<1> QED
  BY <1>1 DEF IniParseLine

LEMMA IniHeadingRead ==
  ASSUME NEW s, NEW p, NEW t
  PROVE  IniParseLine(IniAcc(s, p), IniHeading(t)) = IniAcc(t, p)
<1>1. IniHeading(t)[1] = "sect" /\ IniHeading(t)[2] = t
  BY DEF IniHeading
<1> QED
  BY <1>1, SMT DEF IniParseLine, IniAcc

\* A pair is kept in a section, unless its value is empty.
IniPairReadAs(s, p, k, v) ==
  /\ s # "" /\ v # <<>> =>
       IniParseLine(IniAcc(s, p), IniPair(k, v)) = IniAcc(s, IniPut(p, <<s, k[2]>>, v))
  /\ v = <<>> => IniParseLine(IniAcc(s, p), IniPair(k, v)) = IniAcc(s, p)

LEMMA IniPairRead ==
  ASSUME NEW s, NEW p, NEW k, NEW v
  PROVE  IniPairReadAs(s, p, k, v)
<1> DEFINE l == IniPair(k, v)
<1>1. l[1] = "pair" /\ l[2] = k[2] /\ l[3] = v
  BY DEF IniPair
<1>2. l[5] = FALSE
  BY Zenon DEF IniPair
<1> HIDE DEF l
<1>3. IniValueOf(l) = v
  BY <1>1, <1>2, Zenon DEF IniValueOf
<1>4. v = <<>> => IniParseLine(IniAcc(s, p), l) = IniAcc(s, p)
  BY <1>1, <1>3, SMT DEF IniParseLine
<1>5. IniAcc(s, p).sect = s /\ IniAcc(s, p).map = p
  BY DEF IniAcc
<1>6. ASSUME s # "", v # <<>>
      PROVE  IniParseLine(IniAcc(s, p), l) = [IniAcc(s, p) EXCEPT !.map = IniPut(p, <<s, k[2]>>, v)]
  <2>1. l[1] # "sect"
    BY <1>1
  <2> DEFINE a == IniAcc(s, p)
             q == IniPut(a.map, <<a.sect, l[2]>>, IniValueOf(l))
  <2>2. a.sect # "" /\ IniValueOf(l) # <<>>
    BY <1>3, <1>5, <1>6, Zenon
  <2>3. q = IniPut(p, <<s, k[2]>>, v)
    BY <1>1, <1>3, <1>5, Zenon
  <2>4. IniParseLine(a, l) = [a EXCEPT !.map = q]
    <3> HIDE DEF a
    <3> QED
      BY <1>1, <2>1, <2>2, Zenon DEF IniParseLine
  <2> QED
    BY <2>3, <2>4, Zenon
<1>7. \A q : [IniAcc(s, p) EXCEPT !.map = q] = IniAcc(s, q)
  BY SMT DEF IniAcc
<1> QED
  BY <1>4, <1>6, <1>7, Zenon DEF l, IniPairReadAs

\* The lines that save_config writes of a configuration.
IniWritten(m) ==
  {IniBlank} \cup {IniHeading(k[1]) : k \in IniKeys}
    \cup {IniPair(k, m[k]) : k \in IniKeys \cap DOMAIN m}

\* What is read is the configuration's.
IniSub(p, m) == \A k \in DOMAIN p : k \in DOMAIN m /\ p[k] = m[k]
IniHas(p, m, K) == \A k \in K : IniRead(p, k) = IniRead(m, k)

\* f reads these lines, and however far, what is read is of m.
IniReadOf(f, lines, m) == IniReads(f, lines) /\ \A n \in 0 .. Len(lines) : IniSub(f[n].map, m)

\* However far these lines are read, what is read is of m; all of K is read at their end,
\* where the section is s.
IniSound(lines, s, K, m) ==
  /\ lines \in Seq(IniWritten(m))
  /\ \E f : /\ IniReadOf(f, lines, m)
            /\ \E p : f[Len(lines)] = IniAcc(s, p) /\ IniHas(p, m, K)

\* One line more.
LEMMA IniSoundMore ==
  ASSUME NEW S, NEW lines \in Seq(S), NEW l \in S, NEW f, NEW m, IniReadOf(f, lines, m),
         NEW a, a = IniParseLine(f[Len(lines)], l), IniSub(a.map, m)
  PROVE  \E g : IniReadOf(g, Append(lines, l), m) /\ g[Len(Append(lines, l))] = a
<1> DEFINE N == Len(lines)
           more == Append(lines, l)
           g == [n \in 0 .. N + 1 |-> IF n <= N THEN f[n] ELSE a]
<1>1. /\ N \in Nat /\ Len(more) = N + 1 /\ \A i \in 1 .. N : more[i] = lines[i]
      /\ more[N + 1] = l
  BY AppendProperties, LenProperties
<1> HIDE DEF more
<1>2. g[0] = IniUnread
  BY <1>1 DEF IniReads, IniReadOf
<1>3. ASSUME NEW n \in 1 .. N + 1 PROVE g[n] = IniParseLine(g[n - 1], more[n])
  <2>1. CASE n \in 1 .. N
    <3>1. f[n] = IniParseLine(f[n - 1], lines[n]) /\ more[n] = lines[n]
      BY <1>1, <2>1 DEF IniReads, IniReadOf
    <3>2. g[n] = f[n] /\ g[n - 1] = f[n - 1]
      BY <1>1, <2>1
    <3> QED
      BY <3>1, <3>2
  <2>2. CASE n = N + 1
    <3>1. g[n] = a /\ g[n - 1] = f[N] /\ more[n] = l
      BY <1>1, <2>2
    <3> QED
      BY <3>1
  <2> QED
    BY <1>1, <2>1, <2>2
<1>4. ASSUME NEW n \in 0 .. N + 1 PROVE IniSub(g[n].map, m)
  BY <1>1 DEF IniReadOf
<1>5. g[N + 1] = a
  BY <1>1
<1> HIDE DEF g
<1>6. IniReads(g, more)
  BY <1>1, <1>2, <1>3 DEF IniReads
<1> QED
  BY <1>1, <1>4, <1>5, <1>6 DEF more, IniReadOf

LEMMA IniSoundStart ==
  ASSUME NEW m
  PROVE  IniSound(<<>>, "", {}, m)
<1> DEFINE p == <<>>
           f == [n \in {0} |-> IniUnread]
<1>1. <<>> \in Seq(IniWritten(m)) /\ Len(<<>>) = 0
  BY EmptySeq
<1>2. DOMAIN p = {}
  BY SMT
<1> HIDE DEF p
<1>2a. f[0] = IniUnread /\ IniUnread = IniAcc("", p) /\ IniUnread.map = p
  BY DEF IniUnread, IniAcc, p
<1> HIDE DEF f
<1>3. IniReads(f, <<>>)
  <2>1. \A n \in 1 .. Len(<<>>) : FALSE
    BY <1>1, SMT
  <2> QED
    BY <1>2a, <2>1, Zenon DEF IniReads
<1>4. IniSub(p, m) /\ IniHas(p, m, {})
  BY <1>2 DEF IniSub, IniHas
<1>5. IniReadOf(f, <<>>, m)
  <2>1. \A n \in 0 .. Len(<<>>) : n = 0
    BY <1>1, SMT
  <2> QED
    BY <1>2a, <1>3, <1>4, <2>1, Zenon DEF IniReadOf
<1>6. f[Len(<<>>)] = IniAcc("", p)
  BY <1>1, <1>2a
<1> QED
  BY <1>1, <1>4, <1>5, <1>6, Zenon DEF IniSound

LEMMA IniSoundBlank ==
  ASSUME NEW lines, NEW s, NEW K, NEW m, IniSound(lines, s, K, m)
  PROVE  IniSound(Append(lines, IniBlank), s, K, m)
<1> DEFINE N == Len(lines)
<1>1. PICK f : IniReadOf(f, lines, m) /\ \E p : f[N] = IniAcc(s, p) /\ IniHas(p, m, K)
  BY DEF IniSound
<1>2. PICK p : f[N] = IniAcc(s, p) /\ IniHas(p, m, K)
  BY <1>1
<1>3. lines \in Seq(IniWritten(m)) /\ IniBlank \in IniWritten(m)
  BY DEF IniSound, IniWritten
<1>4. N \in Nat /\ N \in 0 .. N
  BY <1>3, LenProperties
<1>5. f[N] = IniParseLine(f[N], IniBlank) /\ IniSub(f[N].map, m)
  BY <1>1, <1>4, IniBlankRead DEF IniReadOf
<1>6. Append(lines, IniBlank) \in Seq(IniWritten(m))
  BY <1>3, AppendProperties
<1>7. PICK g : IniReadOf(g, Append(lines, IniBlank), m) /\ g[Len(Append(lines, IniBlank))] = f[N]
  BY <1>1, <1>3, <1>5, IniSoundMore, SMT
<1> QED
  BY <1>2, <1>6, <1>7 DEF IniSound

LEMMA IniSoundHeading ==
  ASSUME NEW lines, NEW s, NEW K, NEW m, IniSound(lines, s, K, m), NEW k \in IniKeys
  PROVE  IniSound(Append(lines, IniHeading(k[1])), k[1], K, m)
<1> DEFINE N == Len(lines)
           t == k[1]
           l == IniHeading(t)
<1>1. PICK f : IniReadOf(f, lines, m) /\ \E p : f[N] = IniAcc(s, p) /\ IniHas(p, m, K)
  BY DEF IniSound
<1>2. PICK p : f[N] = IniAcc(s, p) /\ IniHas(p, m, K)
  BY <1>1
<1>3. lines \in Seq(IniWritten(m)) /\ l \in IniWritten(m)
  BY DEF IniSound, IniWritten
<1>4. N \in Nat /\ N \in 0 .. N
  BY <1>3, LenProperties
<1> HIDE DEF l
<1>5. IniAcc(t, p) = IniParseLine(f[N], l)
  BY <1>2, IniHeadingRead DEF l
<1>6. IniSub(IniAcc(t, p).map, m)
  BY <1>1, <1>2, <1>4 DEF IniAcc, IniReadOf
<1>7. Append(lines, l) \in Seq(IniWritten(m))
  BY <1>3, AppendProperties
<1>8. PICK g : IniReadOf(g, Append(lines, l), m) /\ g[Len(Append(lines, l))] = IniAcc(t, p)
  BY <1>1, <1>3, <1>5, <1>6, IniSoundMore, SMT
<1>9. IniSound(Append(lines, l), t, K, m)
  BY <1>2, <1>7, <1>8 DEF IniSound
<1> QED
  BY <1>9 DEF l

LEMMA IniKeyIs ==
  ASSUME NEW k \in IniKeys
  PROVE  k = <<k[1], k[2]>> /\ k[1] # ""
<1>1. PICK i \in DOMAIN IniNames : k = IniNames[i]
  BY DEF IniKeys, ToSet
<1>2. IniNames[i] \in STRING \X STRING
  BY IniAssumption, ElementOfSeq, LenProperties
<1>2a. k = <<k[1], k[2]>>
  BY <1>1, <1>2
<1>3. k[1] # ""
  BY IniAssumption
<1> QED
  BY <1>2a, <1>3, Zenon

LEMMA IniSoundPair ==
  ASSUME NEW lines, NEW s, NEW K, NEW m, IniSound(lines, s, K, m),
         NEW k \in IniKeys, k \in DOMAIN m, k[1] = s
  PROVE  IniSound(Append(lines, IniPair(k, m[k])), s, K \cup {k}, m)
<1> DEFINE N == Len(lines)
           v == m[k]
           l == IniPair(k, v)
<1>1. PICK f : IniReadOf(f, lines, m) /\ \E p : f[N] = IniAcc(s, p) /\ IniHas(p, m, K)
  BY DEF IniSound
<1>2. PICK p : f[N] = IniAcc(s, p) /\ IniHas(p, m, K)
  BY <1>1
<1>3. lines \in Seq(IniWritten(m)) /\ l \in IniWritten(m)
  BY DEF IniSound, IniWritten
<1>4. N \in Nat /\ N \in 0 .. N
  BY <1>3, LenProperties
<1>5. k = <<s, k[2]>> /\ s # ""
  BY IniKeyIs
<1>6. IniSub(p, m)
  BY <1>1, <1>2, <1>4 DEF IniAcc, IniReadOf
<1> HIDE DEF l
<1> DEFINE q == IF v = <<>> THEN p ELSE IniPut(p, k, v)
<1>7. IniAcc(s, q) = IniParseLine(f[N], l)
  <2>0. IniPairReadAs(s, p, k, v)
    BY IniPairRead, Zenon
  <2>1. v = <<>> => IniParseLine(IniAcc(s, p), l) = IniAcc(s, p)
    BY <2>0, Zenon DEF IniPairReadAs, l
  <2>2. v # <<>> => IniParseLine(IniAcc(s, p), l) = IniAcc(s, IniPut(p, <<s, k[2]>>, v))
    BY <1>5, <2>0, Zenon DEF IniPairReadAs, l
  <2>3. IniPut(p, <<s, k[2]>>, v) = IniPut(p, k, v)
    BY <1>5
  <2> QED
    BY <1>2, <2>1, <2>2, <2>3, Zenon
<1>8. IniSub(q, m) /\ IniHas(q, m, K \cup {k})
  <2>1. CASE v = <<>>
    <3>1. IniRead(m, k) = <<>> /\ IniRead(p, k) = <<>>
      BY <1>6, <2>1 DEF IniRead, IniSub
    <3> QED
      BY <1>2, <1>6, <2>1, <3>1 DEF IniHas
  <2>2. CASE v # <<>>
    <3> DEFINE u == IniPut(p, k, v)
    <3>1. /\ DOMAIN u = DOMAIN p \cup {k}
          /\ \A n \in DOMAIN u : u[n] = IF n = k THEN v ELSE p[n]
      BY DEF IniPut
    <3> HIDE DEF u
    <3>2. IniSub(u, m)
      BY <1>6, <3>1 DEF IniSub
    <3>3. \A n : n # k => IniRead(u, n) = IniRead(p, n)
      BY <3>1 DEF IniRead
    <3>4. IniRead(u, k) = v /\ IniRead(m, k) = v
      BY <3>1 DEF IniRead
    <3>5. IniHas(u, m, K \cup {k})
      BY <1>2, <3>3, <3>4 DEF IniHas
    <3> QED
      BY <2>2, <3>2, <3>5 DEF u
  <2> QED
    BY <2>1, <2>2
<1> HIDE DEF q
<1>9. IniSub(IniAcc(s, q).map, m)
  BY <1>8 DEF IniAcc
<1>10. Append(lines, l) \in Seq(IniWritten(m))
  BY <1>3, AppendProperties
<1>11. PICK g : IniReadOf(g, Append(lines, l), m) /\ g[Len(Append(lines, l))] = IniAcc(s, q)
  BY <1>1, <1>3, <1>7, <1>9, IniSoundMore, SMT
<1>12. IniSound(Append(lines, l), s, K \cup {k}, m)
  BY <1>8, <1>10, <1>11 DEF IniSound
<1> QED
  BY <1>12 DEF l

-----------------------------------------------------------------------------
(* The file that save_config writes *)

\* Where save_config stands after n names.
IniSavedNone == [sects |-> {}, lines |-> <<>>]
IniFormatter(g, m) ==
  g = [n \in 0 .. Len(IniNames) |->
         IF n = 0 THEN IniSavedNone ELSE IniSaveName(m, g[n - 1], IniNames[n])]
IniSaves(g, m, N) ==
  /\ g[0] = IniSavedNone
  /\ \A n \in 1 .. N : g[n] = IniSaveName(m, g[n - 1], IniNames[n])

LEMMA IniSavesAll ==
  ASSUME NEW m, NEW N \in Nat
  PROVE  \E g : IniSaves(g, m, N)
<1> DEFINE T == {n \in 0 .. N : \E g : IniSaves(g, m, n)}
<1>1. 0 \in T
  <2> DEFINE g == [n \in 0 .. 0 |-> IniSavedNone]
  <2>1. g[0] = IniSavedNone /\ \A n \in 1 .. 0 : FALSE
    OBVIOUS
  <2> HIDE DEF g
  <2>2. IniSaves(g, m, 0)
    BY <2>1, Zenon DEF IniSaves
  <2> QED
    BY <2>2
<1>2. ASSUME NEW n \in 0 .. N, n \in T, n < N PROVE n + 1 \in T
  <2>1. PICK g : IniSaves(g, m, n)
    BY <1>2
  <2> DEFINE h == [i \in 0 .. n + 1 |->
                     IF i <= n THEN g[i] ELSE IniSaveName(m, g[n], IniNames[n + 1])]
  <2>2. h[0] = IniSavedNone
    BY <2>1 DEF IniSaves
  <2>3. ASSUME NEW i \in 1 .. n + 1 PROVE h[i] = IniSaveName(m, h[i - 1], IniNames[i])
    <3>1. CASE i \in 1 .. n
      <4>1. h[i] = g[i] /\ h[i - 1] = g[i - 1]
        BY <3>1
      <4> QED
        BY <2>1, <3>1, <4>1 DEF IniSaves
    <3>2. CASE i = n + 1
      <4>1. h[i - 1] = g[n] /\ h[i] = IniSaveName(m, g[n], IniNames[n + 1])
        BY <3>2
      <4> QED
        BY <3>2, <4>1
    <3> QED
      BY <3>1, <3>2
  <2> HIDE DEF h
  <2>4. IniSaves(h, m, n + 1)
    BY <2>2, <2>3 DEF IniSaves
  <2> QED
    BY <1>2, <2>4
<1> HIDE DEF T
<1>3. N \in T
  BY <1>1, <1>2, UpTo
<1> QED
  BY <1>3 DEF T

LEMMA IniFormatIs ==
  ASSUME NEW m
  PROVE  \E g : IniSaves(g, m, Len(IniNames)) /\ IniFormat(m) = g[Len(IniNames)].lines
<1> DEFINE N == Len(IniNames)
<1>1. N \in Nat
  BY IniAssumption, LenProperties
<1>2. PICK g : IniSaves(g, m, N)
  BY <1>1, IniSavesAll
<1> DEFINE h == [n \in 0 .. N |-> g[n]]
           e == [n \in 0 .. N |-> IF n = 0 THEN IniSavedNone ELSE IniSaveName(m, h[n - 1], IniNames[n])]
<1>3. ASSUME NEW n \in 0 .. N PROVE h[n] = e[n]
  <2>1. CASE n = 0
    BY <1>2, <2>1 DEF IniSaves
  <2>2. CASE n # 0
    <3>1. n \in 1 .. N /\ n - 1 \in 0 .. N
      BY <1>1, <2>2
    <3>2. g[n] = IniSaveName(m, g[n - 1], IniNames[n]) /\ h[n - 1] = g[n - 1] /\ h[n] = g[n]
      BY <1>2, <3>1 DEF IniSaves
    <3> QED
      BY <2>2, <3>2
  <2> QED
    BY <2>1, <2>2
<1>4. h = e
  BY <1>3
<1>5. IniFormatter(h, m)
  BY <1>4, Zenon DEF IniFormatter
<1> DEFINE at == CHOOSE f : IniFormatter(f, m)
<1>6. IniFormatter(at, m)
  BY <1>5, Zenon
<1>7. IniFormat(m) = at[N].lines
  BY Zenon DEF IniFormat, IniFormatter, IniSavedNone
<1> HIDE DEF at, h, e
<1>8. IniSaves(at, m, N)
  BY <1>1, <1>6 DEF IniFormatter, IniSaves
<1> QED
  BY <1>7, <1>8

\* The names written so far, and the section of the last one.
IniSoFar(m, n) == {IniNames[i] : i \in 1 .. n} \cap DOMAIN m
IniHeads(m, n) == {k[1] : k \in IniSoFar(m, n)}
IniLast(s, m, n) ==
  \E i \in 1 .. n : /\ IniNames[i] \in DOMAIN m /\ IniNames[i][1] = s
                    /\ \A j \in 1 .. n : i < j => IniNames[j] \notin DOMAIN m

IniSavedOK(r, m, n) ==
  /\ r.sects = IniHeads(m, n)
  /\ \E s : /\ IniSound(r.lines, s, IniSoFar(m, n), m)
            /\ IniHeads(m, n) # {} => IniLast(s, m, n)

LEMMA IniSoFarNext ==
  ASSUME NEW m, NEW n \in Nat
  PROVE  /\ IniNames[n + 1] \notin DOMAIN m => IniSoFar(m, n + 1) = IniSoFar(m, n)
         /\ IniNames[n + 1] \in DOMAIN m =>
              IniSoFar(m, n + 1) = IniSoFar(m, n) \cup {IniNames[n + 1]}
<1>1. 1 .. n + 1 = 1 .. n \cup {n + 1}
  OBVIOUS
<1>2. {IniNames[i] : i \in 1 .. n + 1} = {IniNames[i] : i \in 1 .. n} \cup {IniNames[n + 1]}
  BY <1>1
<1> QED
  BY <1>2 DEF IniSoFar

\* A section that has a heading is the one the file ends in.
LEMMA IniSectIsLast ==
  ASSUME NEW m, NEW n \in Nat, n + 1 \in 1 .. Len(IniNames), NEW s, IniLast(s, m, n),
         IniNames[n + 1][1] \in IniHeads(m, n)
  PROVE  s = IniNames[n + 1][1]
<1>1. PICK i \in 1 .. n : /\ IniNames[i] \in DOMAIN m /\ IniNames[i][1] = s
                          /\ \A j \in 1 .. n : i < j => IniNames[j] \notin DOMAIN m
  BY DEF IniLast
<1>2. PICK j \in 1 .. n : IniNames[j] \in DOMAIN m /\ IniNames[j][1] = IniNames[n + 1][1]
  BY DEF IniHeads, IniSoFar
<1>3. j <= i
  BY <1>1, <1>2
<1>4. DOMAIN IniNames = 1 .. Len(IniNames) /\ Len(IniNames) \in Nat
  BY IniAssumption, LenProperties
<1>5. j < i => IniNames[i][1] = IniNames[j][1]
  <2>1. i \in DOMAIN IniNames /\ j \in DOMAIN IniNames /\ n + 1 \in DOMAIN IniNames /\ i < n + 1
    BY <1>4
  <2> QED
    BY <1>2, <2>1, IniAssumption
<1>6. j = i \/ j < i
  BY <1>3
<1> QED
  BY <1>1, <1>2, <1>5, <1>6

LEMMA IniLastNext ==
  ASSUME NEW m, NEW n \in Nat, IniNames[n + 1] \in DOMAIN m
  PROVE  IniLast(IniNames[n + 1][1], m, n + 1)
<1>1. n + 1 \in 1 .. n + 1 /\ \A j \in 1 .. n + 1 : ~ (n + 1 < j)
  OBVIOUS
<1> QED
  BY <1>1, Zenon DEF IniLast

LEMMA IniLastKept ==
  ASSUME NEW m, NEW n \in Nat, IniNames[n + 1] \notin DOMAIN m, NEW s, IniLast(s, m, n)
  PROVE  IniLast(s, m, n + 1)
<1>1. PICK i \in 1 .. n : /\ IniNames[i] \in DOMAIN m /\ IniNames[i][1] = s
                          /\ \A j \in 1 .. n : i < j => IniNames[j] \notin DOMAIN m
  BY DEF IniLast
<1>2. i \in 1 .. n + 1 /\ \A j \in 1 .. n + 1 : j \in 1 .. n \/ j = n + 1
  OBVIOUS
<1>3. \A j \in 1 .. n + 1 : i < j => IniNames[j] \notin DOMAIN m
  BY <1>1, <1>2
<1> QED
  BY <1>1, <1>2, <1>3 DEF IniLast

LEMMA IniSavedNext ==
  ASSUME NEW m, NEW n \in Nat, n + 1 \in 1 .. Len(IniNames), NEW r, IniSavedOK(r, m, n)
  PROVE  IniSavedOK(IniSaveName(m, r, IniNames[n + 1]), m, n + 1)
<1> DEFINE k == IniNames[n + 1]
           t == k[1]
<1>1. PICK s : /\ IniSound(r.lines, s, IniSoFar(m, n), m)
               /\ IniHeads(m, n) # {} => IniLast(s, m, n)
  BY DEF IniSavedOK
<1>2. r.sects = IniHeads(m, n)
  BY DEF IniSavedOK
<1>3. CASE k \notin DOMAIN m
  <2>1. IniSoFar(m, n + 1) = IniSoFar(m, n)
    BY <1>3, IniSoFarNext
  <2>2. IniHeads(m, n + 1) = IniHeads(m, n)
    BY <2>1 DEF IniHeads
  <2>3. IniSaveName(m, r, k) = r
    BY <1>3 DEF IniSaveName
  <2>4. IniHeads(m, n) # {} => IniLast(s, m, n + 1)
    BY <1>1, <1>3, IniLastKept
  <2> QED
    BY <1>1, <1>2, <2>1, <2>2, <2>3, <2>4, Zenon DEF IniSavedOK
<1>4. CASE k \in DOMAIN m
  <2>1. k \in IniKeys
    BY IniAssumption, LenProperties DEF IniKeys, ToSet
  <2>2. IniSoFar(m, n + 1) = IniSoFar(m, n) \cup {k}
    BY <1>4, IniSoFarNext
  <2>3. IniHeads(m, n + 1) = IniHeads(m, n) \cup {t}
    BY <2>2 DEF IniHeads
  <2> DEFINE headed == IniHeaded(r, t)
  <2>4. IniSound(headed, t, IniSoFar(m, n), m)
    <3>1. CASE t \in r.sects
      <4>1. s = t
        BY <1>1, <1>2, <3>1, IniSectIsLast
      <4>2. headed = r.lines
        BY <3>1 DEF IniHeaded
      <4> QED
        BY <1>1, <4>1, <4>2, Zenon
    <3>2. CASE t \notin r.sects
      <4> DEFINE before == IF r.lines = <<>> THEN <<>> ELSE Append(r.lines, IniBlank)
      <4>1. headed = Append(before, IniHeading(t))
        BY <3>2 DEF IniHeaded
      <4>2. IniSound(before, s, IniSoFar(m, n), m)
        BY <1>1, IniSoundBlank
      <4> HIDE DEF before
      <4>3. IniSound(Append(before, IniHeading(t)), t, IniSoFar(m, n), m)
        BY <2>1, <4>2, IniSoundHeading
      <4> QED
        BY <4>1, <4>3, Zenon
    <3> QED
      BY <3>1, <3>2
  <2>5. IniSaveName(m, r, k) =
          [sects |-> r.sects \cup {t}, lines |-> Append(headed, IniPair(k, m[k]))]
    BY <1>4 DEF IniSaveName
  <2> HIDE DEF headed
  <2>6. IniSound(Append(headed, IniPair(k, m[k])), t, IniSoFar(m, n) \cup {k}, m)
    BY <1>4, <2>1, <2>4, IniSoundPair
  <2>7. IniLast(t, m, n + 1)
    BY <1>4, IniLastNext
  <2>8. /\ IniSaveName(m, r, k).sects = IniHeads(m, n + 1)
        /\ IniSaveName(m, r, k).lines = Append(headed, IniPair(k, m[k]))
    BY <1>2, <2>3, <2>5
  <2> QED
    BY <2>2, <2>6, <2>7, <2>8, Zenon DEF IniSavedOK
<1> QED
  BY <1>3, <1>4

\* However far the file that save_config writes is read, what is read is of the
\* configuration, and all of it at the end.
LEMMA IniFormatSound ==
  ASSUME NEW m
  PROVE  \E s : IniSound(IniFormat(m), s, IniKeys \cap DOMAIN m, m)
<1> DEFINE N == Len(IniNames)
<1>1. N \in Nat /\ DOMAIN IniNames = 1 .. N
  BY IniAssumption, LenProperties
<1>2. PICK g : IniSaves(g, m, N) /\ IniFormat(m) = g[N].lines
  BY IniFormatIs
<1> DEFINE T == {n \in 0 .. N : IniSavedOK(g[n], m, n)}
<1>3. 0 \in T
  <2>1. g[0] = IniSavedNone
    BY <1>2 DEF IniSaves
  <2>2. g[0].sects = {} /\ g[0].lines = <<>>
    BY <2>1 DEF IniSavedNone
  <2>3. IniSoFar(m, 0) = {} /\ IniHeads(m, 0) = {}
    BY DEF IniSoFar, IniHeads
  <2>4. IniSavedOK(g[0], m, 0)
    BY <2>2, <2>3, IniSoundStart, Zenon DEF IniSavedOK
  <2> QED
    BY <1>1, <2>4
<1>4. ASSUME NEW n \in 0 .. N, n \in T, n < N PROVE n + 1 \in T
  <2>1. n \in Nat /\ n + 1 \in 1 .. N /\ (n + 1) - 1 = n /\ n + 1 \in 0 .. N
    BY <1>1, <1>4
  <2>2. g[n + 1] = IniSaveName(m, g[n], IniNames[n + 1])
    BY <1>2, <2>1 DEF IniSaves
  <2>3. IniSavedOK(g[n], m, n)
    BY <1>4
  <2>4. IniSavedOK(g[n + 1], m, n + 1)
    BY <2>1, <2>2, <2>3, IniSavedNext
  <2> QED
    BY <2>1, <2>4
<1> HIDE DEF T
<1>4a. \A n \in 0 .. N : n \in T
  <2> HIDE DEF N
  <2> QED
    BY <1>1, <1>3, <1>4, UpTo
<1>5. N \in T
  BY <1>1, <1>4a
<1>6. IniSavedOK(g[N], m, N)
  BY <1>5 DEF T
<1>7. IniSoFar(m, N) = IniKeys \cap DOMAIN m
  BY <1>1 DEF IniSoFar, IniKeys, ToSet
<1> QED
  BY <1>2, <1>6, <1>7, Zenon DEF IniSavedOK

-----------------------------------------------------------------------------
(* A save under way *)

\* The first lines of what save_config writes are read as a part of the configuration,
\* and all of them as the whole.
LEMMA IniBeginningRead ==
  ASSUME NEW m, NEW lines, Len(lines) \in Nat, Len(lines) <= Len(IniFormat(m)),
         \A i \in 1 .. Len(lines) : lines[i] = IniFormat(m)[i]
  PROVE  /\ IniSub(IniParsed(lines).map, m)
         /\ Len(lines) = Len(IniFormat(m)) => IniHas(IniParsed(lines).map, m, IniKeys)
<1> DEFINE F == IniFormat(m)
           n == Len(lines)
<1> HIDE DEF F
<1>1. PICK s : IniSound(F, s, IniKeys \cap DOMAIN m, m)
  BY IniFormatSound DEF F
<1>2. PICK f : /\ IniReadOf(f, F, m)
               /\ \E p : f[Len(F)] = IniAcc(s, p) /\ IniHas(p, m, IniKeys \cap DOMAIN m)
  BY <1>1 DEF IniSound
<1>3. PICK p : f[Len(F)] = IniAcc(s, p) /\ IniHas(p, m, IniKeys \cap DOMAIN m)
  BY <1>2
<1>4. Len(F) \in Nat
  BY <1>1, LenProperties DEF IniSound
<1>5. IniReads(f, F) /\ \A i \in 0 .. Len(F) : IniSub(f[i].map, m)
  BY <1>2 DEF IniReadOf
<1>6. IniParsed(lines) = f[n]
  BY <1>4, <1>5, IniParsedIs DEF F
<1>7. IniSub(f[n].map, m)
  BY <1>4, <1>5 DEF F
<1>8. IniSub(p, m) => IniHas(p, m, IniKeys)
  BY <1>3 DEF IniHas, IniSub, IniRead
<1>9. IniAcc(s, p).map = p
  BY DEF IniAcc
<1>10. n = Len(F) => IniHas(f[n].map, m, IniKeys)
  BY <1>3, <1>7, <1>8, <1>9
<1> QED
  BY <1>6, <1>7, <1>10 DEF F

LEMMA IniFormatLen ==
  ASSUME NEW m
  PROVE  IniFormat(m) \in Seq(IniWritten(m)) /\ Len(IniFormat(m)) \in Nat
BY IniFormatSound, LenProperties DEF IniSound

\* What an edit left: the configuration is what is read from it.
IniEdited == iniPc # "save" /\ iniTodo = <<>> /\ iniSaved = IniParse(iniLines, iniCut)

\* What a save left so far: the first lines of the file it writes, and, unless it was cut
\* off, the others are still to write.
IniUnderway ==
  /\ iniLines \in Seq(IniWritten(iniSaved)) /\ iniTodo \in Seq(IniWritten(iniSaved))
  /\ Len(iniLines) <= Len(IniFormat(iniSaved))
  /\ \A i \in 1 .. Len(iniLines) : iniLines[i] = IniFormat(iniSaved)[i]
  /\ iniTorn => iniTodo = <<>>
  /\ ~ iniTorn =>
       /\ ~ iniCut /\ Len(iniTodo) = Len(IniFormat(iniSaved)) - Len(iniLines)
       /\ \A i \in 1 .. Len(iniTodo) : iniTodo[i] = IniFormat(iniSaved)[Len(iniLines) + i]
  /\ iniCut => iniLines # <<>>
  /\ iniPc # "save" => iniTodo = <<>>

IniInv == IniEdited \/ IniUnderway

LEMMA IniInvInit == IniInit => IniInv
<1> SUFFICES ASSUME IniInit PROVE IniEdited
  BY DEF IniInv
<1>1. /\ iniPc = "quiet" /\ iniTodo = <<>> /\ iniLines = <<>> /\ iniCut = FALSE
      /\ iniSaved = <<>>
  BY DEF IniInit
<1> DEFINE f == [n \in {0} |-> IniUnread]
<1>2. f[0] = IniUnread
  OBVIOUS
<1> HIDE DEF f
<1>3. IniReads(f, <<>>) /\ Len(<<>>) = 0
  <2>1. Len(<<>>) = 0 /\ \A n \in 1 .. Len(<<>>) : FALSE
    BY SMT
  <2> QED
    BY <1>2, <2>1, Zenon DEF IniReads
<1>4. IniParsed(<<>>) = f[0]
  BY <1>3, IniParsedIs
<1>5. IniUnread.map = <<>>
  BY DEF IniUnread
<1>6. IniParse(<<>>, FALSE) = <<>>
  BY <1>2, <1>4, <1>5, Zenon DEF IniParse, IniWhole
<1> QED
  BY <1>1, <1>6 DEF IniEdited

\* The next line goes to the file, whole or in part.
LEMMA IniLineMore ==
  ASSUME IniUnderway, iniTodo # <<>>
  PROVE  /\ ~ iniTorn /\ iniPc = "save"
         /\ Append(iniLines, Head(iniTodo)) \in Seq(IniWritten(iniSaved))
         /\ Append(iniLines, Head(iniTodo)) # <<>>
         /\ Len(Append(iniLines, Head(iniTodo))) = Len(iniLines) + 1
         /\ Len(iniLines) + 1 <= Len(IniFormat(iniSaved))
         /\ \A i \in 1 .. Len(iniLines) + 1 :
              Append(iniLines, Head(iniTodo))[i] = IniFormat(iniSaved)[i]
         /\ Tail(iniTodo) \in Seq(IniWritten(iniSaved))
         /\ Len(Tail(iniTodo)) = Len(IniFormat(iniSaved)) - (Len(iniLines) + 1)
         /\ \A i \in 1 .. Len(Tail(iniTodo)) :
              Tail(iniTodo)[i] = IniFormat(iniSaved)[Len(iniLines) + 1 + i]
<1> DEFINE W == IniWritten(iniSaved)
           F == IniFormat(iniSaved)
           l == Head(iniTodo)
           n == Len(iniLines)
<1>1. iniLines \in Seq(W) /\ iniTodo \in Seq(W) /\ n <= Len(F)
      /\ (\A i \in 1 .. n : iniLines[i] = F[i]) /\ ~ iniTorn /\ iniPc = "save"
      /\ Len(iniTodo) = Len(F) - n /\ \A i \in 1 .. Len(iniTodo) : iniTodo[i] = F[n + i]
  BY DEF IniUnderway
<1> HIDE DEF W, F
<1>2. n \in Nat /\ Len(iniTodo) \in Nat /\ Len(iniTodo) > 0
  BY <1>1, LenProperties, EmptySeq
<1>3. l \in W /\ l = iniTodo[1] /\ Tail(iniTodo) \in Seq(W) /\ Len(Tail(iniTodo)) = Len(iniTodo) - 1
      /\ \A i \in 1 .. Len(Tail(iniTodo)) : Tail(iniTodo)[i] = iniTodo[i + 1]
  BY <1>1, <1>2, HeadTailProperties
<1> HIDE DEF l
<1> DEFINE t == Tail(iniTodo)
<1> HIDE DEF t
<1>4. t \in Seq(W) /\ Len(t) = Len(iniTodo) - 1 /\ \A i \in 1 .. Len(t) : t[i] = iniTodo[i + 1]
  BY <1>3 DEF t
<1>5. l = F[n + 1]
  BY <1>1, <1>2, <1>3
<1> DEFINE more == Append(iniLines, l)
<1>6. more \in Seq(W) /\ more # <<>> /\ Len(more) = n + 1
      /\ (\A i \in 1 .. n : more[i] = iniLines[i]) /\ more[n + 1] = l
  BY <1>1, <1>3, AppendProperties
<1> HIDE DEF more
<1>7. n + 1 <= Len(F) /\ Len(t) = Len(F) - (n + 1)
  <2> DEFINE a == Len(F)
             b == Len(iniTodo)
  <2>1. b \in Nat /\ b > 0 /\ n \in Nat /\ n <= a /\ b = a - n /\ Len(t) = b - 1
    BY <1>1, <1>2, <1>4
  <2>2. a \in Int
    BY <1>1, IniFormatLen DEF F
  <2> HIDE DEF a, b, n
  <2> QED
    BY <2>1, <2>2 DEF a
<1>8. \A i \in 1 .. n + 1 : more[i] = F[i]
  BY <1>1, <1>2, <1>5, <1>6
<1>9. \A i \in 1 .. Len(t) : t[i] = F[n + 1 + i]
  <2> SUFFICES ASSUME NEW i \in 1 .. Len(t) PROVE t[i] = F[n + 1 + i]
    OBVIOUS
  <2>1. i + 1 \in 1 .. Len(iniTodo) /\ n + (i + 1) = n + 1 + i
    BY <1>2, <1>4
  <2>2. t[i] = iniTodo[i + 1] /\ iniTodo[i + 1] = F[n + (i + 1)]
    BY <1>1, <1>4, <2>1
  <2> QED
    BY <2>1, <2>2
<1> QED
  BY <1>1, <1>4, <1>6, <1>7, <1>8, <1>9 DEF more, W, F, l, t

\* A save begins with an empty file.
LEMMA IniFresh ==
  ASSUME NEW m, iniSaved' = m, iniLines' = <<>>, iniTodo' = IniFormat(m),
         iniCut' = FALSE, iniTorn' = FALSE, iniPc' = "save"
  PROVE  IniUnderway'
<1> DEFINE F == IniFormat(m)
<1>1. F \in Seq(IniWritten(m)) /\ Len(F) \in Nat
  BY IniFormatLen
<1> HIDE DEF F
<1>2. <<>> \in Seq(IniWritten(m)) /\ Len(<<>>) = 0
  BY EmptySeq
<1>3. \A i \in 1 .. 0 : FALSE
  OBVIOUS
<1>4. Len(F) = Len(F) - 0 /\ 0 <= Len(F) /\ \A i \in 1 .. Len(F) : 0 + i = i
  BY <1>1
<1>5. iniTodo' = F
  BY DEF F
<1>6. IniFormat(iniSaved') = F
  BY DEF F
<1> QED
  BY <1>1, <1>2, <1>3, <1>4, <1>5, <1>6, Zenon DEF IniUnderway

LEMMA IniInvHolds == IniSpec => []IniInv
<1>1. IniInv /\ [IniNext]_iniVars => IniInv'
  <2> SUFFICES ASSUME IniInv, [IniNext]_iniVars PROVE IniInv'
    OBVIOUS
  <2> DEFINE Quiet == /\ UNCHANGED <<iniTodo, iniLines, iniCut, iniSaved>> /\ (iniTorn' <=> iniTorn)
                      /\ iniPc' # "save"
  <2>1. ASSUME Quiet, iniPc # "save" \/ iniTodo = <<>> PROVE IniInv'
    <3>1. CASE IniEdited
      BY <2>1, <3>1 DEF IniEdited, IniInv, IniParse
    <3>2. CASE IniUnderway
      <4>1. iniTodo = <<>>
        BY <2>1, <3>2 DEF IniUnderway
      <4>2. IniUnderway'
        BY <2>1, <3>2, <4>1 DEF IniUnderway
      <4> QED
        BY <4>2 DEF IniInv
    <3> QED
      BY <3>1, <3>2 DEF IniInv
  <2>2. CASE IniEdit
    <3>1. iniTodo = <<>> /\ iniPc = "quiet"
      BY <2>2 DEF IniEdit, IniInv, IniEdited, IniUnderway
    <3>2. IniEdited'
      BY <2>2, <3>1 DEF IniEdit, IniEdited, iniSaving
    <3> QED
      BY <3>2 DEF IniInv
  <2>3. ASSUME NEW o, IniLoad(o), UNCHANGED <<iniSaving, iniFile, iniHistory>>,
               iniPc # "save" \/ iniTodo = <<>>
        PROVE  IniInv'
    <3>1. Quiet
      BY <2>3 DEF IniLoad, iniSaving, iniFile, iniHistory
    <3> QED
      BY <2>1, <2>3, <3>1
  <2>4. ASSUME NEW o \in IniObjects, IniOpen(o) \/ IniReload(o) PROVE IniInv'
    BY <2>3, <2>4 DEF IniOpen, IniReload, IniQuiet
  <2>5. ASSUME NEW o \in IniObjects, IniFlush(o) PROVE IniInv'
    <3>1. IniUnderway'
      BY <2>5, IniFresh DEF IniFlush
    <3> QED
      BY <3>1 DEF IniInv
  <2>6. ASSUME NEW o \in IniObjects, IniClose(o) PROVE IniInv'
    <3>1. Quiet /\ iniPc # "save"
      BY <2>6 DEF IniClose, IniQuiet, iniSaving, iniFile, iniHistory
    <3> QED
      BY <2>1, <3>1
  <2>7. ASSUME NEW o, NEW k, IniErase(o, k) \/ \E v \in IniValues : IniWrite(o, k, v) PROVE IniInv'
    <3>1. Quiet /\ iniPc # "save"
      BY <2>7 DEF IniErase, IniWrite, IniQuiet, iniSaving, iniFile, iniHistory
    <3> QED
      BY <2>1, <3>1
  <2>8. CASE IniWriteLine
    <3>1. /\ iniPc = "save" /\ iniPc' = "save" /\ iniTodo # <<>> /\ iniSaved' = iniSaved
          /\ iniLines' = Append(iniLines, Head(iniTodo))
      BY <2>8 DEF IniWriteLine
    <3>2. IniUnderway
      BY <3>1 DEF IniInv, IniEdited
    <3>3. CASE iniTodo' = Tail(iniTodo) /\ UNCHANGED <<iniCut, iniTorn>>
      <4>1. IniUnderway'
        BY <3>1, <3>2, <3>3, IniLineMore DEF IniUnderway
      <4> QED
        BY <4>1 DEF IniInv
    <3>4. CASE iniTodo' = <<>> /\ iniCut' = TRUE /\ iniTorn' = TRUE
      <4>1. IniUnderway'
        BY <3>1, <3>2, <3>4, IniLineMore, EmptySeq DEF IniUnderway
      <4> QED
        BY <4>1 DEF IniInv
    <3> QED
      BY <2>8, <3>3, <3>4 DEF IniWriteLine
  <2>9. CASE IniSaveEnds
    BY <2>3, <2>9 DEF IniSaveEnds
  <2>10. CASE IniCrash
    <3>1. CASE iniTodo = <<>>
      <4>1. Quiet
        BY <2>10, <3>1 DEF IniCrash, iniFile, IniInv, IniEdited, IniUnderway
      <4> QED
        BY <2>1, <3>1, <4>1
    <3>2. CASE iniTodo # <<>>
      <4>1. IniUnderway
        BY <3>2 DEF IniInv, IniEdited
      <4>2. iniPc' = "quiet" /\ iniTodo' = <<>> /\ iniTorn' = TRUE /\ iniSaved' = iniSaved
        BY <2>10, <3>2 DEF IniCrash
      <4>3. CASE UNCHANGED iniFile
        <5>1. IniUnderway'
          BY <4>1, <4>2, <4>3, EmptySeq DEF IniUnderway, iniFile
        <5> QED
          BY <5>1 DEF IniInv
      <4>4. CASE iniLines' = Append(iniLines, Head(iniTodo)) /\ iniCut' = TRUE
        <5>1. IniUnderway'
          BY <3>2, <4>1, <4>2, <4>4, IniLineMore, EmptySeq DEF IniUnderway
        <5> QED
          BY <5>1 DEF IniInv
      <4> QED
        BY <2>10, <3>2, <4>3, <4>4 DEF IniCrash
    <3> QED
      BY <3>1, <3>2
  <2>11. CASE UNCHANGED iniVars
    <3>1. IniEdited => IniEdited'
      BY <2>11 DEF iniVars, iniSaving, iniFile, iniHistory, IniEdited
    <3>2. IniUnderway => IniUnderway'
      BY <2>11 DEF iniVars, iniSaving, iniFile, iniHistory, IniUnderway
    <3> QED
      BY <3>1, <3>2 DEF IniInv
  <2> QED
    BY <2>2, <2>4, <2>5, <2>6, <2>7, <2>8, <2>9, <2>10, <2>11 DEF IniNext
<1> QED
  BY <1>1, IniInvInit, PTL DEF IniSpec

\* What is read of a save under way, or cut off, is as it was saved.
LEMMA IniUnderwayRead ==
  ASSUME IniUnderway
  PROVE  /\ IniSub(IniParse(iniLines, iniCut), iniSaved)
         /\ iniPc = "quiet" /\ ~ iniTorn => IniHas(IniParse(iniLines, iniCut), iniSaved, IniKeys)
<1> DEFINE F == IniFormat(iniSaved)
           whole == IniWhole(iniLines, iniCut)
<1>1. iniLines \in Seq(IniWritten(iniSaved)) /\ Len(iniLines) \in Nat /\ Len(F) \in Nat
      /\ Len(iniLines) <= Len(F) /\ \A i \in 1 .. Len(iniLines) : iniLines[i] = F[i]
  BY IniFormatLen, LenProperties DEF IniUnderway
<1> HIDE DEF F
<1>2. /\ Len(whole) \in Nat /\ Len(whole) <= Len(F)
      /\ \A i \in 1 .. Len(whole) : whole[i] = F[i]
      /\ ~ iniCut => whole = iniLines
  <2>1. CASE ~ iniCut
    BY <1>1, <2>1 DEF IniWhole
  <2>2. CASE iniCut
    <3>1. whole = SubSeq(iniLines, 1, Len(iniLines) - 1)
      BY <2>2 DEF IniWhole, Front
    <3>2. Len(iniLines) > 0
      BY <1>1, <2>2, EmptySeq DEF IniUnderway
    <3> DEFINE n == Len(iniLines) - 1
    <3>3. n \in Nat /\ n <= Len(F) /\ \A i \in 1 .. n : i \in 1 .. Len(iniLines)
      BY <1>1, <3>2
    <3> HIDE DEF n
    <3>4. \A i \in 1 .. n : iniLines[i] \in IniWritten(iniSaved)
      BY <1>1, <3>3, ElementOfSeq
    <3>5. Len(SubSeq(iniLines, 1, n)) = n /\ \A i \in 1 .. n : SubSeq(iniLines, 1, n)[i] = iniLines[i]
      BY <3>3, <3>4, SubSeqProperties
    <3>6. whole = SubSeq(iniLines, 1, n)
      BY <3>1 DEF n
    <3> HIDE DEF whole
    <3> QED
      BY <1>1, <2>2, <3>3, <3>5, <3>6
  <2> QED
    BY <2>1, <2>2
<1> HIDE DEF whole
<1>3. /\ IniSub(IniParsed(whole).map, iniSaved)
      /\ Len(whole) = Len(F) => IniHas(IniParsed(whole).map, iniSaved, IniKeys)
  BY <1>2, IniBeginningRead DEF F
<1>4. IniParse(iniLines, iniCut) = IniParsed(whole).map
  BY DEF IniParse, whole
<1>5. ASSUME iniPc = "quiet", ~ iniTorn PROVE Len(whole) = Len(F)
  <2>1. ~ iniCut /\ iniTodo = <<>> /\ Len(iniTodo) = Len(F) - Len(iniLines)
    BY <1>5 DEF IniUnderway, F
  <2>2. Len(iniTodo) = 0
    BY <2>1, SMT
  <2> QED
    BY <1>1, <1>2, <2>1, <2>2
<1> QED
  BY <1>3, <1>4, <1>5

\* Whatever save was cut off, a value read from the file is as it was saved or missing, and a
\* save that was not cut off reads back whole (save_config, parse_config).
THEOREM IniIsKept == IniSpec => []IniKept
<1>1. IniInv => IniKept
  <2> SUFFICES ASSUME IniInv, NEW k \in IniKeys
               PROVE  LET now == IniRead(IniParse(iniLines, iniCut), k)
                      IN  /\ now \in {<<>>, IniRead(iniSaved, k)}
                          /\ iniPc = "quiet" /\ ~ iniTorn => now = IniRead(iniSaved, k)
    BY DEF IniKept
  <2>1. CASE IniEdited
    BY <2>1 DEF IniEdited
  <2>2. CASE IniUnderway
    <3>1. IniRead(IniParse(iniLines, iniCut), k) \in {<<>>, IniRead(iniSaved, k)}
      BY <2>2, IniUnderwayRead DEF IniSub, IniRead
    <3>2. iniPc = "quiet" /\ ~ iniTorn => IniRead(IniParse(iniLines, iniCut), k) = IniRead(iniSaved, k)
      BY <2>2, IniUnderwayRead DEF IniHas
    <3> QED
      BY <3>1, <3>2
  <2> QED
    BY <2>1, <2>2 DEF IniInv
<1> QED
  BY <1>1, IniInvHolds, PTL

\* Putting a value, or a map, adds its name to those of the map.
LEMMA IniPutNames ==
  ASSUME NEW map, NEW k, NEW v
  PROVE  /\ DOMAIN IniPut(map, k, v) = DOMAIN map \cup {k}
         /\ IniPut(map, k, v)[k] = v
         /\ \A n \in DOMAIN map : n # k => IniPut(map, k, v)[n] = map[n]
BY DEF IniPut

IniNamed ==
  DOMAIN iniMap \subseteq IniObjects /\ \A o \in DOMAIN iniMap : DOMAIN iniMap[o] \subseteq IniKeys

LEMMA IniTypesKeep == IniInv /\ IniTypeOK /\ [IniNext]_iniVars => IniTypeOK'
<1> SUFFICES ASSUME IniInv, IniTypeOK, [IniNext]_iniVars PROVE IniTypeOK'
  OBVIOUS
<1>1. DOMAIN IniParse(iniLines, iniCut) \subseteq IniKeys
  <2>1. DOMAIN iniSaved \subseteq IniKeys
    BY DEF IniTypeOK
  <2>2. CASE IniEdited
    BY <2>1, <2>2 DEF IniEdited
  <2>3. CASE IniUnderway
    BY <2>1, <2>3, IniUnderwayRead DEF IniSub
  <2> QED
    BY <2>2, <2>3 DEF IniInv
<1>2. IniNamed /\ iniSaver \in IniObjects
  BY DEF IniTypeOK, IniNamed
<1>3. UNCHANGED iniMap => IniNamed'
  BY <1>2 DEF IniNamed
\* What a step leaves of the file and of what is saved.
<1> DEFINE Same == UNCHANGED <<iniFile, iniHistory>>
<1>4. ASSUME Same, UNCHANGED iniSaver, IniNamed', iniPc' \in {"quiet", "save", "stuck"}
      PROVE  IniTypeOK'
  BY <1>4, Zenon DEF iniFile, iniHistory, IniNamed, IniTypeOK
<1>5. ASSUME NEW o \in IniObjects, IniLoad(o) PROVE IniNamed' /\ iniPc' \in {"quiet", "save", "stuck"}
  <2>1. iniMap' = iniMap \/ iniMap' = IniPut(iniMap, o, IniParse(iniLines, iniCut))
    BY <1>5 DEF IniLoad
  <2>2. CASE iniMap' = IniPut(iniMap, o, IniParse(iniLines, iniCut))
    <3>1. iniPc' \in {"quiet", "save", "stuck"}
      BY <1>5 DEF IniLoad
    <3> DEFINE p == IniParse(iniLines, iniCut)
    <3> DEFINE m == IniPut(iniMap, o, p)
    <3>2. iniMap' = m
      BY <2>2
    <3>3. DOMAIN p \subseteq IniKeys
      BY <1>1
    <3>4. DOMAIN m = DOMAIN iniMap \cup {o} /\ m[o] = p
          /\ \A n \in DOMAIN iniMap : n # o => m[n] = iniMap[n]
      BY DEF IniPut
    <3> HIDE DEF m, p
    <3>5. DOMAIN m \subseteq IniObjects
      BY <1>2, <3>4 DEF IniNamed
    <3>6. \A n \in DOMAIN m : DOMAIN m[n] \subseteq IniKeys
      BY <1>2, <3>3, <3>4 DEF IniNamed
    <3> QED
      BY <3>1, <3>2, <3>5, <3>6 DEF IniNamed
  <2> QED
    BY <1>3, <1>5, <2>1, <2>2 DEF IniLoad
<1>6. CASE IniEdit
  <2>1. iniLines' \in IniEdits /\ iniCut' \in {FALSE, iniLines' # <<>>} /\ iniTorn' = FALSE
        /\ iniSaved' = IniParse(iniLines', iniCut') /\ UNCHANGED <<iniPc, iniMap, iniSaver>>
    BY <1>6 DEF IniEdit, iniSaving
  <2>2. iniCut' \in BOOLEAN /\ (iniCut' => iniLines' # <<>>) /\ iniTorn' \in BOOLEAN
    BY <2>1, Zenon
  <2>3. DOMAIN iniSaved' \subseteq IniKeys
    BY <2>1, <2>2, IniEditAssumption, Zenon
  <2>4. iniPc' \in {"quiet", "save", "stuck"} /\ iniSaver' \in IniObjects
    BY <2>1 DEF IniTypeOK
  <2> QED
    BY <1>3, <2>1, <2>2, <2>3, <2>4, Zenon DEF IniNamed, IniTypeOK
<1>7. ASSUME NEW o \in IniObjects, IniOpen(o) \/ IniReload(o) PROVE IniTypeOK'
  BY <1>4, <1>5, <1>7 DEF IniOpen, IniReload, iniSaving
<1>8. ASSUME NEW o \in IniObjects, IniFlush(o) PROVE IniTypeOK'
  <2>1. /\ iniPc' = "save" /\ iniSaver' = o /\ iniCut' = FALSE /\ iniTorn' = FALSE
        /\ iniSaved' = iniMap[o] /\ o \in DOMAIN iniMap /\ UNCHANGED iniMap
    BY <1>8 DEF IniFlush, IniQuiet
  <2>2. DOMAIN iniSaved' \subseteq IniKeys
    BY <1>2, <2>1 DEF IniNamed
  <2>3. iniCut' \in BOOLEAN /\ iniTorn' \in BOOLEAN /\ ~ iniCut' /\ iniPc' \in {"quiet", "save", "stuck"}
    BY <2>1, Zenon
  <2> QED
    BY <1>3, <2>1, <2>2, <2>3, Zenon DEF IniNamed, IniTypeOK
<1>9. ASSUME NEW o \in IniObjects, IniClose(o) PROVE IniTypeOK'
  <2>1. IniNamed'
    BY <1>2, <1>9 DEF IniClose, IniNamed
  <2> QED
    BY <1>4, <1>9, <2>1 DEF IniClose, iniSaving, IniTypeOK
<1>10. ASSUME NEW o \in DOMAIN iniMap, NEW k \in IniKeys,
              IniErase(o, k) \/ \E v \in IniValues : IniWrite(o, k, v)
       PROVE  IniTypeOK'
  <2>1. \E m : iniMap' = [iniMap EXCEPT ![o] = m] /\ DOMAIN m \subseteq IniKeys
    <3>1. ASSUME IniErase(o, k) PROVE \E m : iniMap' = [iniMap EXCEPT ![o] = m] /\ DOMAIN m \subseteq IniKeys
      <4> DEFINE m == [n \in DOMAIN iniMap[o] \ {k} |-> iniMap[o][n]]
      <4>1. iniMap' = [iniMap EXCEPT ![o] = m]
        BY <3>1 DEF IniErase
      <4>2. DOMAIN m \subseteq IniKeys
        BY <1>2 DEF IniNamed
      <4> QED
        BY <4>1, <4>2
    <3>2. ASSUME NEW v, IniWrite(o, k, v)
          PROVE  \E m : iniMap' = [iniMap EXCEPT ![o] = m] /\ DOMAIN m \subseteq IniKeys
      <4> DEFINE m == IniPut(iniMap[o], k, v)
      <4>1. iniMap' = [iniMap EXCEPT ![o] = m]
        BY <3>2 DEF IniWrite
      <4>2. DOMAIN m = DOMAIN iniMap[o] \cup {k}
        BY IniPutNames, Zenon
      <4> HIDE DEF m
      <4>3. DOMAIN m \subseteq IniKeys
        BY <1>2, <4>2 DEF IniNamed
      <4> QED
        BY <4>1, <4>3
    <3> QED
      BY <1>10, <3>1, <3>2
  <2>2. IniNamed'
    BY <1>2, <2>1 DEF IniNamed
  <2>3. Same /\ UNCHANGED <<iniPc, iniSaver>>
    BY <1>10 DEF IniErase, IniWrite, iniSaving
  <2> QED
    BY <1>4, <2>2, <2>3 DEF IniTypeOK
<1>11. ASSUME IniWriteLine \/ IniCrash PROVE IniTypeOK'
  <2>1. UNCHANGED <<iniSaver, iniSaved>> /\ iniPc' \in {"quiet", "save"}
    BY <1>11 DEF IniWriteLine, IniCrash
  <2>2. IniNamed'
    <3>1. iniMap' = iniMap \/ iniMap' = <<>>
      BY <1>11 DEF IniWriteLine, IniCrash
    <3>2. DOMAIN (<<>>) = {}
      OBVIOUS
    <3> QED
      BY <1>3, <3>1, <3>2 DEF IniNamed
  <2>3. iniTorn' \in BOOLEAN /\ iniCut' \in BOOLEAN
    BY <1>11, Zenon DEF IniWriteLine, IniCrash, iniFile, IniTypeOK
  <2>4. iniCut' => iniLines' # <<>>
    <3>1. UNCHANGED iniFile \/ (IniUnderway /\ iniTodo # <<>> /\ iniLines' = Append(iniLines, Head(iniTodo)))
      BY <1>11 DEF IniWriteLine, IniCrash, IniInv, IniEdited
    <3>2. CASE IniUnderway /\ iniTodo # <<>> /\ iniLines' = Append(iniLines, Head(iniTodo))
      <4>1. iniLines \in Seq(IniWritten(iniSaved)) /\ Head(iniTodo) \in IniWritten(iniSaved)
        BY <3>2, HeadTailProperties DEF IniUnderway
      <4>2. Len(iniLines') = Len(iniLines) + 1 /\ Len(iniLines) \in Nat
        BY <3>2, <4>1, AppendProperties, LenProperties
      <4>3. Len(iniLines') # 0
        BY <4>2
      <4> QED
        BY <4>3
    <3> QED
      BY <3>1, <3>2 DEF iniFile, IniTypeOK
  <2> QED
    BY <2>1, <2>2, <2>3, <2>4, Zenon DEF IniNamed, IniTypeOK
<1>12. CASE IniSaveEnds
  BY <1>2, <1>4, <1>5, <1>12 DEF IniSaveEnds, iniSaving
<1>13. CASE UNCHANGED iniVars
  BY <1>3, <1>4, <1>13 DEF iniVars, iniSaving, IniTypeOK
<1> QED
  BY <1>6, <1>7, <1>8, <1>9, <1>10, <1>11, <1>12, <1>13 DEF IniNext

\* Type correctness of the configuration file and the objects over it, for any names, values
\* and edits.
THEOREM IniTypeCorrect == IniSpec => []IniTypeOK
<1>1. IniInit => IniTypeOK
  <2> SUFFICES ASSUME IniInit PROVE IniTypeOK
    OBVIOUS
  <2>1. iniMap = <<>> /\ iniSaved = <<>> /\ DOMAIN (<<>>) = {}
    BY DEF IniInit
  <2>2. iniCut \in BOOLEAN /\ iniTorn \in BOOLEAN /\ ~ iniCut
    BY Zenon DEF IniInit
  <2>3. iniPc \in {"quiet", "save", "stuck"} /\ iniSaver \in IniObjects
    BY DEF IniInit, IniObjects
  <2> QED
    BY <2>1, <2>2, <2>3 DEF IniTypeOK
<1> QED
  BY <1>1, IniTypesKeep, IniInvHolds, PTL DEF IniSpec

-----------------------------------------------------------------------------
(* URLs *)

\* What repeats a step n times, for the recursive functions that follow a text.
Repeats(f, z, step, n) == f[0] = z /\ \A i \in 1 .. n : f[i] = step[<<f[i - 1], i>>]

LEMMA RepeatsAll ==
  ASSUME NEW S, NEW z \in S, NEW N \in Nat, NEW step,
         \A s \in S, i \in 1 .. N : step[<<s, i>>] \in S
  PROVE  \E f \in [0 .. N -> S] : Repeats(f, z, step, N)
<1> DEFINE T == {n \in 0 .. N : \E f \in [0 .. n -> S] : Repeats(f, z, step, n)}
<1>1. 0 \in T
  <2> DEFINE f == [n \in 0 .. 0 |-> z]
  <2>1. f \in [0 .. 0 -> S] /\ f[0] = z /\ 1 .. 0 = {}
    OBVIOUS
  <2> HIDE DEF f
  <2>2. Repeats(f, z, step, 0)
    BY <2>1 DEF Repeats
  <2> QED
    BY <2>1, <2>2
<1>2. ASSUME NEW n \in 0 .. N, n \in T, n < N PROVE n + 1 \in T
  <2>1. PICK f \in [0 .. n -> S] : Repeats(f, z, step, n)
    BY <1>2
  <2>2. n \in 0 .. n /\ n + 1 \in 1 .. N /\ n + 1 \in 0 .. N /\ n \in Nat
    BY <1>2
  <2>3. f[n] \in S
    BY <2>1, <2>2
  <2> DEFINE more == step[<<f[n], n + 1>>]
  <2>4. more \in S
    BY <2>2, <2>3
  <2> HIDE DEF more
  <2> DEFINE h == [i \in 0 .. n + 1 |-> IF i <= n THEN f[i] ELSE more]
  <2>5. h \in [0 .. n + 1 -> S]
    <3>1. ASSUME NEW i \in 0 .. n + 1 PROVE (IF i <= n THEN f[i] ELSE more) \in S
      <4>1. i <= n => i \in 0 .. n
        BY <2>2
      <4> QED
        BY <2>1, <2>4, <4>1
    <3> QED
      BY <3>1
  <2>6. h[0] = z
    BY <2>1, <2>2 DEF Repeats
  <2>7. ASSUME NEW i \in 1 .. n + 1 PROVE h[i] = step[<<h[i - 1], i>>]
    <3>1. i \in 0 .. n + 1 /\ i - 1 \in 0 .. n + 1 /\ i - 1 <= n /\ (i <= n => i \in 1 .. n)
      BY <2>2
    <3>2. h[i - 1] = f[i - 1]
      BY <3>1
    <3>3. CASE i <= n
      <4>1. h[i] = f[i] /\ f[i] = step[<<f[i - 1], i>>]
        BY <2>1, <3>1, <3>3 DEF Repeats
      <4> QED
        BY <3>2, <4>1
    <3>4. CASE ~ (i <= n)
      <4>1. i = n + 1 /\ i - 1 = n /\ h[i] = more
        BY <2>2, <3>1, <3>4
      <4> QED
        BY <3>2, <4>1 DEF more
    <3> QED
      BY <3>3, <3>4
  <2> HIDE DEF h
  <2>8. Repeats(h, z, step, n + 1)
    BY <2>6, <2>7 DEF Repeats
  <2> QED
    BY <2>2, <2>5, <2>8
<1> HIDE DEF T
<1>3. N \in T
  <2>1. \A n \in 0 .. N : n \in T
    BY <1>1, <1>2, UpTo
  <2> QED
    BY <2>1
<1> QED
  BY <1>3 DEF T

\* A part of a text.
LEMMA UriPartOf ==
  ASSUME NEW S, NEW x \in Seq(S), NEW a \in Int, NEW b \in Int, 1 <= a, b <= Len(x)
  PROVE  SubSeq(x, a, b) \in Seq(S)
<1>1. Len(x) \in Nat
  BY LenProperties
<1>2. CASE a <= b + 1
  <2>1. a \in 1 .. Len(x) + 1 /\ b \in a - 1 .. Len(x)
    BY <1>1, <1>2
  <2> QED
    BY <2>1, SubSeqProperties
<1>3. CASE ~ (a <= b + 1)
  <2>1. 1 .. (b - a + 1) = {} 
    BY <1>3
  <2>2. SubSeq(x, a, b) = <<>>
    BY <1>3
  <2> QED
    BY <2>2, EmptySeq
<1> QED
  BY <1>2, <1>3

\* The least of some positive numbers.
LEMMA UriLeast ==
  ASSUME NEW T, T # {}, T \subseteq Nat
  PROVE  Min(T) \in T /\ \A y \in T : Min(T) <= y
<1>1. PICK x \in T : \A y \in T : ~ (<<y, x>> \in OpToRel(<, Nat))
  BY NatLessThanWellFounded, WFMin
<1>2. ASSUME NEW y \in T PROVE x <= y
  <2>1. x \in Nat /\ y \in Nat
    BY <1>1
  <2>2. ~ (y < x)
    BY <1>1, <2>1 DEF OpToRel
  <2> QED
    BY <2>1, <2>2
<1> QED
  BY <1>1, <1>2, Zenon DEF Min

LEMMA UriFindIn ==
  ASSUME NEW x, NEW i \in Nat, NEW j \in Int, 1 <= i, i <= j + 1, NEW S
  PROVE  /\ UriFind(x, i, j, S) \in i .. j + 1
         /\ \A k \in i .. UriFind(x, i, j, S) - 1 : x[k] \notin S
<1> DEFINE I == {k \in i .. j : x[k] \in S}
           at == IF I # {} THEN Min(I) ELSE 0
<1>1. UriFind(x, i, j, S) = IF at = 0 THEN j + 1 ELSE at
  BY Zenon DEF UriFind, SelectInSubSeq
<1>2. CASE I = {}
  BY <1>1, <1>2
<1>3. CASE I # {}
  <2>1. I \subseteq Nat
    OBVIOUS
  <2> HIDE DEF I
  <2>2. Min(I) \in I /\ \A k \in I : Min(I) <= k
    BY <1>3, <2>1, UriLeast
  <2>3. at = Min(I)
    BY <1>3
  <2>4. Min(I) \in i .. j
    BY <2>2 DEF I
  <2>5. UriFind(x, i, j, S) = Min(I)
    BY <1>1, <2>3, <2>4
  <2>6. ASSUME NEW k \in i .. Min(I) - 1 PROVE x[k] \notin S
    <3>1. k \in i .. j /\ ~ (Min(I) <= k)
      BY <2>4
    <3>2. k \notin I
      BY <2>2, <3>1
    <3> QED
      BY <3>1, <3>2 DEF I
  <2> QED
    BY <2>4, <2>5, <2>6
<1> QED
  BY <1>2, <1>3

\* The search from behind gives 0 or a position it was in.
LEMMA UriLastIn ==
  ASSUME NEW i \in Nat, NEW j \in Int, NEW I, I \subseteq i .. j
  PROVE  (IF I # {} THEN Max(I) ELSE 0) \in {0} \cup (i .. j)
<1>1. CASE I # {}
  <2>0. PICK y \in I : y \in i .. j
    BY <1>1
  <2>1. j \in Nat /\ i .. j \subseteq 0 .. j
    BY <2>0
  <2>2. Max(I) \in I
    BY <1>1, <2>1, Greatest
  <2> QED
    BY <1>1, <2>2
<1> QED
  BY <1>1

-----------------------------------------------------------------------------
(* The types of a Uri *)

\* A port of digits is a number.
LEMMA UriNumberIn ==
  ASSUME NEW x, Len(x) \in Nat, \A k \in 1 .. Len(x) : x[k] \in DOMAIN UriDigit
  PROVE  UriNumber(x) \in Nat
<1> DEFINE N == Len(x)
           Reader(f) == f = [n \in 0 .. N |-> IF n = 0 THEN 0 ELSE 10 * f[n - 1] + UriDigit[x[n]]]
           D == 1 .. N
           step == [p \in Nat \X D |-> 10 * p[1] + UriDigit[x[p[2]]]]
<1>1. \A c \in DOMAIN UriDigit : UriDigit[c] \in Nat
  BY DEF UriDigit
<1>2. ASSUME NEW s \in Nat, NEW i \in 1 .. N
      PROVE  step[<<s, i>>] = 10 * s + UriDigit[x[i]] /\ step[<<s, i>>] \in Nat
  <2>1. UriDigit[x[i]] \in Nat
    BY <1>1
  <2> QED
    BY <2>1
<1> HIDE DEF step
<1>3. PICK f \in [0 .. N -> Nat] : Repeats(f, 0, step, N)
  BY <1>2, RepeatsAll
<1>4. Reader(f)
  <2> DEFINE h == [n \in 0 .. N |-> IF n = 0 THEN 0 ELSE 10 * f[n - 1] + UriDigit[x[n]]]
  <2>1. ASSUME NEW n \in 0 .. N PROVE f[n] = h[n]
    <3>1. CASE n = 0
      BY <1>3, <3>1 DEF Repeats
    <3>2. CASE n # 0
      <4>1. n \in 1 .. N /\ n - 1 \in 0 .. N
        BY <3>2
      <4>2. f[n] = step[<<f[n - 1], n>>] /\ f[n - 1] \in Nat
        BY <1>3, <4>1 DEF Repeats
      <4> QED
        BY <1>2, <3>2, <4>1, <4>2
    <3> QED
      BY <3>1, <3>2
  <2>2. f = h
    BY <2>1
  <2> QED
    BY <2>2
<1> DEFINE at == CHOOSE g : Reader(g)
<1>5. Reader(at)
  BY <1>4, Zenon
<1>6. UriNumber(x) = at[N]
  BY Zenon DEF UriNumber
<1> HIDE DEF at
<1>7. \A n \in 0 .. N : at[n] \in Nat
  <2> DEFINE T == {n \in 0 .. N : at[n] \in Nat}
  <2>1. 0 \in T
    BY <1>5
  <2>2. ASSUME NEW n \in 0 .. N, n \in T, n < N PROVE n + 1 \in T
    <3>1. n + 1 \in 1 .. N /\ n + 1 \in 0 .. N /\ n + 1 # 0 /\ (n + 1) - 1 = n
      BY <2>2
    <3>2. at[n + 1] = 10 * at[n] + UriDigit[x[n + 1]]
      BY <1>5, <3>1
    <3>3. UriDigit[x[n + 1]] \in Nat /\ at[n] \in Nat
      BY <1>1, <2>2, <3>1
    <3> QED
      BY <3>1, <3>2, <3>3
  <2> HIDE DEF T
  <2>3. \A n \in 0 .. N : n \in T
    BY <2>1, <2>2, UpTo
  <2> QED
    BY <2>3 DEF T
<1> QED
  BY <1>6, <1>7

UriText == Seq(UriChar)

LEMMA UriTypeIs ==
  /\ UriNew \in UriType
  /\ \A u \in UriType :
       /\ u.scheme \in UriText /\ u.user \in UriText /\ u.password \in UriText
       /\ u.hostname \in UriText /\ u.portStr \in UriText /\ u.port \in Nat /\ u.path \in UriText
       /\ u.query \in UriText /\ u.existsQuery \in BOOLEAN
       /\ u.fragment \in UriText /\ u.existsFragment \in BOOLEAN
<1>1. <<>> \in UriText
  BY EmptySeq DEF UriText
<1>2. UriNew \in UriType
  BY <1>1 DEF UriNew, UriType, UriText
<1> QED
  BY <1>2 DEF UriType, UriText

LEMMA UriInitPathIn ==
  ASSUME NEW u \in UriType, NEW x \in UriText, NEW i \in Nat, 1 <= i, i <= Len(x) + 1
  PROVE  UriInitPath(u, x, i) \in UriType
<1> DEFINE n == Len(x)
           p == UriFind(x, i, n, {"?", "#"})
           h == UriFind(x, p, n, {"#"})
<1>1. n \in Nat
  BY LenProperties DEF UriText
<1> HIDE DEF n
<1>2. p \in i .. n + 1
  BY <1>1, UriFindIn DEF n
<1> HIDE DEF p
<1>3. h \in p .. n + 1
  BY <1>1, <1>2, UriFindIn
<1> HIDE DEF h
<1>4. SubSeq(x, i, p - 1) \in UriText
  <2>1. i \in Int /\ p - 1 \in Int /\ p - 1 <= Len(x)
    BY <1>1, <1>2 DEF n
  <2> QED
    BY <2>1, UriPartOf DEF UriText
<1>5. SubSeq(x, p + 1, h - 1) \in UriText
  <2>1. p + 1 \in Int /\ h - 1 \in Int /\ 1 <= p + 1 /\ h - 1 <= Len(x)
    BY <1>1, <1>2, <1>3 DEF n
  <2> QED
    BY <2>1, UriPartOf DEF UriText
<1>6. UriFrom(x, h + 1) \in UriText
  <2>1. h + 1 \in Int /\ Len(x) \in Int /\ 1 <= h + 1 /\ Len(x) <= Len(x)
    BY <1>1, <1>2, <1>3 DEF n
  <2> QED
    BY <2>1, UriPartOf DEF UriText, UriFrom
<1> DEFINE path == IF p = i THEN u.path ELSE SubSeq(x, i, p - 1)
           query == IF p < h THEN SubSeq(x, p + 1, h - 1) ELSE u.query
           fragment == IF h <= n THEN UriFrom(x, h + 1) ELSE u.fragment
           asks == u.existsQuery \/ p < h
           points == u.existsFragment \/ h <= n
<1>7. path \in UriText /\ query \in UriText /\ fragment \in UriText
  BY <1>4, <1>5, <1>6, UriTypeIs
<1>8. asks \in BOOLEAN /\ points \in BOOLEAN
  OBVIOUS
<1>9. UriInitPath(u, x, i)
      = [u EXCEPT !.path = path, !.query = query, !.existsQuery = asks,
                  !.fragment = fragment, !.existsFragment = points]
  BY Zenon DEF UriInitPath, n, p, h
<1> HIDE DEF path, query, fragment, asks, points
<1> QED
  BY <1>7, <1>8, <1>9 DEF UriType, UriText

\* Of an x with a scheme: where its parts are.
LEMMA UriHostInfoIn ==
  ASSUME NEW x \in UriText, UriScheme(x) > 0
  PROVE  LET i == UriHostInfo(x)
         IN  /\ UriScheme(x) \in Nat /\ UriScheme(x) <= Len(x) /\ Len(x) \in Nat
             /\ i.first \in 1 .. Len(x) + 1 /\ i.last \in Int
             /\ i.first - 1 <= i.last /\ i.last <= Len(x)
             /\ i.at \in i.first - 1 .. i.last /\ i.colon \in i.at + 1 .. i.last + 1
<1> DEFINE n == Len(x)
           s == UriFind(x, 1, Len(x), {":", "/", "?", "#"})
           b == UriScheme(x) + 4
           e == UriFind(x, b, Len(x), {"/", "?", "#"}) - 1
           at == SelectLastInSubSeq(x, b, e, LAMBDA c : c = "@")
           a == IF at = 0 THEN b - 1 ELSE at
           colon == UriFind(x, a + 1, e, {":"})
<1>1. Len(x) \in Nat
  BY LenProperties DEF UriText
<1>2. s \in 1 .. Len(x) + 1
  BY <1>1, UriFindIn
<1>3. UriScheme(x) = s - 1 /\ s + 2 <= Len(x)
  BY <1>2 DEF UriScheme
<1> HIDE DEF s
<1>4. b \in Nat /\ 1 <= b /\ b <= Len(x) + 1 /\ UriScheme(x) \in Nat /\ UriScheme(x) <= Len(x)
  BY <1>1, <1>2, <1>3
<1> HIDE DEF b
<1>5. e + 1 \in b .. Len(x) + 1 /\ e \in Int
  <2>1. UriFind(x, b, Len(x), {"/", "?", "#"}) \in b .. Len(x) + 1
    BY <1>1, <1>4, UriFindIn
  <2> QED
    BY <1>4, <2>1
<1> HIDE DEF e
<1>6. at \in {0} \cup (b .. e)
  <2> DEFINE I == {k \in b .. e : x[k] = "@"}
  <2>1. at = IF I # {} THEN Max(I) ELSE 0
    BY Zenon DEF SelectLastInSubSeq
  <2>2. I \subseteq b .. e
    OBVIOUS
  <2> HIDE DEF I, at
  <2> QED
    BY <1>4, <1>5, <2>1, <2>2, UriLastIn
<1> HIDE DEF at
<1>7. a \in b - 1 .. e
  BY <1>4, <1>5, <1>6
<1> HIDE DEF a
<1>8. colon \in a + 1 .. e + 1
  <2>1. a + 1 \in Nat /\ 1 <= a + 1 /\ a + 1 <= e + 1
    BY <1>4, <1>5, <1>7
  <2> QED
    BY <1>5, <2>1, UriFindIn
<1>9. UriHostInfo(x) = [first |-> b, last |-> e, at |-> a, colon |-> colon]
  BY Zenon DEF UriHostInfo, b, e, at, a
<1> HIDE DEF colon
<1> QED
  BY <1>1, <1>4, <1>5, <1>7, <1>8, <1>9

LEMMA UriInitIn ==
  ASSUME NEW x \in UriText, ~ UriThrows(x)
  PROVE  UriInit(UriNew, x) \in UriType
<1> DEFINE u == UriNew
           i == UriHostInfo(x)
<1>1. u \in UriType
  BY UriTypeIs
<1> HIDE DEF u
<1>2. Len(x) \in Nat
  BY LenProperties DEF UriText
<1>3. CASE UriScheme(x) = 0
  <2>1. UriInitPath(u, x, 1) \in UriType
    BY <1>1, <1>2, UriInitPathIn
  <2> QED
    BY <1>3, <2>1 DEF UriInit, u
<1>4. CASE UriScheme(x) # 0
  <2>1. UriScheme(x) > 0
    <3>1. UriFind(x, 1, Len(x), {":", "/", "?", "#"}) \in 1 .. Len(x) + 1
      BY <1>2, UriFindIn
    <3> QED
      BY <1>4, <3>1 DEF UriScheme
  <2>2. /\ UriScheme(x) \in Nat /\ UriScheme(x) <= Len(x)
        /\ i.first \in 1 .. Len(x) + 1 /\ i.last \in Int
        /\ i.first - 1 <= i.last /\ i.last <= Len(x)
        /\ i.at \in i.first - 1 .. i.last /\ i.colon \in i.at + 1 .. i.last + 1
    BY <2>1, UriHostInfoIn
  <2>3. \A k \in i.colon + 1 .. i.last : x[k] \in DOMAIN UriDigit
    BY <2>1, Zenon DEF UriThrows
  <2> HIDE DEF i
  <2>4. ASSUME NEW a \in Int, NEW b \in Int, 1 <= a, b <= Len(x) PROVE SubSeq(x, a, b) \in UriText
    BY <2>4, UriPartOf DEF UriText
  <2> DEFINE v == [u EXCEPT !.scheme = SubSeq(x, 1, UriScheme(x))]
  <2>5. v \in UriType
    <3>1. SubSeq(x, 1, UriScheme(x)) \in UriText
      BY <2>2, <2>4
    <3> QED
      BY <1>1, <3>1 DEF UriType, UriText
  <2> HIDE DEF v
  <2> DEFINE w == UriInitUser(v, x, i)
  <2>6. w \in UriType
    <3> DEFINE c == UriFind(x, i.first, i.at - 1, {":"})
    <3>1. CASE i.at < i.first
      BY <2>5, <3>1 DEF UriInitUser
    <3>2. CASE ~ (i.at < i.first)
      <4>1. c \in i.first .. i.at
        <5>1. i.first \in Nat /\ i.at - 1 \in Int /\ 1 <= i.first /\ i.first <= (i.at - 1) + 1
          BY <2>2, <3>2
        <5>2. c \in i.first .. (i.at - 1) + 1
          BY <5>1, UriFindIn
        <5> QED
          BY <2>2, <5>2
      <4> HIDE DEF c
      <4>2. SubSeq(x, i.first, c - 1) \in UriText /\ SubSeq(x, c + 1, i.at - 1) \in UriText
        <5>1. /\ i.first \in Int /\ c - 1 \in Int /\ 1 <= i.first /\ c - 1 <= Len(x)
              /\ c + 1 \in Int /\ i.at - 1 \in Int /\ 1 <= c + 1 /\ i.at - 1 <= Len(x)
          BY <1>2, <2>2, <4>1
        <5> QED
          BY <2>4, <5>1
      <4> DEFINE user == SubSeq(x, i.first, c - 1)
                 password == IF c < i.at THEN SubSeq(x, c + 1, i.at - 1) ELSE v.password
      <4>3. user \in UriText /\ password \in UriText
        BY <2>5, <4>2, UriTypeIs
      <4>4. w = [v EXCEPT !.user = user, !.password = password]
        BY <3>2, Zenon DEF UriInitUser, c
      <4> HIDE DEF user, password, w
      <4> QED
        BY <2>5, <4>3, <4>4 DEF UriType, UriText
    <3> QED
      BY <3>1, <3>2
  <2> HIDE DEF w
  <2> DEFINE y == UriInitHost(w, x, i)
  <2>7. y \in UriType
    <3> DEFINE port == SubSeq(x, i.colon + 1, i.last)
               host == SubSeq(x, i.at + 1, i.colon - 1)
    <3>1. port \in UriText /\ host \in UriText
      <4>1. /\ i.colon + 1 \in Int /\ 1 <= i.colon + 1 /\ i.at + 1 \in Int /\ 1 <= i.at + 1
            /\ i.colon - 1 \in Int /\ i.colon - 1 <= Len(x)
        <5>1. i.at \in Int /\ 0 <= i.at
          BY <1>2, <2>2
        <5>2. i.colon \in Int /\ 1 <= i.colon /\ i.colon <= i.last + 1
          BY <2>2, <5>1
        <5> QED
          BY <1>2, <2>2, <5>1, <5>2
      <4> QED
        BY <2>2, <2>4, <4>1
    <3>2. UriNumber(port) \in Nat
      <4>1. i.colon + 1 \in Int /\ i.last \in Int /\ 1 <= i.colon + 1
        BY <2>2
      <4>2. \A k \in 1 .. Len(port) : port[k] \in DOMAIN UriDigit
        <5>1. CASE i.colon + 1 <= i.last + 1
          <6>1. i.colon + 1 \in 1 .. Len(x) + 1 /\ i.last \in (i.colon + 1) - 1 .. Len(x)
            BY <1>2, <2>2, <5>1
          <6>2. Len(port) = i.last - (i.colon + 1) + 1
                /\ \A k \in 1 .. Len(port) : port[k] = x[(i.colon + 1) + k - 1]
            BY <6>1, SubSeqProperties DEF UriText
          <6> HIDE DEF port
          <6>3. ASSUME NEW k \in 1 .. Len(port) PROVE (i.colon + 1) + k - 1 \in i.colon + 1 .. i.last
            <7> DEFINE q == i.colon + 1
            <7>1. q \in Int /\ k \in Int /\ 1 <= k /\ k <= i.last - q + 1
              BY <4>1, <6>2
            <7> HIDE DEF q
            <7>2. q + k - 1 \in q .. i.last
              BY <4>1, <7>1
            <7> QED
              BY <7>2 DEF q
          <6> QED
            BY <2>3, <6>2, <6>3
        <5>2. CASE ~ (i.colon + 1 <= i.last + 1)
          <6>1. Len(port) = 0
            BY <4>1, <5>2
          <6> HIDE DEF port
          <6> QED
            BY <6>1
        <5> QED
          BY <5>1, <5>2
      <4>3. Len(port) \in Nat
        BY <3>1, LenProperties DEF UriText
      <4> QED
        BY <4>2, <4>3, UriNumberIn
    <3>3. UriPortOf(w.scheme) \in Nat
      BY DEF UriPortOf
    <3> HIDE DEF port, host
    <3> DEFINE ps == IF port # <<>> THEN port ELSE w.portStr
               pn == IF port # <<>> THEN UriNumber(port)
                     ELSE IF i.colon = i.last THEN UriPortOf(w.scheme) ELSE w.port
    <3>4. ps \in UriText /\ pn \in Nat
      BY <2>6, <3>1, <3>2, <3>3, UriTypeIs
    <3>5. y = [w EXCEPT !.hostname = host, !.portStr = ps, !.port = pn]
      BY Zenon DEF UriInitHost, port, host
    <3> HIDE DEF ps, pn, y
    <3> QED
      BY <2>6, <3>1, <3>4, <3>5 DEF UriType, UriText
  <2> HIDE DEF y
  <2>8. UriInitPath(y, x, i.last + 1) \in UriType
    <3>1. i.last + 1 \in Nat /\ 1 <= i.last + 1 /\ i.last + 1 <= Len(x) + 1
      BY <1>2, <2>2
    <3> QED
      BY <2>7, <3>1, UriInitPathIn
  <2>9. UriInit(u, x) = UriInitPath(y, x, i.last + 1)
    BY <1>4, Zenon DEF UriInit, i, v, w, y
  <2> QED
    BY <2>8, <2>9 DEF u
<1> QED
  BY <1>3, <1>4

\* Two texts, one after the other.
LEMMA UriJoin ==
  ASSUME NEW x \in UriText, NEW y \in UriText
  PROVE  x \o y \in UriText
BY ConcatProperties DEF UriText

LEMMA UriOneChar ==
  ASSUME NEW c \in UriChar
  PROVE  <<c>> \in UriText
BY DEF UriText

LEMMA UriUnparseIn ==
  ASSUME NEW u \in UriType, NEW fragment \in BOOLEAN
  PROVE  UriUnparse(u, fragment) \in UriText
<1>0. {":", "/", "?", "#"} \subseteq UriChar
  BY DEF UriChar
<1>1. <<>> \in UriText /\ <<":", "/", "/">> \in UriText
  BY <1>0, EmptySeq DEF UriText
<1>2. <<":">> \in UriText /\ <<"?">> \in UriText /\ <<"#">> \in UriText
  BY <1>0, UriOneChar
<1> DEFINE scheme == IF u.scheme = <<>> THEN <<>> ELSE u.scheme \o <<":", "/", "/">>
           port == IF u.portStr = <<>> \/ (u.scheme # <<>> /\ u.port = UriPortOf(u.scheme))
                     THEN <<>> ELSE <<":">> \o u.portStr
           query == IF u.existsQuery THEN <<"?">> \o u.query ELSE <<>>
           frag == IF fragment /\ u.existsFragment THEN <<"#">> \o u.fragment ELSE <<>>
<1>3. scheme \in UriText
  BY <1>1, UriTypeIs, UriJoin
<1>4. port \in UriText
  <2>1. <<":">> \o u.portStr \in UriText
    BY <1>2, UriTypeIs, UriJoin
  <2> QED
    BY <1>1, <2>1
<1>5. query \in UriText
  BY <1>1, <1>2, UriTypeIs, UriJoin
<1>6. frag \in UriText
  BY <1>1, <1>2, UriTypeIs, UriJoin
<1>7. UriUnparse(u, fragment) = scheme \o u.hostname \o port \o u.path \o query \o frag
  BY Zenon DEF UriUnparse
<1>8. u.hostname \in UriText /\ u.path \in UriText
  BY UriTypeIs
<1> HIDE DEF scheme, port, query, frag
<1>9. scheme \o u.hostname \in UriText
  BY <1>3, <1>8, UriJoin
<1>10. scheme \o u.hostname \o port \in UriText
  BY <1>4, <1>9, UriJoin
<1>11. scheme \o u.hostname \o port \o u.path \in UriText
  BY <1>8, <1>10, UriJoin
<1>12. scheme \o u.hostname \o port \o u.path \o query \in UriText
  BY <1>5, <1>11, UriJoin
<1> QED
  BY <1>6, <1>7, <1>12, UriJoin

\* What normalize_slashs holds after any beginning of a path.
UriNormalizing == [ret : UriText, dots : -1 .. 2]

LEMMA UriUpIn ==
  ASSUME NEW x \in UriText
  PROVE  UriUp(x) \in UriText
<1> DEFINE I == {k \in 1 .. Len(x) - 1 : x[k] = "/"}
           at == IF I # {} THEN Max(I) ELSE 0
<1>1. Len(x) \in Nat
  BY LenProperties DEF UriText
<1>2. UriUp(x) = IF at = 0 THEN x ELSE SubSeq(x, 1, at)
  BY Zenon DEF UriUp, SelectLastInSubSeq
<1>3. at \in {0} \cup (1 .. Len(x) - 1)
  <2>1. I \subseteq 1 .. Len(x) - 1 /\ Len(x) - 1 \in Int
    BY <1>1
  <2> HIDE DEF I
  <2> QED
    BY <2>1, UriLastIn
<1> HIDE DEF at
<1>4. at # 0 => SubSeq(x, 1, at) \in UriText
  <2>1. at # 0 => at \in Int /\ at <= Len(x)
    BY <1>1, <1>3
  <2> QED
    BY <2>1, UriPartOf DEF UriText
<1> QED
  BY <1>2, <1>4

LEMMA UriNormalizeStepIn ==
  ASSUME NEW s \in UriNormalizing, NEW c \in UriChar
  PROVE  UriNormalizeStep(s, c) \in UriNormalizing
<1>1. s.ret \in UriText /\ s.dots \in -1 .. 2
  BY DEF UriNormalizing
<1>2. CASE s.dots = -1
  <2>1. Append(s.ret, c) \in UriText
    BY <1>1, AppendProperties DEF UriText
  <2>2. UriNormalizeStep(s, c) = [ret |-> Append(s.ret, c), dots |-> IF c = "/" THEN 0 ELSE -1]
    BY <1>2 DEF UriNormalizeStep
  <2> QED
    BY <2>1, <2>2 DEF UriNormalizing
<1>3. CASE s.dots # -1 /\ c = "." /\ s.dots < 2
  <2>1. UriNormalizeStep(s, c) = [s EXCEPT !.dots = s.dots + 1]
    BY <1>1, <1>3 DEF UriNormalizeStep
  <2>2. s.dots + 1 \in -1 .. 2
    BY <1>1, <1>3
  <2> QED
    BY <2>1, <2>2 DEF UriNormalizing
<1>4. CASE s.dots \in {0, 1} /\ c = "/"
  <2>1. UriNormalizeStep(s, c) = [s EXCEPT !.dots = 0]
    BY <1>1, <1>4 DEF UriNormalizeStep
  <2> QED
    BY <2>1 DEF UriNormalizing
<1>5. CASE s.dots = 2 /\ c = "/"
  <2>1. UriNormalizeStep(s, c) = [ret |-> UriUp(s.ret), dots |-> 0]
    BY <1>1, <1>5 DEF UriNormalizeStep
  <2>2. UriUp(s.ret) \in UriText
    BY <1>1, UriUpIn
  <2> QED
    BY <2>1, <2>2 DEF UriNormalizing
<1>6. CASE s.dots # -1 /\ ~ (c = "." /\ s.dots < 2) /\ c # "/"
  <2> DEFINE held == [i \in 1 .. s.dots |-> "."]
  <2>1. held \in UriText
    <3>1. s.dots \in Nat
      BY <1>1, <1>6
    <3>2. held \in [1 .. s.dots -> UriChar]
      BY DEF UriChar
    <3> HIDE DEF held
    <3> QED
      BY <3>1, <3>2 DEF UriText
  <2>2. UriNormalizeStep(s, c) = [ret |-> s.ret \o held \o <<c>>, dots |-> -1]
    BY <1>1, <1>6 DEF UriNormalizeStep
  <2> HIDE DEF held
  <2>3. s.ret \o held \in UriText
    BY <1>1, <2>1, UriJoin
  <2>4. s.ret \o held \o <<c>> \in UriText
    BY <2>3, UriJoin, UriOneChar
  <2> QED
    BY <2>2, <2>4 DEF UriNormalizing
<1> QED
  BY <1>1, <1>2, <1>3, <1>4, <1>5, <1>6

LEMMA UriNormalizeIn ==
  ASSUME NEW x \in UriText
  PROVE  normalize_slashs(x) \in UriText
<1> DEFINE N == Len(x)
           Z == UriNormalizeNone
           S == UriNormalizing
           Reader(f) == f = [n \in 0 .. N |-> IF n = 0 THEN Z ELSE UriNormalizeStep(f[n - 1], x[n])]
           D == 1 .. N
           step == [p \in S \X D |-> UriNormalizeStep(p[1], x[p[2]])]
<1>1. N \in Nat /\ \A n \in 1 .. N : x[n] \in UriChar
  BY LenProperties, ElementOfSeq DEF UriText
<1>2. Z \in S
  BY EmptySeq DEF UriNormalizeNone, UriNormalizing, UriText
<1> HIDE DEF S, Z
<1>3. ASSUME NEW s \in S, NEW i \in 1 .. N
      PROVE  step[<<s, i>>] = UriNormalizeStep(s, x[i]) /\ step[<<s, i>>] \in S
  <2>1. UriNormalizeStep(s, x[i]) \in S
    BY <1>1, UriNormalizeStepIn DEF S
  <2> QED
    BY <2>1
<1> HIDE DEF step
<1>4. PICK f \in [0 .. N -> S] : Repeats(f, Z, step, N)
  <2> HIDE DEF N
  <2> QED
    BY <1>1, <1>2, <1>3, RepeatsAll
<1>5. Reader(f)
  <2> DEFINE h == [n \in 0 .. N |-> IF n = 0 THEN Z ELSE UriNormalizeStep(f[n - 1], x[n])]
  <2>1. ASSUME NEW n \in 0 .. N PROVE f[n] = h[n]
    <3>1. CASE n = 0
      BY <1>4, <3>1 DEF Repeats
    <3>2. CASE n # 0
      <4>1. n \in 1 .. N /\ n - 1 \in 0 .. N
        BY <1>1, <3>2
      <4>2. f[n] = step[<<f[n - 1], n>>] /\ f[n - 1] \in S
        BY <1>4, <4>1 DEF Repeats
      <4>3. f[n] = UriNormalizeStep(f[n - 1], x[n])
        BY <1>3, <4>1, <4>2
      <4> QED
        BY <3>2, <4>3
    <3> QED
      BY <3>1, <3>2
  <2>2. f = h
    BY <2>1
  <2> QED
    BY <2>2
<1> DEFINE at == CHOOSE g : Reader(g)
<1>6. Reader(at)
  BY <1>5, Zenon
<1>7. normalize_slashs(x) = at[N].ret
  BY Zenon DEF normalize_slashs, Z
<1> HIDE DEF at
<1>8. \A n \in 0 .. N : at[n] \in S
  <2> DEFINE T == {n \in 0 .. N : at[n] \in S}
  <2>1. 0 \in T
    BY <1>1, <1>2, <1>6
  <2>2. ASSUME NEW n \in 0 .. N, n \in T, n < N PROVE n + 1 \in T
    <3>1. n + 1 \in 1 .. N /\ n + 1 \in 0 .. N /\ n + 1 # 0 /\ (n + 1) - 1 = n
      BY <1>1, <2>2
    <3>2. at[n + 1] = UriNormalizeStep(at[n], x[n + 1])
      BY <1>6, <3>1
    <3>3. at[n] \in S /\ x[n + 1] \in UriChar
      BY <1>1, <2>2, <3>1
    <3>4. UriNormalizeStep(at[n], x[n + 1]) \in S
      BY <3>3, UriNormalizeStepIn DEF S
    <3> QED
      BY <3>1, <3>2, <3>4
  <2> HIDE DEF T
  <2>3. \A n \in 0 .. N : n \in T
    <3> HIDE DEF N
    <3> QED
      BY <1>1, <2>1, <2>2, UpTo
  <2> QED
    BY <2>3 DEF T
<1>9. at[N] \in S
  BY <1>1, <1>8
<1> QED
  BY <1>7, <1>9 DEF S, UriNormalizing

LEMMA UriAbsoluteIn ==
  ASSUME NEW u \in UriType, NEW base \in UriType
  PROVE  UriAbsolute(u, base) \in UriType
<1>1. ASSUME NEW v \in UriType PROVE UriSlash(v) \in UriType
  <2>1. <<"/">> \in UriText
    BY UriOneChar DEF UriChar
  <2> QED
    BY <2>1 DEF UriSlash, UriType, UriText
<1>2. ASSUME NEW root \in UriType, NEW p \in UriText PROVE UriOn(root, u, p) \in UriType
  BY <1>2 DEF UriOn, UriType, UriText
<1> DEFINE root == UriSlash(base)
           I == {k \in 1 .. Len(root.path) : root.path[k] = "/"}
           at == IF I # {} THEN Max(I) ELSE 0
           dir == IF at = 0 THEN root.path ELSE SubSeq(root.path, 1, at)
           path == IF u.path[1] = "/" THEN u.path ELSE dir \o u.path
<1>3. root \in UriType
  BY <1>1
<1>4. UriAbsolute(u, base)
      = IF u.scheme # <<>> THEN UriSlash(u)
        ELSE IF u.path # <<>> THEN UriOn(root, u, path)
        ELSE IF u.existsQuery THEN UriOn(root, u, root.path)
        ELSE IF u.existsFragment THEN [root EXCEPT !.fragment = u.fragment, !.existsFragment = TRUE]
        ELSE root
  BY Zenon DEF UriAbsolute, SelectLastInSeq
<1> HIDE DEF root
<1>5. root.path \in UriText /\ u.path \in UriText /\ Len(root.path) \in Nat
  BY <1>3, UriTypeIs, LenProperties DEF UriText
<1>6. at \in {0} \cup (1 .. Len(root.path))
  <2> DEFINE n == Len(root.path)
  <2>1. I \subseteq 1 .. n /\ n \in Int /\ 1 \in Nat
    BY <1>5
  <2> HIDE DEF I, n
  <2>2. (IF I # {} THEN Max(I) ELSE 0) \in {0} \cup (1 .. n)
    BY <2>1, UriLastIn
  <2> QED
    BY <2>2 DEF n
<1> HIDE DEF at
<1>7. dir \in UriText
  <2>1. CASE at = 0
    BY <1>5, <2>1
  <2>2. CASE at # 0
    <3>1. at \in Int /\ at <= Len(root.path)
      BY <1>5, <1>6, <2>2
    <3>2. SubSeq(root.path, 1, at) \in UriText
      BY <1>5, <3>1, UriPartOf DEF UriText
    <3> QED
      BY <2>2, <3>2
  <2> QED
    BY <2>1, <2>2
<1> HIDE DEF dir
<1>8. path \in UriText
  BY <1>5, <1>7, UriJoin
<1> HIDE DEF path
<1>9. [root EXCEPT !.fragment = u.fragment, !.existsFragment = TRUE] \in UriType
  BY <1>3 DEF UriType, UriText
<1> QED
  BY <1>1, <1>2, <1>3, <1>4, <1>5, <1>8, <1>9

LEMMA LinkCleanIn ==
  ASSUME NEW x \in UriText
  PROVE  LinkClean(x) \in UriText
<1>1. Len(x) \in Nat /\ DOMAIN x = 1 .. Len(x) /\ \A i \in 1 .. Len(x) : x[i] \in UriChar
  BY LenProperties, ElementOfSeq DEF UriText
<1>2. LinkClean(x) \in [1 .. Len(x) -> UriChar]
  BY <1>1 DEF LinkClean, UriChar
<1> QED
  BY <1>1, <1>2 DEF UriText

\* The types of the page, the link and its URL are kept, for any pages and links and
\* however many of them are followed: a page whose URL has a port that is no number is
\* none (init, unparse, absolute, normalize_slashs, convert_link).
THEOREM LinkTypeCorrect == LinkSpec => []LinkTypeOK
<1> USE DEF LinkTypeOK
<1>1. <<>> \in UriText
  BY EmptySeq DEF UriText
<1>2. LinkInit => LinkTypeOK
  BY <1>1, UriTypeIs DEF LinkInit, UriText
<1>3. LinkTypeOK /\ [LinkNext]_linkVars => LinkTypeOK'
  <2> SUFFICES ASSUME LinkTypeOK, [LinkNext]_linkVars PROVE LinkTypeOK'
    OBVIOUS
  <2>1. ASSUME NEW x \in UriPages, LinkOpen(x) PROVE LinkTypeOK'
    <3>1. x \in UriText
      BY UriAssumption DEF UriText
    <3>2. linkRoot' \in UriType
      BY <2>1, <3>1, UriInitIn DEF LinkOpen
    <3> QED
      BY <2>1, <3>2 DEF LinkOpen
  <2>2. ASSUME NEW x \in UriLinks, convert_link(x) PROVE LinkTypeOK'
    <3>1. CASE UriThrows(LinkClean(x))
      BY <2>2, <3>1 DEF convert_link
    <3>2. CASE ~ UriThrows(LinkClean(x))
      <4>1. /\ linkRel' = UriInit(UriNew, LinkClean(x)) /\ linkUri' = LinkResolve(linkRel', linkRoot)
            /\ linkOut' = UriUnparse(linkUri', FALSE) /\ linkRoot' = linkRoot
        BY <2>2, <3>2 DEF convert_link
      <4>2. LinkClean(x) \in UriText
        BY UriAssumption, LinkCleanIn DEF UriText
      <4>3. linkRel' \in UriType
        BY <3>2, <4>1, <4>2, UriInitIn
      <4> DEFINE a == UriAbsolute(linkRel', linkRoot)
      <4>4. a \in UriType
        BY <4>3, UriAbsoluteIn
      <4>5. linkUri' = [a EXCEPT !.path = normalize_slashs(a.path)]
        BY <4>1, Zenon DEF LinkResolve
      <4> HIDE DEF a
      <4>6. normalize_slashs(a.path) \in UriText
        BY <4>4, UriTypeIs, UriNormalizeIn
      <4>7. linkUri' \in UriType
        BY <4>4, <4>5, <4>6 DEF UriType, UriText
      <4>8. linkOut' \in UriText
        BY <4>1, <4>7, UriUnparseIn
      <4> QED
        BY <4>1, <4>3, <4>7, <4>8 DEF UriText
    <3> QED
      BY <3>1, <3>2
  <2>3. CASE LinkFollow
    <3>1. linkOut \in UriText /\ ~ UriThrows(linkOut)
      BY <2>3 DEF LinkFollow, UriText
    <3>2. linkRoot' \in UriType
      BY <2>3, <3>1, UriInitIn DEF LinkFollow
    <3> QED
      BY <1>1, <2>3, <3>2, UriTypeIs DEF LinkFollow, UriText
  <2>4. CASE UNCHANGED linkVars
    BY <2>4 DEF linkVars
  <2> QED
    BY <2>1, <2>2, <2>3, <2>4 DEF LinkNext
<1> QED
  BY <1>2, <1>3, PTL DEF LinkSpec

-----------------------------------------------------------------------------
(* The parts together *)

\* Each part of Library steps as it does alone, or stutters while another one is used.
LEMMA LibraryParts ==
  Spec => /\ SlabSpec /\ TableSpec /\ DbSpec /\ TcpSpec /\ SessSpec /\ IniSpec /\ RankSpec
          /\ HtmlSpec /\ LinkSpec
<1>1. Init => /\ SlabInit /\ TableInit /\ DbInit /\ TcpInit /\ SessInit /\ IniInit /\ RankInit
              /\ HtmlInit /\ LinkInit
  BY DEF Init
<1>2. [Next]_libraryVars => [SlabNext]_slabVars
  BY DEF Next, libraryVars, UseHtml, UseSlab, UseTable, UseDb, UseRank, UseIni, UseTcp, UseSess,
         UseLink
<1>3. [Next]_libraryVars => [TableNext]_tableVars
  BY DEF Next, libraryVars, UseHtml, UseSlab, UseTable, UseDb, UseRank, UseIni, UseTcp, UseSess,
         UseLink
<1>4. [Next]_libraryVars => [DbNext]_dbVars
  BY DEF Next, libraryVars, UseHtml, UseSlab, UseTable, UseDb, UseRank, UseIni, UseTcp, UseSess,
         UseLink
<1>5. [Next]_libraryVars => [TcpNext]_tcpVars
  BY DEF Next, libraryVars, UseHtml, UseSlab, UseTable, UseDb, UseRank, UseIni, UseTcp, UseSess,
         UseLink
<1>6. [Next]_libraryVars => [SessNext]_sessVars
  BY DEF Next, libraryVars, UseHtml, UseSlab, UseTable, UseDb, UseRank, UseIni, UseTcp, UseSess,
         UseLink
<1>7. [Next]_libraryVars => [IniNext]_iniVars
  BY DEF Next, libraryVars, UseHtml, UseSlab, UseTable, UseDb, UseRank, UseIni, UseTcp, UseSess,
         UseLink
<1>8. [Next]_libraryVars => [RankNext]_rankVars
  BY DEF Next, libraryVars, UseHtml, UseSlab, UseTable, UseDb, UseRank, UseIni, UseTcp, UseSess,
         UseLink
<1>9. [Next]_libraryVars => [HtmlNext]_htmlVars
  BY DEF Next, libraryVars, UseHtml, UseSlab, UseTable, UseDb, UseRank, UseIni, UseTcp, UseSess,
         UseLink
<1>10. [Next]_libraryVars => [LinkNext]_linkVars
  BY DEF Next, libraryVars, UseHtml, UseSlab, UseTable, UseDb, UseRank, UseIni, UseTcp, UseSess,
         UseLink
<1> QED
  BY <1>1, <1>2, <1>3, <1>4, <1>5, <1>6, <1>7, <1>8, <1>9, <1>10, PTL
  DEF Spec, SlabSpec, TableSpec, DbSpec, TcpSpec, SessSpec, IniSpec, RankSpec, HtmlSpec, LinkSpec

\* Every part of Library has the types it is said to have, for any values of the constants:
\* the ranges of the counters, positions and lengths are part of them.
THEOREM LibraryTypeCorrect == Spec => []LibraryTypeOK
<1>1. Init => part \in Parts
  BY DEF Init
<1>2. part \in Parts /\ [Next]_libraryVars => (part \in Parts)'
  BY DEF Next, libraryVars, UseHtml, UseSlab, UseTable, UseDb, UseRank, UseIni, UseTcp, UseSess,
         UseLink
<1>3. Spec => [](part \in Parts)
  BY <1>1, <1>2, PTL DEF Spec
<1> QED
  BY <1>3, LibraryParts, HtmlTypeCorrect, SlabIsKept, TableTypeCorrect, DbTypeCorrect, RankTypeCorrect,
     IniTypeCorrect, TcpTypeCorrect, SessTypeCorrect, LinkTypeCorrect, PTL
  DEF LibraryTypeOK

\* What is proved of the parts holds of Library, whose behaviours TLC explores.
THEOREM LibraryKeeps ==
  Spec => [](/\ SlabKept /\ TableKept /\ DbKept /\ StreamInStep /\ SocketKept
             /\ SessHeaders /\ SockFramed /\ IniKept /\ RankKept
             /\ DomWalkInOrder /\ DomExtentsNest)
BY LibraryParts, SlabIsKept, TableIsKept, DbIsKept, StreamIsInStep, SocketIsKept, SessHeadersHold,
   SockIsFramed, IniIsKept, RankIsKept, WalkIsInOrder, ExtentsNestAlways, PTL

=============================================================================
