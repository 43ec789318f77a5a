------------------------------ MODULE MySQLDB ------------------------------
(***************************************************************************)
(* build/MySQLDB.cpp: one MySQLDB object over a connection that the server  *)
(* may drop at any moment.  execQuery connects when it must, and tries a    *)
(* statement again after it failed, on a new connection if ping fails.      *)
(***************************************************************************)
EXTENDS Naturals

CONSTANT MAX_MYSQL_RETRIES

ASSUME DbAssumption == MAX_MYSQL_RETRIES \in Nat

VARIABLES
  dbPc,         \* "idle", "query" and "ping" in execQuery, "undefined"
  dbConnected,  \* m_connected
  dbOpen,       \* connections made and not closed: sessions of this process
  dbLive,       \* the server still serves the connection of m_conn
  dbRetries,    \* retries
  dbRuns,       \* how often the server ran the statement
  dbRet         \* what the last execQuery returned

dbVars == <<dbPc, dbConnected, dbOpen, dbLive, dbRetries, dbRuns, dbRet>>

DbInit ==
  /\ dbPc = "idle" /\ dbConnected = FALSE /\ dbOpen = 0 /\ dbLive = FALSE
  /\ dbRetries = 0 /\ dbRuns = 0 /\ dbRet = FALSE

-----------------------------------------------------------------------------
\* connectMySQL on a connection that is closed: it is opened, or not, and
\* m_connected says which.
DbConnect(opened) ==
  \/ dbConnected' = TRUE /\ dbLive' = TRUE /\ dbOpen' = opened + 1
  \/ dbConnected' = FALSE /\ dbLive' = FALSE /\ dbOpen' = opened

\* execQuery up to the loop; the query is sent whether the connection was made or
\* not, also over a MYSQL that InitMySQL could not set up.
DbCall ==
  /\ dbPc = "idle"
  /\ dbRetries' = 0 /\ dbRuns' = 0 /\ UNCHANGED dbRet
  /\ IF dbConnected
     THEN dbPc' = "query" /\ UNCHANGED <<dbConnected, dbOpen, dbLive>>
     ELSE \/ dbPc' = "query" /\ DbConnect(dbOpen)
          \/ dbPc' = "undefined" /\ UNCHANGED <<dbConnected, dbOpen, dbLive>>

\* Fault: one retry too many.
DbQueryFailsLate ==
  IF dbRetries > MAX_MYSQL_RETRIES
  THEN dbPc' = "idle" /\ dbRet' = FALSE
  ELSE dbPc' = "ping" /\ UNCHANGED dbRet

\* The query fails: the call is given up, or m_conn is looked at.
DbQueryFails ==
  IF dbRetries = MAX_MYSQL_RETRIES
  THEN dbPc' = "idle" /\ dbRet' = FALSE
  ELSE dbPc' = "ping" /\ UNCHANGED dbRet

\* mysql_query.  A statement that ran fails all the same when its answer is lost.
DbQuery ==
  /\ dbPc = "query"
  /\ \/ /\ dbLive
        /\ dbRuns' = dbRuns + 1 /\ dbPc' = "idle" /\ dbRet' = TRUE
        /\ UNCHANGED dbLive
     \/ /\ dbLive
        /\ dbRuns' = dbRuns + 1 /\ dbLive' = FALSE
        /\ DbQueryFails
     \/ DbQueryFails /\ UNCHANGED <<dbRuns, dbLive>>
  /\ UNCHANGED <<dbConnected, dbOpen, dbRetries>>

\* Fault: the old connection is not closed before a new one is made.
DbClosedNot == dbOpen

\* mysql_close in closeMySQL, for a connection that may be closed already.
DbClosed == IF dbConnected /\ dbOpen > 0 THEN dbOpen - 1 ELSE dbOpen

\* mysql_ping, and a new connection when it fails, as it may over a live one too, whose
\* last result was not read.
DbPing ==
  /\ dbPc = "ping"
  /\ \/ dbLive /\ UNCHANGED <<dbConnected, dbOpen, dbLive>>
     \/ DbConnect(DbClosed)
  /\ dbRetries' = dbRetries + 1
  /\ dbPc' = "query"
  /\ UNCHANGED <<dbRuns, dbRet>>

\* closeMySQL called by the user of the object: m_connected is left as it is.
DbClose ==
  /\ dbPc = "idle"
  /\ dbOpen' = DbClosed
  /\ dbLive' = IF dbConnected THEN FALSE ELSE dbLive
  /\ UNCHANGED <<dbPc, dbConnected, dbRetries, dbRuns, dbRet>>

\* The server drops the connection.
DbDropped ==
  /\ dbPc # "undefined" /\ dbLive
  /\ dbLive' = FALSE
  /\ UNCHANGED <<dbPc, dbConnected, dbOpen, dbRetries, dbRuns, dbRet>>

DbNext == DbCall \/ DbQuery \/ DbPing \/ DbClose \/ DbDropped

DbSpec == DbInit /\ [][DbNext]_dbVars

-----------------------------------------------------------------------------
DbTypeOK ==
  /\ dbPc \in {"idle", "query", "ping", "undefined"}
  /\ dbConnected \in BOOLEAN /\ dbOpen \in Nat /\ dbLive \in BOOLEAN
  /\ dbRetries \in 0 .. MAX_MYSQL_RETRIES /\ dbRuns \in Nat /\ dbRet \in BOOLEAN

\* Whatever the server drops and whatever fails, the object has at most one session
\* and forgets none: a session that is open is one m_connected tells of, so that the
\* destructor closes it.
DbSessions ==
  /\ dbOpen <= 1
  /\ dbLive => dbOpen = 1
  /\ dbOpen = 1 => dbConnected

\* One call runs a statement at most once for every time it is tried, and tries it
\* MAX_MYSQL_RETRIES + 1 times at most; before a try, one time less.
DbRunsBounded == dbRuns <= dbRetries + (IF dbPc = "query" THEN 0 ELSE 1)

\* Both: no session is lost and no statement runs more often than it is tried.
DbKept == DbSessions /\ DbRunsBounded

=============================================================================
