------------------------------- MODULE Library -------------------------------
(***************************************************************************)
(* The parts of the library that keep state of their own and are used by    *)
(* one thread at a time: each is a component that its caller may call as it  *)
(* likes.  None of them reads or changes the state of another, so that a    *)
(* behaviour of this module is a behaviour of one of them, chosen at the    *)
(* start; the others stay in their initial state.                           *)
(***************************************************************************)
EXTENDS HtmlDom, Slab, UrlTable, MySQLDB, UserRank, IniFile, Sockets, HttpSession, Uri

VARIABLE part   \* the component that is used

Parts == {"html", "slab", "table", "db", "rank", "ini", "tcp", "session", "link"}
libraryVars ==
  <<part, htmlVars, slabVars, tableVars, dbVars, rankVars, iniVars, tcpVars, sessVars, linkVars>>

Init ==
  /\ part \in Parts
  /\ HtmlInit /\ SlabInit /\ TableInit /\ DbInit /\ RankInit /\ IniInit /\ TcpInit /\ SessInit
  /\ LinkInit
  /\ part = "session" \/ sessProxy = (CHOOSE p \in SessProxies : TRUE)

UseHtml ==
  /\ part = "html" /\ HtmlNext
  /\ UNCHANGED <<part, slabVars, tableVars, dbVars, rankVars, iniVars, tcpVars, sessVars, linkVars>>

UseSlab ==
  /\ part = "slab" /\ SlabNext
  /\ UNCHANGED <<part, htmlVars, tableVars, dbVars, rankVars, iniVars, tcpVars, sessVars, linkVars>>

UseTable ==
  /\ part = "table" /\ TableNext
  /\ UNCHANGED <<part, htmlVars, slabVars, dbVars, rankVars, iniVars, tcpVars, sessVars, linkVars>>

UseDb ==
  /\ part = "db" /\ DbNext
  /\ UNCHANGED <<part, htmlVars, slabVars, tableVars, rankVars, iniVars, tcpVars, sessVars, linkVars>>

UseRank ==
  /\ part = "rank" /\ RankNext
  /\ UNCHANGED <<part, htmlVars, slabVars, tableVars, dbVars, iniVars, tcpVars, sessVars, linkVars>>

UseIni ==
  /\ part = "ini" /\ IniNext
  /\ UNCHANGED <<part, htmlVars, slabVars, tableVars, dbVars, rankVars, tcpVars, sessVars, linkVars>>

UseTcp ==
  /\ part = "tcp" /\ TcpNext
  /\ UNCHANGED <<part, htmlVars, slabVars, tableVars, dbVars, rankVars, iniVars, sessVars, linkVars>>

UseSess ==
  /\ part = "session" /\ SessNext
  /\ UNCHANGED <<part, htmlVars, slabVars, tableVars, dbVars, rankVars, iniVars, tcpVars, linkVars>>

UseLink ==
  /\ part = "link" /\ LinkNext
  /\ UNCHANGED <<part, htmlVars, slabVars, tableVars, dbVars, rankVars, iniVars, tcpVars, sessVars>>

Next ==
  \/ UseHtml \/ UseSlab \/ UseTable \/ UseDb
  \/ UseRank \/ UseIni \/ UseTcp \/ UseSess \/ UseLink

Spec == Init /\ [][Next]_libraryVars

-----------------------------------------------------------------------------
\* The values of the variables of all parts: the only property without an order of steps.
LibraryTypeOK ==
  /\ part \in Parts
  /\ HtmlTypeOK /\ SlabTypeOK /\ TableTypeOK /\ DbTypeOK
  /\ RankTypeOK /\ IniTypeOK /\ TcpTypeOK /\ SessTypeOK /\ LinkTypeOK

=============================================================================
