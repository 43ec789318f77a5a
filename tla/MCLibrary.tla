------------------------------ MODULE MCLibrary ------------------------------
\* Small inputs for every part of Library.
EXTENDS Library

\* Documents: up to three pieces of markup, five of tags alone, and three after an
\* element whose content is literal.
MCTag == {<<"<", "a", ">">>, <<"<", "/", "a", ">">>, <<"<", "b", ">">>, <<"<", "/", "b", ">">>}
MCPiece == MCTag \cup
  {<<"<", "s", ">">>, <<"<", "/", "s", "_", ">">>, <<"<", "p", ">">>, <<"<", "a", "_", "=", "q">>, <<"q">>,
   <<"<", "!", "-", "-">>, <<"-", "-">>, <<"<", "!">>, <<">">>, <<".">>}
MCHtmlDocs ==
  {<<>>} \cup MCPiece
    \cup {x \o y : x \in MCPiece, y \in MCPiece}
    \cup {<<"<", "s", ">">> \o x \o y : x \in MCPiece, y \in MCPiece}
    \cup {<<"<", "a", "_", "=", "q", ">">> \o x \o y : x \in MCPiece, y \in MCPiece}
    \cup {v \o w \o x \o y \o z : v, w, x \in {<<"<", "a", ">">>, <<"<", "b", ">">>},
                                  y, z \in MCTag \cup {<<".">>}}

\* Two URLs of one code, and a page of another.
MCTableCode == [k \in {"u", "v", "page"} |-> IF k = "u" THEN 0 ELSE 2]

MCRankUsers == 1 .. 4
MCRankFriends == {S \in SUBSET MCRankUsers : Cardinality(S) <= 1} \cup {{1, 2}, {3, 4}, {2, 3, 4}}

\* Two keys of one section and one of another; an over-long line, a comment after a value
\* with a blank before it, a pair outside any section, and a key that is given twice.
MCIniNames == << <<"p", "host">>, <<"p", "port">>, <<"s", "url">> >>
MCIniValues == {<<>>}
MCIniPair(k) == <<"pair", k, <<"x", "y">>, 0, FALSE>>
MCIniEdits ==
  {<<>>, << <<"long">> >>,
   <<MCIniPair("url"), <<"sect", "s">>, <<"pair", "url", <<"x", "y">>, 1, TRUE>> >>,
   << <<"sect", "s">>, MCIniPair("url"), <<"sect", "p">>, <<"other">>,
      <<"pair", "port", <<"x">>, 2, FALSE>>, MCIniPair("port") >>}

\* Hosts with an address and one without, one of them dotted; a URL that is only a path, a port of
\* more than 16 bits, an empty user; users and passwords with and without a "@" where
\* Base64Encode writes a "=".
MCHost == <<104, 97>>
MCOther == <<98>>
MCGone == <<103>>
MCProxyHost == <<112>>
MCSessAddr ==
  (MCHost :> <<10, 0, 0, 1>>) @@ (MCOther :> <<10, 0, 1, 2>>) @@ (MCProxyHost :> <<10, 2, 0, 0>>)
MCUrl(scheme, host, port, login, user, pass) ==
  [scheme |-> scheme, host |-> host, port |-> port, login |-> login, user |-> user, pass |-> pass]
MCSessUrls ==
  {MCUrl("none", <<>>, 0, "none", <<>>, <<>>),
   MCUrl("http", MCHost, 0, "none", <<>>, <<>>), MCUrl("http", MCOther, 8080, "none", <<>>, <<>>),
   MCUrl("https", MCOther, 0, "both", <<120, 121>>, <<49>>),
   MCUrl("http", MCGone, 0, "both", <<120>>, <<64, 49>>),
   MCUrl("http", MCHost, 65616, "both", <<>>, <<49>>),
   MCUrl("ftp", MCHost, 0, "user", <<120>>, <<>>)}
MCSessDotted == {MCProxyHost}
MCProxy(type, user, pass) ==
  [type |-> type, host |-> IF type = "socks4" THEN MCOther ELSE MCProxyHost, port |-> 1080, user |-> user, pass |-> pass]
MCSessProxies ==
  {MCProxy("none", <<>>, <<>>), MCProxy("http", <<117, 49>>, <<112, 64, 49>>),
   MCProxy("ftp", <<>>, <<>>), MCProxy("socks4", <<117>>, <<>>),
   MCProxy("socks5", <<117, 50>>, <<112, 48>>), MCProxy("socks5", <<117>>, <<112, 48>>),
   [MCProxy("socks5", <<117>>, <<>>) EXCEPT !.host = MCOther]}

\* Pages with and without a path, a port, a query and a user; links of up to three parts,
\* and links with a scheme and every kind of host.
MCHttp == <<"h", ":", "/", "/">>
MCUriPages ==
  {MCHttp \o <<"a">>, MCHttp \o <<"a", ":", "8", "/", "a", "/", "h", "?", "a">>,
   <<"f", ":", "/", "/", "a", "@", "f", "/", "a", "/">>}
MCUriName == {<<"/">>, <<".">>, <<"a">>, <<"/", ".", ".", "/">>}
MCUriPart == MCUriName \cup {<<"?">>, <<"#">>, <<":">>, <<"_">>}
MCUriHost ==
  {<<>>, <<"a", ":">>, <<"a", ":", "8", "0">>, <<"a", ":", "8">>, <<"a", ":", "a">>,
   <<"a", ":", "f", "@", "f">>}
MCUriLinks ==
  {<<>>} \cup {x \o y : x \in MCUriPart, y \in MCUriPart}
    \cup {x \o y \o z : x \in MCUriName, y \in MCUriName, z \in MCUriName}
    \cup {MCHttp \o y \o z : y \in MCUriHost, z \in {<<>>} \cup MCUriPart}

=============================================================================
