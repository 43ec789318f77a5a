--------------------------------- MODULE Uri ---------------------------------
(***************************************************************************)
(* The URLs of libhtmlparser: Uri::init, unparse and absolute (Uri.cc), and *)
(* convert_link of utils.cc, which makes of a link in a page the URL it     *)
(* leads to.  The state is a reader who opens a page, converts links of it  *)
(* and follows them.                                                        *)
(*                                                                          *)
(* A text is a sequence of characters, of which only those the code tells   *)
(* apart are kept: "_" is a blank, "%" the three characters it becomes.     *)
(* The schemes "h" and "f" stand for http and ftp, 0 and 8 for all digits.  *)
(***************************************************************************)
EXTENDS Integers, Sequences, SequencesExt

CONSTANTS
  UriPages,   \* the URLs of the first pages
  UriLinks,   \* the links found in pages
  UriMaxUrl   \* bound: the length of a URL that is followed

UriLetter == {"a", "h", "f"}
UriDigit == [c \in {"0", "8"} |-> IF c = "0" THEN 0 ELSE 8]
UriChar == UriLetter \cup DOMAIN UriDigit \cup {"/", ":", "?", "#", "@", ".", "_", "%"}

ASSUME UriAssumption ==
  UriPages \subseteq Seq(UriChar) /\ UriLinks \subseteq Seq(UriChar) /\ UriMaxUrl \in Nat

VARIABLES
  linkRoot,   \* the Uri of the page
  linkRel,    \* the Uri of the link converted last, UriNew for none since the page was opened
  linkUri,    \* the Uri convert_link made of it
  linkOut     \* what convert_link returned for it, <<>> for none

linkVars == <<linkRoot, linkRel, linkUri, linkOut>>

\* A Uri of the empty text.
UriNew ==
  [scheme |-> <<>>, user |-> <<>>, password |-> <<>>, hostname |-> <<>>, portStr |-> <<>>,
   port |-> 0, path |-> <<>>, query |-> <<>>, existsQuery |-> FALSE,
   fragment |-> <<>>, existsFragment |-> FALSE]

-----------------------------------------------------------------------------
\* port_of_Scheme and default_port_for_scheme.
UriPortOf(scheme) == CASE scheme = <<"h">> -> 80 [] scheme = <<"f">> -> 21 [] OTHER -> 0
\* strtol.  (mPort keeps 32 bits of it; numbers are taken to fit.)
UriNumber(digits) ==
  LET at[n \in 0 .. Len(digits)] == IF n = 0 THEN 0 ELSE 10 * at[n - 1] + UriDigit[digits[n]]
  IN  at[Len(digits)]

\* Where x has the first character of S from position i to j, or one past j.
UriFind(x, i, j, S) ==
  LET at == SelectInSubSeq(x, i, j, LAMBDA c : c \in S) IN IF at = 0 THEN j + 1 ELSE at
\* x from position i.
UriFrom(x, i) == SubSeq(x, i, Len(x))

\* deal_with_path: x from position i is a path, a query and a fragment.
UriInitPath(u, x, i) ==
  LET n == Len(x)
      p == UriFind(x, i, n, {"?", "#"})
      h == UriFind(x, p, n, {"#"})
  IN [u EXCEPT !.path = IF p = i THEN @ ELSE SubSeq(x, i, p - 1),
               !.query = IF p < h THEN SubSeq(x, p + 1, h - 1) ELSE @,
               !.existsQuery = @ \/ p < h,
               !.fragment = IF h <= n THEN UriFrom(x, h + 1) ELSE @,
               !.existsFragment = @ \/ h <= n]

\* The length of the scheme of x, 0 when x has none.
UriScheme(x) ==
  LET s == UriFind(x, 1, Len(x), {":", "/", "?", "#"})
  IN IF x # <<>> /\ x[1] \in UriLetter /\ s + 2 <= Len(x) /\ SubSeq(x, s, s + 2) = <<":", "/", "/">>
     THEN s - 1 ELSE 0

\* Of an x with a scheme: the positions of the first and last character of hostinfo,
\* of the last "@" in it (or the one before), and of the first ":" after that.
UriHostInfo(x) ==
  LET b == UriScheme(x) + 4
      e == UriFind(x, b, Len(x), {"/", "?", "#"}) - 1
      at == SelectLastInSubSeq(x, b, e, LAMBDA c : c = "@")
      a == IF at = 0 THEN b - 1 ELSE at
  IN [first |-> b, last |-> e, at |-> a, colon |-> UriFind(x, a + 1, e, {":"})]

UriInitUser(u, x, i) ==
  LET c == UriFind(x, i.first, i.at - 1, {":"})
  IN IF i.at < i.first THEN u
     ELSE [u EXCEPT !.user = SubSeq(x, i.first, c - 1),
                    !.password = IF c < i.at THEN SubSeq(x, c + 1, i.at - 1) ELSE @]

UriInitHost(u, x, i) ==
  LET port == SubSeq(x, i.colon + 1, i.last) IN
  [u EXCEPT !.hostname = SubSeq(x, i.at + 1, i.colon - 1),
            !.portStr = IF port # <<>> THEN port ELSE @,
            !.port = IF port # <<>> THEN UriNumber(port)
                     ELSE IF i.colon = i.last THEN UriPortOf(u.scheme) ELSE @]

\* init throws for a port that is not a number.
UriThrows(x) ==
  /\ UriScheme(x) > 0
  /\ LET i == UriHostInfo(x) IN \E k \in i.colon + 1 .. i.last : x[k] \notin DOMAIN UriDigit

\* init: the parts x has replace those of u.
UriInit(u, x) ==
  IF UriScheme(x) = 0 THEN UriInitPath(u, x, 1)
  ELSE LET i == UriHostInfo(x)
           v == [u EXCEPT !.scheme = SubSeq(x, 1, UriScheme(x))]
       IN UriInitPath(UriInitHost(UriInitUser(v, x, i), x, i), x, i.last + 1)

-----------------------------------------------------------------------------
\* unparse, with the fragment or without: user, password and the scheme's own port are left
\* out.  (Of its other flags nothing but tests makes use.)
UriUnparse(u, fragment) ==
  (IF u.scheme = <<>> THEN <<>> ELSE u.scheme \o <<":", "/", "/">>)
    \o u.hostname
    \o (IF u.portStr = <<>> \/ (u.scheme # <<>> /\ u.port = UriPortOf(u.scheme))
        THEN <<>> ELSE <<":">> \o u.portStr)
    \o u.path
    \o (IF u.existsQuery THEN <<"?">> \o u.query ELSE <<>>)
    \o (IF fragment /\ u.existsFragment THEN <<"#">> \o u.fragment ELSE <<>>)

\* The parts of u after its path, with the path p.
UriOn(root, u, p) ==
  [root EXCEPT !.path = p, !.query = u.query, !.existsQuery = u.existsQuery,
               !.fragment = u.fragment, !.existsFragment = u.existsFragment]

UriSlash(u) == [u EXCEPT !.path = IF @ = <<>> THEN <<"/">> ELSE @]

\* absolute: a link that has no scheme is one on the host of base, in its directory
\* unless it begins with "/".
UriAbsolute(u, base) ==
  LET root == UriSlash(base)
      at == SelectLastInSeq(root.path, LAMBDA c : c = "/")
      dir == IF at = 0 THEN root.path ELSE SubSeq(root.path, 1, at)
  IN IF u.scheme # <<>> THEN UriSlash(u)
     ELSE IF u.path # <<>>
     THEN UriOn(root, u, IF u.path[1] = "/" THEN u.path ELSE dir \o u.path)
     ELSE IF u.existsQuery THEN UriOn(root, u, root.path)
     ELSE IF u.existsFragment THEN [root EXCEPT !.fragment = u.fragment, !.existsFragment = TRUE]
     ELSE root

\* Fault: the search for the slash before finds the one the output ends with.
UriUpNot(ret) == ret

\* LASTDOTDOTSLASH: the output without its last name, up to the slash before.
UriUp(ret) ==
  LET at == SelectLastInSubSeq(ret, 1, Len(ret) - 1, LAMBDA c : c = "/")
  IN IF at = 0 THEN ret ELSE SubSeq(ret, 1, at)

\* One character of normalize_slashs.  The dots since the last slash are held back until
\* it is known that they are part of a name.  (The code begins at the first "//" or "/.";
\* up to there it would copy what it reads.)
UriNormalizeStep(s, c) ==
  CASE s.dots = -1 -> [ret |-> Append(s.ret, c), dots |-> IF c = "/" THEN 0 ELSE -1]
    [] s.dots >= 0 /\ c = "." /\ s.dots < 2 -> [s EXCEPT !.dots = @ + 1]
    [] s.dots \in {0, 1} /\ c = "/" -> [s EXCEPT !.dots = 0]
    [] s.dots = 2 /\ c = "/" -> [ret |-> UriUp(s.ret), dots |-> 0]
    [] OTHER -> [ret |-> s.ret \o [i \in 1 .. s.dots |-> "."] \o <<c>>, dots |-> -1]

UriNormalizeNone == [ret |-> <<>>, dots |-> -1]
normalize_slashs(p) ==
  LET at[n \in 0 .. Len(p)] ==
        IF n = 0 THEN UriNormalizeNone ELSE UriNormalizeStep(at[n - 1], p[n])
  IN  at[Len(p)].ret

\* Links have no entities and no line ends here: of the cleaning, a blank becomes "%20".
LinkClean(x) == [i \in DOMAIN x |-> IF x[i] = "_" THEN "%" ELSE x[i]]

\* The Uri that rel is in the page root.
LinkResolve(rel, root) == [UriAbsolute(rel, root) EXCEPT !.path = normalize_slashs(@)]

-----------------------------------------------------------------------------
LinkInit == linkRoot = UriNew /\ linkRel = UriNew /\ linkUri = UriNew /\ linkOut = <<>>

\* A page is opened: there is none when init throws.
LinkOpen(x) ==
  /\ linkRoot = UriNew /\ ~ UriThrows(x)
  /\ linkRoot' = UriInit(UriNew, x)
  /\ UNCHANGED <<linkRel, linkUri, linkOut>>

\* A link is converted by itself: what the reader did with those before does not matter.
\* One whose port is no number becomes the empty text.
convert_link(x) ==
  /\ linkRoot # UriNew /\ linkOut = <<>>
  /\ IF UriThrows(LinkClean(x)) THEN UNCHANGED <<linkRel, linkUri, linkOut>>
     ELSE /\ linkRel' = UriInit(UriNew, LinkClean(x))
          /\ linkUri' = LinkResolve(linkRel', linkRoot)
          /\ linkOut' = UriUnparse(linkUri', FALSE)
  /\ UNCHANGED linkRoot

\* The page the link leads to is opened.
LinkFollow ==
  /\ linkOut # <<>> /\ Len(linkOut) <= UriMaxUrl /\ ~ UriThrows(linkOut)
  /\ linkRoot' = UriInit(UriNew, linkOut)
  /\ linkRel' = UriNew /\ linkUri' = UriNew /\ linkOut' = <<>>

LinkNext ==
  \/ \E x \in UriPages : LinkOpen(x)
  \/ \E x \in UriLinks : convert_link(x)
  \/ LinkFollow

LinkSpec == LinkInit /\ [][LinkNext]_linkVars

-----------------------------------------------------------------------------
\* The values a Uri has.
UriType ==
  LET Text == Seq(UriChar)
  IN  [scheme : Text, user : Text, password : Text, hostname : Text, portStr : Text,
       port : Nat, path : Text, query : Text, existsQuery : BOOLEAN,
       fragment : Text, existsFragment : BOOLEAN]

\* Type correctness of the page, the link and its URL.
LinkTypeOK ==
  {linkRoot, linkRel, linkUri} \subseteq UriType /\ linkOut \in Seq(UriChar)

\* The texts between the slashes of a path.
LinkSegments(p) ==
  FoldLeft(LAMBDA s, c : IF c = "/" THEN Append(s, <<>>) ELSE Append(Front(s), Append(Last(s), c)),
           << <<>> >>, p)

\* The names that are none.
LinkDot == <<".">>
LinkDotDot == <<".", ".">>

\* The names of a path that are left.
LinkNames(segments) ==
  FoldLeft(LAMBDA names, s :
             IF s \in {<<>>, LinkDot} THEN names
             ELSE IF s # LinkDotDot THEN Append(names, s)
             ELSE IF names = <<>> THEN names ELSE Front(names),
           <<>>, segments)

\* A path by its names: the empty ones and "." are left out, ".." takes the name before it
\* away, and it ends with a slash when the last of them is not a name.  (Of a path that
\* ends with ".." and no slash the code drops the dots, and takes nothing away.)
LinkPath(segments) ==
  LET names == LinkNames(segments)
      named == Last(segments) \notin {<<>>, LinkDot}
  IN FlattenSeq([i \in DOMAIN names |-> <<"/">> \o names[i]]) \o (IF named THEN <<>> ELSE <<"/">>)

\* The path a link to u in the page root leads to.
LinkMeant(u, root) ==
  IF u.path = <<>> THEN LinkPath(LinkSegments(IF u.scheme # <<>> THEN <<>> ELSE root.path))
  ELSE IF u.scheme # <<>> \/ u.path[1] = "/" THEN LinkPath(LinkSegments(u.path))
  ELSE LinkPath(Front(LinkSegments(root.path)) \o LinkSegments(u.path))

\* The same URL, but for the user, whom unparse leaves out, and the scheme's own port.
UriSame(u, v) ==
  /\ \A k \in {"scheme", "hostname", "path", "query", "existsQuery", "fragment", "existsFragment"} :
       u[k] = v[k]
  /\ u.port = v.port \/ {u.port, v.port} \subseteq {0, UriPortOf(u.scheme)}

\* However many links were followed: the URL convert_link makes leads to the host and the
\* path that are meant by the link and the page, its path cannot be shortened further, and
\* its text is read back as the same URL; so is a link that is parsed and unparsed, as
\* checkUrl does to look it up.
LinksResolved ==
  linkOut # <<>> =>
    LET host == IF linkRel.scheme # <<>> THEN linkRel ELSE linkRoot
    IN /\ \A k \in {"scheme", "hostname", "port"} : linkUri[k] = host[k]
       /\ Last(LinkSegments(linkRel.path)) # LinkDotDot =>
            linkUri.path = LinkMeant(linkRel, linkRoot)
       /\ normalize_slashs(linkUri.path) = linkUri.path
       /\ ~ UriThrows(linkOut)
       /\ UriSame(UriInit(UriNew, linkOut),
                  [linkUri EXCEPT !.fragment = <<>>, !.existsFragment = FALSE])
       /\ UriSame(UriInit(UriNew, UriUnparse(linkRel, TRUE)), linkRel)

=============================================================================
