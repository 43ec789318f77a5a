------------------------------ MODULE HtmlDom ------------------------------
(***************************************************************************)
(* The HTML parser the crawler looks for links with: the scanner of         *)
(* libhtmlparser/ParserSax.tcc, the callbacks of ParserDom.cc and the       *)
(* linked tree of tree.h they build.                                        *)
(*                                                                          *)
(* A document is a sequence of characters, of which only those the scanner  *)
(* tells apart are kept: "q" is a quote, "_" a blank, "." any other.  The   *)
(* one-letter names "s" and "p" stand for the elements whose content is     *)
(* literal ("script" and its like, and "plaintext").                        *)
(***************************************************************************)
EXTENDS Integers, Sequences, FiniteSets

CONSTANT HtmlDocs      \* the documents parsed

HtmlLetter == {"a", "b", "s", "p"}
HtmlChar == HtmlLetter \cup {"<", ">", "/", "!", "?", "-", "=", "q", "_", "."}
HtmlLiteral == {<<"s">>, <<"p">>}

ASSUME HtmlAssumption == HtmlDocs \subseteq Seq(HtmlChar)

VARIABLES
  htmlPc,       \* "idle", "parse" between two callbacks of parse(), "done"
  htmlDoc,      \* html
  htmlBegin,    \* begin: the first character not yet handed to a callback
  htmlInside,   \* mpLiteral: the open literal element, <<>> for none
  htmlOffset,   \* mCurrentOffset
  domNode,      \* the Nodes in the order of their creation, the root first
  domLink,      \* mHtmlTree: the five links of every tree_node
  domCur        \* mCurrentState: the element new nodes are appended to

htmlVars == <<htmlPc, htmlDoc, htmlBegin, htmlInside, htmlOffset, domNode, domLink, domCur>>

-----------------------------------------------------------------------------
(* The tree.  Nodes are numbered in the order of their creation. *)

DomNull == 0
DomFeet == -1
DomHead == -2
DomRoot == 1

DomLinks(p, f, l, pv, nx) == [parent |-> p, first |-> f, last |-> l, prev |-> pv, next |-> nx]

\* The tree beginParsing leaves: the root alone between head and feet.
DomEmpty ==
  [x \in {DomHead, DomFeet, DomRoot} |->
     CASE x = DomHead -> DomLinks(0, 0, 0, 0, DomRoot)
       [] x = DomFeet -> DomLinks(0, 0, 0, DomRoot, 0)
       [] x = DomRoot -> DomLinks(0, 0, 0, DomHead, DomFeet)]

\* append_child: x becomes the last child of p.
DomAppend(t, p, x) ==
  LET old == t[p].last
      u == [m \in DOMAIN t \cup {x} |-> IF m = x THEN DomLinks(p, 0, 0, old, 0) ELSE t[m]]
  IN IF old # DomNull
     THEN [u EXCEPT ![old].next = x, ![p].last = x]
     ELSE [u EXCEPT ![p].first = x, ![p].last = x]

\* The nodes the sibling links lead to from x.
DomSiblings(t, x) ==
  LET from[n \in DOMAIN t \cup {DomNull}] ==
        IF n = DomNull THEN {} ELSE {n} \cup from[t[n].next]
  IN from[x]

\* flatten: the children of x become the siblings that follow it.
DomFlatten(t, x) ==
  IF t[x].first = DomNull THEN t ELSE
  LET n == t[x]
      kids == DomSiblings(t, n.first)
      u == [m \in DOMAIN t |-> IF m \in kids THEN [t[m] EXCEPT !.parent = n.parent] ELSE t[m]]
      v == IF n.next # DomNull
           THEN [u EXCEPT ![n.last].next = n.next, ![n.next].prev = n.last]
           ELSE [u EXCEPT ![n.parent].last = n.last]
  IN [v EXCEPT ![x].next = n.first, ![n.first].prev = x, ![x].first = DomNull, ![x].last = DomNull]

\* Fault: the climb goes up one level only.
DomNextOnce(t, x) ==
  IF t[x].first # DomNull THEN t[x].first
  ELSE IF t[x].next # DomNull THEN t[x].next
  ELSE IF t[x].parent = DomNull THEN DomNull ELSE t[t[x].parent].next

\* operator++ of pre_order_iterator: the first child, or else the next sibling of
\* the nearest ancestor that has one.
DomNext(t, x) ==
  LET up[n \in DOMAIN t] ==
        IF t[n].next # DomNull THEN t[n].next
        ELSE IF t[n].parent = DomNull THEN DomNull ELSE up[t[n].parent]
  IN IF t[x].first # DomNull THEN t[x].first ELSE up[x]

\* Where the iteration from begin() is after k steps.
DomWalk(t) ==
  LET at[k \in 0 .. Cardinality(DOMAIN t)] ==
        IF k = 0 THEN t[DomHead].next
        ELSE LET n == at[k - 1] IN
             IF n \in {DomFeet, DomNull} THEN n ELSE DomNext(t, n)
  IN at

-----------------------------------------------------------------------------
(* The scanner.  Positions run from 1 to HtmlEnd(d), one past the last. *)

HtmlEnd(d) == Len(d) + 1
HtmlIs(d, c, S) == c <= Len(d) /\ d[c] \in S

\* The first position from c on where d has a character of S, or the end.
HtmlFind(d, c, S) ==
  LET found == {k \in c .. Len(d) : d[k] \in S}
  IN IF found = {} THEN HtmlEnd(d) ELSE CHOOSE k \in found : \A m \in found : k <= m
HtmlBlanks(d, c) == HtmlFind(d, c, HtmlChar \ {"_"})

\* skipHtmlTag: past the next ">" that is not in a quoted value; a quote that is
\* not closed is skipped as a character.
HtmlTagEnd(d, c) ==
  LET skip[k \in 1 .. HtmlEnd(d)] ==
        IF k = HtmlEnd(d) THEN k
        ELSE IF d[k] = ">" THEN k + 1
        ELSE IF d[k] # "=" THEN skip[k + 1]
        ELSE LET v == HtmlBlanks(d, k + 1) IN
             IF v = HtmlEnd(d) THEN v
             ELSE IF d[v] # "q" THEN skip[v]
             ELSE LET q == HtmlFind(d, v + 1, {"q"}) IN
                  skip[IF q = HtmlEnd(d) THEN v + 1 ELSE q + 1]
  IN skip[c]

\* skipHtmlComment: past the next "--", blanks and ">", or past "--" and blanks
\* that end the document.
HtmlCommentEnd(d, c) ==
  LET skip[k \in 1 .. HtmlEnd(d)] ==
        IF k = HtmlEnd(d) THEN k
        ELSE IF d[k] = "-" /\ HtmlIs(d, k + 1, {"-"})
        THEN LET e == HtmlBlanks(d, k + 2) IN
             IF e = HtmlEnd(d) THEN e
             ELSE IF d[e] = ">" THEN e + 1 ELSE skip[k + 1]
        ELSE skip[k + 1]
  IN skip[c]

\* "<!" at c begins a comment when "--" follows, and is skipped as a tag otherwise.
HtmlBang(d, c) ==
  IF HtmlIs(d, c + 2, {"-"}) /\ HtmlIs(d, c + 3, {"-"})
  THEN HtmlCommentEnd(d, c + 4) ELSE HtmlTagEnd(d, c + 1)

\* The markup that begins at c, if any: an opening or closing tag, or what is
\* treated as a comment.
HtmlMarkup(d, c) ==
  IF ~ HtmlIs(d, c, {"<"}) THEN "none"
  ELSE IF HtmlIs(d, c + 1, HtmlLetter) THEN "open"
  ELSE IF HtmlIs(d, c + 1, {"/"})
  THEN IF HtmlIs(d, c + 2, HtmlLetter) THEN "close" ELSE "comment"
  ELSE IF HtmlIs(d, c + 1, {"!", "?"}) THEN "comment" ELSE "none"

HtmlMarkupEnd(d, c) == IF HtmlIs(d, c + 1, {"!"}) THEN HtmlBang(d, c) ELSE HtmlTagEnd(d, c + 1)

\* parseHtmlTag: the name of the tag at c.
HtmlName(d, c, kind) ==
  LET b == IF kind = "close" THEN c + 2 ELSE c + 1
  IN SubSeq(d, b, HtmlFind(d, b, HtmlChar \ HtmlLetter) - 1)

\* Where the literal element that is open ends: at its own closing tag, none for
\* "plaintext"; comments are skipped, and a "<!" that is none is not.
HtmlLiteralEnd(d, b, name) ==
  LET closes(c) ==
        /\ HtmlIs(d, c + 1, {"/"}) /\ name # <<"p">>
        /\ HtmlIs(d, c + 2, {name[1]})
        /\ HtmlIs(d, HtmlBlanks(d, c + 3), {">"})
      search[k \in 1 .. HtmlEnd(d)] ==
        LET c == HtmlFind(d, k, {"<"}) IN
        IF c = HtmlEnd(d) \/ closes(c) THEN c
        ELSE IF HtmlIs(d, c + 1, {"!"}) /\ HtmlIs(d, c + 2, {"-"}) /\ HtmlIs(d, c + 3, {"-"})
        THEN search[HtmlCommentEnd(d, c + 4)] ELSE search[c + 1]
  IN search[b]

-----------------------------------------------------------------------------
(* The callbacks.  They change the nodes, the tree, mCurrentState and *)
(* mCurrentOffset, kept together in a record.                         *)

HtmlNode(kind, name, offset, length) ==
  [kind |-> kind, name |-> name, offset |-> offset, length |-> length, closed |-> FALSE]

\* parseContent and parseComment with foundText and foundComment, and the part of
\* parseHtmlTag they share: the characters from b to c - 1 become a child of cur.
HtmlFound(S, kind, name, b, c) ==
  [node |-> Append(S.node, HtmlNode(kind, name, S.offset, c - b)),
   link |-> DomAppend(S.link, S.cur, Len(S.node) + 1),
   cur |-> S.cur,
   offset |-> S.offset + (c - b)]

HtmlContent(S, b, c) == IF b = c THEN S ELSE HtmlFound(S, "text", <<>>, b, c)

\* foundTag of an opening tag: it becomes the current element.
HtmlOpened(S, name, b, c) ==
  [HtmlFound(S, "tag", name, b, c) EXCEPT !.cur = Len(S.node) + 1]

\* The elements foundTag climbs from the current one until it meets one of that
\* name, or the root.
HtmlClimb(S, name) ==
  LET from[n \in 1 .. Len(S.node)] ==
        IF n = DomRoot THEN <<>>
        ELSE <<n>> \o (IF S.node[n].name = name THEN <<>> ELSE from[S.link[n].parent])
  IN from[S.cur]

\* Fault: the elements left open are not flattened.
HtmlClosedUnflattened(S, name, b, c) ==
  LET climb == HtmlClimb(S, name)
      k == Len(climb)
  IN IF k = 0 \/ S.node[climb[k]].name # name
     THEN HtmlFound(S, "comment", name, b, c)
     ELSE [node |-> [S.node EXCEPT
                       ![climb[k]].length = S.offset + (c - b) - S.node[climb[k]].offset,
                       ![climb[k]].closed = TRUE],
           link |-> S.link, cur |-> S.link[climb[k]].parent, offset |-> S.offset + (c - b)]

\* foundTag of a closing tag: it closes the nearest open element of its name, and
\* the elements left open inside that one lose their children; without one it is
\* a comment.
HtmlClosed(S, name, b, c) ==
  LET climb == HtmlClimb(S, name)
      k == Len(climb)
      flat[j \in 0 .. k] == IF j = 0 THEN S.link ELSE DomFlatten(flat[j - 1], climb[j])
  IN IF k = 0 \/ S.node[climb[k]].name # name
     THEN HtmlFound(S, "comment", name, b, c)
     ELSE [node |-> [S.node EXCEPT
                       ![climb[k]].length = S.offset + (c - b) - S.node[climb[k]].offset,
                       ![climb[k]].closed = TRUE],
           link |-> flat[k - 1],
           cur |-> S.link[climb[k]].parent,
           offset |-> S.offset + (c - b)]

HtmlState == [node |-> domNode, link |-> domLink, cur |-> domCur, offset |-> htmlOffset]
HtmlBecome(S) ==
  domNode' = S.node /\ domLink' = S.link /\ domCur' = S.cur /\ htmlOffset' = S.offset

-----------------------------------------------------------------------------
HtmlInit ==
  /\ htmlPc = "idle" /\ htmlDoc = <<>> /\ htmlBegin = 1 /\ htmlInside = <<>>
  /\ htmlOffset = 0 /\ domNode = <<>> /\ domLink = DomEmpty /\ domCur = DomRoot

\* parse up to the loop, with beginParsing.
HtmlParse(d) ==
  /\ htmlPc = "idle"
  /\ htmlPc' = "parse"
  /\ htmlDoc' = d /\ htmlBegin' = 1 /\ htmlInside' = <<>> /\ htmlOffset' = 0
  /\ domNode' = <<HtmlNode("tag", <<>>, 0, 0)>> /\ domLink' = DomEmpty /\ domCur' = DomRoot

\* One pass of the outer loop outside a literal element: the text up to the next
\* markup, and the markup.
HtmlPass ==
  /\ htmlPc = "parse" /\ htmlBegin < HtmlEnd(htmlDoc) /\ htmlInside = <<>>
  /\ LET d == htmlDoc
         starts == {k \in htmlBegin .. Len(d) : HtmlMarkup(d, k) # "none"}
         c == IF starts = {} THEN HtmlEnd(d) ELSE CHOOSE k \in starts : \A m \in starts : k <= m
         kind == HtmlMarkup(d, c)
         e == IF kind = "none" THEN c ELSE HtmlMarkupEnd(d, c)
         name == HtmlName(d, c, kind)
         S == HtmlContent(HtmlState, htmlBegin, c)
     IN /\ HtmlBecome(CASE kind = "none" -> S
                        [] kind = "open" -> HtmlOpened(S, name, c, e)
                        [] kind = "close" -> HtmlClosed(S, name, c, e)
                        [] kind = "comment" -> HtmlFound(S, "comment", <<>>, c, e))
        /\ htmlInside' = IF kind = "open" /\ name \in HtmlLiteral THEN name ELSE <<>>
        /\ htmlBegin' = e
  /\ UNCHANGED <<htmlPc, htmlDoc>>

\* while (mpLiteral): all up to the closing tag of the literal element is text.
HtmlPassLiteral ==
  /\ htmlPc = "parse" /\ htmlBegin < HtmlEnd(htmlDoc) /\ htmlInside # <<>>
  /\ LET c == HtmlLiteralEnd(htmlDoc, htmlBegin, htmlInside) IN
       /\ HtmlBecome(HtmlContent(HtmlState, htmlBegin, c))
       /\ htmlBegin' = c
  /\ htmlInside' = <<>>
  /\ UNCHANGED <<htmlPc, htmlDoc>>

\* endParsing.
HtmlReturn ==
  /\ htmlPc = "parse" /\ htmlBegin = HtmlEnd(htmlDoc)
  /\ htmlPc' = "done"
  /\ domNode' = [domNode EXCEPT ![DomRoot].length = htmlOffset]
  /\ UNCHANGED <<htmlDoc, htmlBegin, htmlInside, htmlOffset, domLink, domCur>>

HtmlNext ==
  \/ \E d \in HtmlDocs : HtmlParse(d)
  \/ HtmlPass
  \/ HtmlPassLiteral
  \/ HtmlReturn

HtmlSpec == HtmlInit /\ [][HtmlNext]_htmlVars

-----------------------------------------------------------------------------
HtmlTypeOK ==
  /\ htmlPc \in {"idle", "parse", "done"}
  /\ htmlDoc \in Seq(HtmlChar) /\ htmlBegin \in 1 .. HtmlEnd(htmlDoc)
  /\ htmlInside \in HtmlLiteral \cup {<<>>} /\ htmlOffset = htmlBegin - 1
  /\ \A n \in 1 .. Len(domNode) :
       /\ domNode[n].kind \in {"tag", "text", "comment"}
       /\ domNode[n].length \in 0 .. Len(htmlDoc)
  /\ domCur \in DOMAIN domLink

\* The walk over the tree, as parseHyperlinks makes it, meets every node the
\* parser made once, in the order of the document, and then ends: the links that
\* append_child and flatten set are those of one tree.
DomWalkInOrder ==
  LET n == Len(domNode) IN
  n > 0 =>
    LET at == DomWalk(domLink) IN
    /\ \A k \in 1 .. n : at[k - 1] = k
    /\ at[n] = DomFeet

\* The nodes above x, x included.
DomAbove(x) ==
  LET up[n \in 0 .. Len(domNode)] == IF n = DomNull THEN {} ELSE {n} \cup up[domLink[n].parent]
  IN up[x]

\* An element whose closing tag was found holds exactly the nodes that lie in its
\* extent, and an element left open holds none, unless it is still open: what the
\* crawler finds under an element is what is written between its two tags.
DomExtentsNest ==
  \A x \in 2 .. Len(domNode) :
    LET n == domNode[x]
        below == {y \in 2 .. Len(domNode) : y # x /\ x \in DomAbove(y)}
    IN IF n.closed
       THEN below = {y \in x + 1 .. Len(domNode) : domNode[y].offset < n.offset + n.length}
       ELSE below = {} \/ x \in DomAbove(domCur)

=============================================================================
