---------------------------- MODULE FetchOutcome ----------------------------
(***************************************************************************)
(* What THttpCli::fetchHtmlPage leaves its caller: the value it returns, and *)
(* what it did to the save file and to htmlContent.  Module HttpFetch        *)
(* implements it, module Crawler builds on it.                               *)
(***************************************************************************)
EXTENDS Integers

\* What a fetch stores: nothing (file and htmlContent keep what an earlier fetch
\* left), some of a page, or all of it.
Body == {"none", "part", "whole"}

\* It returns -4 when the server answers with an error status, -2 when it cannot
\* connect, open the file or receive, and at least 0 otherwise.
Outcome ==
  {[ret |-> -4, body |-> "none"]} \cup
  [ret : {-2, 0}, body : Body]

=============================================================================
