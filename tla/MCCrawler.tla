----------------------------- MODULE MCCrawler -----------------------------
(***************************************************************************)
(* A web of two pages for module Crawler: one that links to itself twice,   *)
(* so that an entry makes two, and one parseHyperlinks does not follow.     *)
(***************************************************************************)
EXTENDS Crawler

MCUrl == {"index", "logo"}
MCLinks == [index |-> <<"index", "index">>, logo |-> <<"logo">>]
MCFollowed == {"index"}
MCHostOf == [index |-> "site", logo |-> "cdn"]
MCUnparse == [index |-> "index", logo |-> "logo"]

=============================================================================
