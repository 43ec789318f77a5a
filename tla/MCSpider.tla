------------------------------ MODULE MCSpider ------------------------------
(***************************************************************************)
(* One worker on a page that links to itself, one status client.  "" is a   *)
(* start_url that is missing, and the other page, without links, that a     *)
(* redirection may lead to.                                                 *)
(***************************************************************************)
EXTENDS Spider

MCUrl == {"index", ""}
MCLinks == [u \in MCUrl |-> IF u = "index" THEN <<u>> ELSE <<>>]
MCFollowed == {"index"}
MCHostOf == [u \in MCUrl |-> u]
MCUnparse == [u \in MCUrl |-> u]

=============================================================================
