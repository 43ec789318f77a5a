---------------------------- MODULE MCHttpFetch ----------------------------
(***************************************************************************)
(* URLs for module HttpFetch: a page on the default port, one on a port of  *)
(* its own, and a Location without a host.                                  *)
(***************************************************************************)
EXTENDS HttpFetch

MCText == {"", "a", "b", "/", "/next"}
MCUrl == {"plain", "here"}
MCParts ==
  [plain |-> [host |-> "a", port |-> 0, path |-> "/", query |-> ""],
   here |-> [host |-> "", port |-> 0, path |-> "/next", query |-> ""]]

MCPortUrl == {"plain", "port"}
MCPortParts ==
  [plain |-> [host |-> "a", port |-> 0, path |-> "/", query |-> ""],
   port |-> [host |-> "b", port |-> 8080, path |-> "/", query |-> ""]]

=============================================================================
