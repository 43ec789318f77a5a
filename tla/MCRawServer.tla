---------------------------- MODULE MCRawServer ----------------------------
(***************************************************************************)
(* Two clients that come again and again, and a pool of one object.         *)
(***************************************************************************)
EXTENDS RawServer, TLC
=============================================================================
