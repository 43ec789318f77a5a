----------------------------- MODULE MCWorkCrew -----------------------------
(***************************************************************************)
(* A small crew for TLC.                                                     *)
(***************************************************************************)
EXTENDS WorkCrew
=============================================================================
