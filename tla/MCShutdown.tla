----------------------------- MODULE MCShutdown -----------------------------
(***************************************************************************)
(* Shutdown with two helper threads and three signals.                       *)
(***************************************************************************)
EXTENDS Shutdown
=============================================================================
