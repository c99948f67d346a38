----------------------------- MODULE MCShutdown -----------------------------
(* Shutdown with a few parse threads, for TLC.                             *)
EXTENDS Shutdown
=============================================================================
