----------------------------- MODULE MCRingFifo -----------------------------
(* RingFifo with a few threads, for TLC.                                   *)
EXTENDS RingFifo
=============================================================================
