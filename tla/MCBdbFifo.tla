----------------------------- MODULE MCBdbFifo -----------------------------
(* BdbFifo with a few threads, for TLC.                                    *)
EXTENDS BdbFifo, TLC

\* Consumers all run parse_content, so they are interchangeable.
ConsumerSymmetry == Permutations(Consumers)
=============================================================================
