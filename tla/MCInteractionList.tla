------------------------- MODULE MCInteractionList -------------------------
(* InteractionList with two parse threads, for TLC.                        *)
EXTENDS InteractionList, TLC

\* Parse threads run the same code, and connections are only compared.
Symmetry == Permutations(Parsers) \cup Permutations(Conns)
=============================================================================
