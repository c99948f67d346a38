------------------------ MODULE MCBlockReassembly ------------------------
(* BlockReassembly with three parse threads, for TLC.               *)
EXTENDS BlockReassembly, TLC

\* All parse threads run the same loop.
ParserSymmetry == Permutations(Parsers)
=============================================================================
