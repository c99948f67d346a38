---------------------------- MODULE MCOutputPath ----------------------------
(* OutputPath with short responses, for TLC.                               *)
EXTENDS OutputPath, TLC

MCChars == ToSet(Digits) \cup {"CR", "LF", "x"}

\* Chunks whose data could be taken for a size or for the end of a body, and
\* one with a size of two digits.
MCChunks == {<<"0">>, <<"x", "CR", "LF">>}
Sixteen == [i \in 1..16 |-> "x"]
MCContents == SeqOf(MCChunks, 2) \cup {<<Sixteen>>, <<<<"0">>, Sixteen>>}
=============================================================================
