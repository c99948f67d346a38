--------------------------- MODULE MCHttpSession ---------------------------
(* HttpSession on small sets, for TLC.                                     *)
EXTENDS HttpSession, TLC

\* Four-tuples with destination port 80 are interchangeable, and so are accounts.
WebSymmetry ==
    {[x \in WebKeys \cup Accounts |-> IF x \in WebKeys THEN keys[x] ELSE accounts[x]] :
        keys \in Permutations(WebKeys), accounts \in Permutations(Accounts)}
=============================================================================
