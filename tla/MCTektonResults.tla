--------------------------- MODULE MCTektonResults ---------------------------
(***************************************************************************)
(* Three runs: two in one namespace, on different pages of Tekton Results, *)
(* and one in another that bears the same name as the first.               *)
(***************************************************************************)
EXTENDS TektonResults

CONSTANTS r1, r2, r3, n1, n2

MCRun == {r1, r2, r3}
MCHome == [r \in MCRun |-> IF r = r3 THEN n2 ELSE n1]
MCNamesakes == {r1, r3}
MCPageOf == [r \in MCRun |-> IF r = r2 THEN 2 ELSE 1]
=============================================================================
