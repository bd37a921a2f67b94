------------------------------ MODULE MCTriggers ------------------------------
(***************************************************************************)
(* Three templates and three listeners; two of each may be there at first. *)
(***************************************************************************)
EXTENDS Triggers

CONSTANTS t1, t2, t3, l1, l2, l3, l4, a1, d1, d2

MCTemplates == {t1, t2, t3}
MCListeners == {l1, l2, l3, l4}
MCInitTemplates == {t1, t2}
MCInitListeners == {l1, l2, l3}
MCShared == {l2}
MCTriggerless == {l3}
MCAdders == {a1}
MCRemovers == {d1, d2}
MCEntries == MCTemplates \X {1}
=============================================================================
