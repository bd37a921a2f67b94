-------------------------------- MODULE Cards --------------------------------
(***************************************************************************)
(* The cards of an overview: those that read Tekton Results, and those     *)
(* that poll Prometheus where there is no Tekton Results.  No card knows   *)
(* of another.                                                             *)
(***************************************************************************)
EXTENDS OverviewCards, MetricsCards

CardsSpec == CardSpec /\ SpecK8s

\* Of either kind, what a card shows was asked for what is selected, whatever was in flight.
AllShowSelected == ShownIsSelected /\ ShownIsSelectedK8s

\* Of either kind, a card at rest has stopped loading and shows an error exactly with reason.
AllSettleRight == SettledIsShown /\ SettledIsShownK8s
=============================================================================
