----------------------------- MODULE OperatorPages ------------------------------
(***************************************************************************)
(* One operator and the UI server: the operator works on one of the two    *)
(* pages, while other processes edit the same database.                    *)
(***************************************************************************)
EXTENDS MediationCentre, OperatorSidebar

VARIABLE page \* the page the operator has open

pagesVars == <<page, server, centre, sidebar>>

PagesInit ==
    /\ page \in {"centre", "sidebar"}
    /\ ServerInit /\ CentreInit /\ SidebarInit

OnCentre == page = "centre" /\ CentreStep /\ UNCHANGED <<page, sidebar>>
OnSidebar == page = "sidebar" /\ SidebarStep /\ UNCHANGED <<page, centre>>
Elsewhere == EditedElsewhere /\ UNCHANGED <<page, sidebar>>

PagesNext == OnCentre \/ OnSidebar \/ Elsewhere

PagesSpec == PagesInit /\ [][PagesNext]_pagesVars

=============================================================================
