--------------------------- MODULE Administration ---------------------------
(***************************************************************************)
(* What the administrators' screens manage and show: the achievement       *)
(* catalogue with its audit, and the listings of the audit log and of the  *)
(* accounts.  The listings read whatever records are written, so the two   *)
(* share no state here and their steps interleave.                         *)
(***************************************************************************)
EXTENDS Catalogue, AdminPages

administrationVars == <<catalogueVars, pagesVars>>

AdministrationInit == CatalogueInit /\ PagesInit

AdministrationNext ==
    \/ CatalogueNext /\ UNCHANGED pagesVars
    \/ PagesNext /\ UNCHANGED catalogueVars

AdministrationSpec == AdministrationInit /\ [][AdministrationNext]_administrationVars

\* Administrators see what was done: the audit of the catalogue ends at its rows, and the
\* listings lose and repeat nothing while records are written (admin/service.ts).
AuditIsTrue == CatalogueIsAudited /\ ListingsAreWhole
=============================================================================
