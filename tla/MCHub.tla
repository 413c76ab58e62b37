--------------------------------- MODULE MCHub ---------------------------------
(* Instances of Hub for TLC: an organizer's tab and a participant's tab. *)
EXTENDS Hub, TLC

CONSTANTS org, par, tabO, tabP

MCUsers == {org, par}
MCTabs == {tabO, tabP}
MCUserOf == tabO :> org @@ tabP :> par
MCInitRole == org :> "organizer" @@ par :> "participant"

\* A staff-only change, and a public one that also refunds a user's votes.
\* (Roles that change are public changes of one event.)
MCBatches == {<<BoardEvent("staff")>>,
              <<BoardEvent("everyone"), BoardEvent(par)>>}
=============================================================================
