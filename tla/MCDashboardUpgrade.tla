------------------------- MODULE MCDashboardUpgrade -------------------------
(***************************************************************************)
(* Small instances of the two lifecycle operations; Init chooses one, and  *)
(* the other keeps an initial state.  DashboardUpgrade on a host with so   *)
(* few process ids that they are reused: "upgrade".  CodexRefresh with a   *)
(* host that may be restarted beside one update and two bridges: "refresh".*)
(***************************************************************************)
EXTENDS CodexRefresh, DashboardUpgrade, TLC

CONSTANTS p1, p2, p3
VARIABLE instance

\* CodexRefresh has several initial states.
NoRefresh == Init /\ backend = "desktop" /\ img[1] = 0

AllInit == \/ instance = "upgrade" /\ UpgradeInit /\ NoRefresh
           \/ instance = "refresh" /\ UpgradeInit /\ Init
UpgradeStep == instance = "upgrade" /\ UpgradeNext /\ UNCHANGED <<instance, vars>>
RefreshStep == instance = "refresh" /\ Next /\ UNCHANGED <<instance, upgrade>>
AllNext == UpgradeStep \/ RefreshStep
AllSpec == AllInit /\ [][AllNext]_<<instance, upgrade, vars>>

Ids == Permutations({p1, p2, p3})
=============================================================================
