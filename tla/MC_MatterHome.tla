----------------------------- MODULE MC_MatterHome -----------------------------
(***************************************************************************)
(* Scenarios for MatterHome.                                                *)
(***************************************************************************)
EXTENDS MatterHome

Homes2 == {{}, {CHOOSE n \in Node : TRUE}, Node}
Nothing == [k \in Kinds |-> 0]
Pairing == [Nothing EXCEPT !["sessions"] = 1, !["changes"] = 1, !["timeouts"] = 1]
PairingDrops == [Nothing EXCEPT !["sessions"] = 1, !["drops"] = 1, !["faults"] = 1]
PairingTwo == [Nothing EXCEPT !["sessions"] = 2]
PairingLeaves == [Nothing EXCEPT !["sessions"] = 1, !["leaves"] = 1, !["cancels"] = 1]
Removing == [Nothing EXCEPT !["removals"] = 1, !["changes"] = 1, !["drops"] = 1]
Changing == [Nothing EXCEPT !["changes"] = 1, !["commands"] = 1, !["downs"] = 1]
Refreshing == [Nothing EXCEPT !["refreshes"] = 1, !["changes"] = 1, !["timeouts"] = 1]
Moving == [Nothing EXCEPT !["assigned"] = 1, !["sessions"] = 1, !["refreshes"] = 1]
Selecting == [Nothing EXCEPT !["urls"] = 2, !["faults"] = 1]
AllScenarios == {Pairing, PairingDrops, PairingTwo, PairingLeaves, Removing, Changing, Refreshing, Moving, Selecting}
=============================================================================
