--------------------------- MODULE MC_PlatformHome ---------------------------
(***************************************************************************)
(* Scenarios for PlatformHome.                                              *)
(***************************************************************************)
EXTENDS PlatformHome

Nothing == [k \in Kinds |-> 0]
Counting == [Nothing EXCEPT !["observed"] = 3]
Unanswered == [Nothing EXCEPT !["observed"] = 2, !["versions"] = 1, !["faults"] = 1]
Resetting == [Nothing EXCEPT !["observed"] = 2, !["resets"] = 1]
Heating == [Nothing EXCEPT !["heated"] = 3, !["resets"] = 1, !["faults"] = 1]
Restarting == [Nothing EXCEPT !["observed"] = 2, !["crashes"] = 1]
Pairing == [Nothing EXCEPT !["attempts"] = 1, !["crashes"] = 1]
Refused == [Nothing EXCEPT !["attempts"] = 1, !["faults"] = 1]
Outages == [Nothing EXCEPT !["device"] = 2, !["updated"] = 1]
Twice == [Nothing EXCEPT !["device"] = 3, !["faults"] = 1]
Radio == [Nothing EXCEPT !["device"] = 1, !["integration"] = 2]
Batteries == [Nothing EXCEPT !["battery"] = 3]
Interrupted == [Nothing EXCEPT !["device"] = 2, !["crashes"] = 1]

AllScenarios == {Counting, Unanswered, Resetting, Heating, Restarting, Pairing, Refused, Outages, Twice, Radio, Batteries, Interrupted}
=============================================================================
