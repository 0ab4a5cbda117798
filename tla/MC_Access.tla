----------------------------- MODULE MC_Access -----------------------------
(***************************************************************************)
(* Instances for Access: each kind of thing with its own scenarios.         *)
(***************************************************************************)
EXTENDS Access

None == [k \in Kinds |-> 0]
Tokens == [None EXCEPT !["tokens"] = 3, !["grants"] = 1, !["crashes"] = 1, !["faults"] = 1, !["others"] = 1]
Granting == [None EXCEPT !["tokens"] = 2, !["grants"] = 3, !["crashes"] = 1, !["faults"] = 1]
Operating == [None EXCEPT !["sessions"] = 2, !["crashes"] = 1, !["faults"] = 1, !["others"] = 1]
Supporting == [None EXCEPT !["leases"] = 2, !["crashes"] = 1]
Keeping == [None EXCEPT !["secrets"] = 4, !["crashes"] = 1, !["faults"] = 1, !["resets"] = 1]
Issuing == [None EXCEPT !["codes"] = 3, !["crashes"] = 1, !["faults"] = 1]
Resetting == [None EXCEPT !["codes"] = 2, !["resets"] = 1, !["faults"] = 1, !["crashes"] = 1]
Undoing == [None EXCEPT !["codes"] = 2, !["others"] = 1, !["faults"] = 1, !["crashes"] = 1]
Forgetting == [None EXCEPT !["tokens"] = 2, !["grants"] = 1, !["secrets"] = 1, !["resets"] = 1]
AllScenarios == {Tokens, Granting, Operating, Supporting, Keeping, Issuing, Resetting, Undoing, Forgetting}
====
