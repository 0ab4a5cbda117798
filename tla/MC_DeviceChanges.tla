----------------------------- MODULE MC_DeviceChanges -----------------------------
(***************************************************************************)
(* Instances for DeviceChanges: two directives for one lamp, and a rule of  *)
(* the lamp before two of the clock.                                        *)
(***************************************************************************)
EXTENDS DeviceChanges

TheEndpoints == {"lamp", "heater"}
TheMessages == 1..2
TheAsked == <<[endpoint |-> "lamp", value |-> 1], [endpoint |-> "lamp", value |-> 0]>>
TheRules == 1..2
TheTriggers == <<"lamp", Clock>>

None == [k \in Kinds |-> 0]
Directing == [None EXCEPT !["directives"] = 3, !["faults"] = 1]
Moving == [None EXCEPT !["changes"] = 1, !["directives"] = 1]
Dropping == [None EXCEPT !["changes"] = 1, !["faults"] = 3]
Crashing == [None EXCEPT !["directives"] = 3, !["crashes"] = 1]
Reporting == [None EXCEPT !["directives"] = 2, !["faults"] = 2]
Changing == [None EXCEPT !["changes"] = 2]
Ticking == [None EXCEPT !["ticks"] = 4, !["minutes"] = 1]
Mixing == [None EXCEPT !["ticks"] = 2, !["changes"] = 1]
Pairing == [None EXCEPT !["pairs"] = 1, !["directives"] = 1, !["crashes"] = 1]
AllScenarios == {Directing, Moving, Dropping, Crashing, Reporting, Changing, Ticking, Mixing, Pairing}
=============================================================================
