----------------------------- MODULE MC_NestHome -----------------------------
(***************************************************************************)
(* Scenarios for NestHome.                                                  *)
(***************************************************************************)
EXTENDS NestHome, TLC

Nothing == [k \in Kinds |-> 0]
Renaming == [Nothing EXCEPT !["renamed"] = 1, !["stale"] = 2, !["manual"] = 1]
BothRenamed == [Nothing EXCEPT !["renamed"] = 2]
Joining == [Nothing EXCEPT !["joins"] = 2, !["assigned"] = 1]
Removing == [Nothing EXCEPT !["removed"] = 1, !["restored"] = 1, !["renamed"] = 1]
Commanding == [Nothing EXCEPT !["commands"] = 1, !["renamed"] = 1, !["stale"] = 1]
CommandsFail == [Nothing EXCEPT !["commands"] = 1, !["faults"] = 1]
Leaving == [Nothing EXCEPT !["left"] = 1, !["commands"] = 1]
Refusing == [Nothing EXCEPT !["left"] = 1, !["faults"] = 1]
Connecting == [Nothing EXCEPT !["authorised"] = 1, !["faults"] = 2]
Again == [Nothing EXCEPT !["faults"] = 1, !["authorised"] = 1, !["renamed"] = 1]
Returning == [Nothing EXCEPT !["renamed"] = 1, !["stale"] = 1, !["manual"] = 1, !["left"] = 1]
Restarting == [Nothing EXCEPT !["restarts"] = 1, !["renamed"] = 1]
Assigning == [Nothing EXCEPT !["assigned"] = 1, !["authorised"] = 1, !["renamed"] = 1]
AllScenarios == {Assigning, Renaming, BothRenamed, Joining, Removing, Commanding, CommandsFail, Leaving, Refusing,
                 Connecting, Again, Returning, Restarting}
ThermostatSymmetry == Permutations(Thermostat)
=============================================================================
