------------------------- MODULE MC_NativeAutomations -------------------------
(***************************************************************************)
(* Instances of NativeAutomations: wall clocks and scenarios of its runs.  *)
(***************************************************************************)
EXTENDS NativeAutomations

(* Half-minute ticks 1..4 fall into minutes 0, 1 and 2; clocks go back      *)
(* after minute 1, and minute 2 shows the wall-clock time of minute 0.      *)
RepeatedHour == [m \in 0..2 |-> IF m = 1 THEN 2 ELSE 1]

Scenario(until, results, edits, others, errors, restarts) ==
  [until |-> until, results |-> results, edits |-> edits, others |-> others, errors |-> errors, restarts |-> restarts]
Restarting == Scenario(4, {"applied", "failed", "uncertain"}, 0, 0, 1, 1)
Editing    == Scenario(2, {"applied"}, 2, 0, 1, 0)
Meddling   == Scenario(2, {"applied", "uncertain"}, 0, 1, 1, 0)
AllScenarios == {Restarting, Editing, Meddling}
=============================================================================
