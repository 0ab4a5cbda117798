------------------------------ MODULE MC_HeatingDemand ------------------------------
(* The heating controller in small homes. *)
EXTENDS HeatingDemand

CONSTANTS r1, r2

(* One radiator and an event of any kind, or two radiators and none. *)
TwoHomes == {[radiators |-> {r1}, without |-> 0], [radiators |-> {r1, r2}, without |-> 1]}

(* One radiator, and nothing but its first demand and the clock. *)
CalmHome == {[radiators |-> {r1}, without |-> 0]}
=============================================================================
