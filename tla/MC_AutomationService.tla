------------------------ MODULE MC_AutomationService ------------------------
(***************************************************************************)
(* Instances for AutomationService: what devices offer, and its scenarios.  *)
(***************************************************************************)
EXTENDS AutomationService

Types == [v \in {"yes", "no", "low", "high", "eco", "push"} |->
           CASE v \in {"yes", "no"} -> "boolean" [] v = "eco" -> "option" [] v = "push" -> "invoke" [] OTHER -> "number"]

AllAutomatable == {<<"light", "turn_on">>, <<"light", "turn_off">>, <<"climate", "turn_on">>, <<"climate", "turn_off">>,
                   <<"climate", "set_hvac_mode">>, <<"lock", "lock">>, <<"select", "select_option">>, <<"button", "press">>}
AllForbidden == {<<"light", "toggle">>, <<"lock", "unlock">>}

Plainly(service) == [service |-> service, parameter |-> "none", key |-> "none", values |-> {}]
Switching(domain) == <<Plainly(<<domain, "turn_on">>), Plainly(<<domain, "turn_off">>), Plainly(<<domain, "toggle">>)>>
Unlimited == [type \in {"number", "option"} |-> {}]
Entity(key, domain, words, bindings) ==
  [key |-> key, endpoint |-> "1", domain |-> domain, words |-> words, primary |-> FALSE, writable |-> bindings # <<>>,
   labels |-> {}, limits |-> Unlimited, bindings |-> bindings]

\* The entities of a lamp, of a lamp found anew, and of what else it may turn out to be.
Power == Entity("power", "light", {"power"}, Switching("light"))
Level(values) == Entity("level", "light", {"level"}, <<[service |-> <<"number", "set_value">>, parameter |-> "number", key |-> "value", values |-> values]>>)
Ranged == [Level({}) EXCEPT !.limits["number"] = {"low", "high"}]
Relay == Entity("relay", "switch", {"power"}, Switching("switch"))
Mode == Entity("mode", "select", {"mode"}, <<[service |-> <<"select", "select_option">>, parameter |-> "string", key |-> "option", values |-> {"eco"}]>>)
Button == Entity("button", "button", {"mode"}, <<Plainly(<<"button", "press">>)>>)
Latch == [Entity("latch", "lock", {}, <<Plainly(<<"lock", "lock">>), Plainly(<<"lock", "unlock">>)>>) EXCEPT !.endpoint = "2"]
Voltage == Entity("voltage", "sensor", {"diagnostic", "level"}, <<>>)
Bulb == Entity("bulb", "light", {"power"}, <<>>)

Lamp == <<Power, Ranged, Voltage>>
TheFound == [d \in {"lamp", "scene"} |->
              IF d = "lamp" THEN {<<Level({"low"})>>, <<Relay, Mode>>, <<Button, Mode, Latch>>} ELSE {<<Power>>}]
TheFirst == [d \in {"lamp", "scene"} |->
              IF d = "lamp" THEN [NewDevice EXCEPT !.entities = Lamp, !.area = "hall", !.label = "light", !.ready = TRUE]
              ELSE [NewDevice EXCEPT !.entities = <<Bulb>>, !.area = "hall"]]

\* The lamp by its id and by its area, with a level; a scene and all lights; and a scene, as
\* if it were a switch.
TheAsk == {[service |-> <<"light", "turn_on">>, ids |-> {<<"lamp", <<"1", "light">>>>}, devices |-> {}, areas |-> {"hall"}, labels |-> {}, keys |-> {"brightness"}],
           [service |-> <<"homeassistant", "toggle">>, ids |-> {}, devices |-> {"scene"}, areas |-> {}, labels |-> {"light"}, keys |-> {}],
           [service |-> <<"switch", "turn_on">>, ids |-> {}, devices |-> {"scene"}, areas |-> {}, labels |-> {}, keys |-> {}]}

Symmetry == Permutations(Request) \cup Permutations(Call)

(* What the next steps depend on: not the snapshots and answers of requests *)
(* that are over, nor what was written last.                                *)
Relevant ==
  <<state, file, queue, writing, [o \in Owner |-> IF Pending(o) THEN <<phase[o], before[o]>> ELSE <<"idle", file>>],
    IF writing THEN image ELSE file, stale, overlapped, homeVars, asked, due, sent, budget, trail>>

Lit == <<"1", "light">>
\* A level; off, and a level; an option, and a button.
Wishes == {[c \in {<<Lit, "brightness">>} |-> "high"],
           [c \in {<<Lit, "power">>, <<Lit, "brightness">>} |-> IF c[2] = "power" THEN "no" ELSE "low"],
           [c \in {<<<<"1", "select">>, "option">>, <<<<"1", "button">>, "invoke">>} |-> IF c[2] = "option" THEN "eco" ELSE "push"]}

None == [k \in Kinds |-> 0]
Retrying == [None EXCEPT !["creates"] = 2, !["faults"] = 1, !["crashes"] = 1, !["others"] = 1]
Editing == [None EXCEPT !["edits"] = 3, !["crashes"] = 1]
Failing == [None EXCEPT !["edits"] = 2, !["crashes"] = 1, !["faults"] = 1, !["others"] = 1]
Copying == [None EXCEPT !["creates"] = 2, !["edits"] = 1]
Running == [None EXCEPT !["creates"] = 1, !["devices"] = 1, !["ticks"] = 1]
Adapting == [None EXCEPT !["edits"] = 1, !["devices"] = 1, !["ticks"] = 1]
Calling == [None EXCEPT !["devices"] = 2, !["calls"] = 2, !["faults"] = 1]
Moving == [None EXCEPT !["devices"] = 2, !["calls"] = 1]
Arranging == [None EXCEPT !["devices"] = 4, !["ticks"] = 1]
AllScenarios == {Retrying, Editing, Failing, Copying, Running, Adapting, Calling, Moving, Arranging}
=============================================================================
