------------------------------ MODULE HomeControls ------------------------------
(***************************************************************************)
(* The devices of a home and the calls of services on them: discovery,      *)
(* setup and areas change what a device shows (src/src/store.js), and a      *)
(* call (callService of src/src/haModel.js, for dashboards, legacy rules,    *)
(* remote controls and the heating controller) finds its targets among what  *)
(* the devices show when it arrives, then commands them one after the other *)
(* while the home may change.  Calls that are not of devices (the rules, the *)
(* cloud) and the one script that stands for all covers are left out.       *)
(***************************************************************************)
EXTENDS DevicePresentation

CONSTANTS
  Device,      \* the devices
  Managed,     \* those of a radio or an account; the others are virtual
  Area,
  Label,       \* the labels that users choose
  First,       \* what is there at first
  Found,       \* what discovery may bring: device -> sets of sequences of entities
  Ask,         \* the calls that are made
  Call         \* bound: the calls

ASSUME HomeAssumption == IsFiniteSet(Device) /\ Managed \subseteq Device /\ "none" \notin Area /\ Label \subseteq Approved

\* Entities are kept by their keys, in the order in which they came.
AreEntities(s) ==
  /\ s \in Seq(Range(s))
  /\ \A i, j \in DOMAIN s : s[i].key = s[j].key => i = j
  /\ \A e \in Range(s) :
       /\ e.bindings \in Seq(Range(e.bindings))
       /\ \A b \in Range(e.bindings) : b.parameter = "none" <=> b.key = "none"
ASSUME EntitiesAssumption ==
  /\ \A d \in Device :
       /\ AreEntities(First[d].entities)
       /\ First[d] = [entities |-> First[d].entities, area |-> First[d].area, label |-> First[d].label,
                      ready |-> First[d].ready, surfaces |-> First[d].surfaces]
  /\ \A d \in Device : \A entities \in Found[d] : AreEntities(entities)
ASSUME CallsAssumption == \A ask \in Ask : IsFiniteSet(ask.keys)

VARIABLES
  home,    \* the stored devices
  calls    \* callService: the commands ahead; for the history, those done
homeVars == <<home, calls>>

\* What the services of a domain are taken to be where an entity names none.
Plain(domain) ==
  CASE domain \in {"light", "switch"} -> {"turn_on", "turn_off", "toggle"}
    [] domain = "cover" -> {"open_cover", "close_cover", "stop_cover", "set_cover_position"}
    [] domain = "climate" -> {"turn_on", "turn_off", "set_temperature", "set_hvac_mode"}
    [] domain = "fan" -> {"turn_on", "turn_off", "toggle", "set_percentage", "set_preset_mode"}
    [] domain = "lock" -> {"lock", "unlock", "turn_on", "turn_off", "toggle"}
    [] domain = "humidifier" -> {"turn_on", "turn_off", "toggle", "set_humidity"}
    [] domain = "media_player" -> {"turn_on", "turn_off", "toggle", "media_play", "media_pause", "media_play_pause", "media_next_track",
                                   "media_previous_track", "volume_up", "volume_down", "volume_set"}
    [] domain = "vacuum" -> {"start", "pause", "stop", "return_to_base"}
    [] domain \in {"number", "text"} -> {"set_value"}
    [] domain = "select" -> {"select_option"}
    [] domain = "button" -> {"press"}
    [] domain = "script" -> {"turn_on"}
    [] OTHER -> {}

(***************************************************************************)
(* What is shown of the home.                                               *)
(***************************************************************************)
NewDevice == [entities |-> <<>>, area |-> "none", label |-> "none", ready |-> FALSE, surfaces |-> <<>>]

\* Surfaces, and the raw entities of a virtual device that has none.
ItemsOf(d) ==
  LET device == home[d]
  IN IF device.surfaces # <<>>
     THEN {[id |-> <<d, g>>, device |-> d, domain |-> g[2], surface |-> TRUE, labels |-> {device.label},
             bindings |-> device.surfaces[g].bindings, at |-> device] :
             g \in DOMAIN device.surfaces}
     ELSE IF d \in Managed THEN {}
     ELSE {[id |-> <<d, e.key>>, device |-> d, domain |-> e.domain, surface |-> FALSE, labels |-> {device.label} \cup e.labels,
             bindings |-> Range(e.bindings), at |-> device] :
             e \in Range(device.entities)}
Items == UNION {ItemsOf(d) : d \in DOMAIN home}

NamedBy(ask, item) ==
  \/ item.id \in ask.ids
  \/ item.device \in ask.devices
  \/ item.at.area \in ask.areas \ {"none"}
  \/ item.labels \cap (ask.labels \ {"none"}) # {}

\* resolveTargets: where nothing that is asked for is found, everything of that domain.
NoDomain == {"homeassistant", "script"}
Resolved(ask) ==
  LET named == {item \in Items : NamedBy(ask, item)}
  IN IF named # {} \/ ask.service[1] \in NoDomain THEN named
     ELSE {item \in Items : item.domain = ask.service[1]}

ServiceFor(ask, item) == IF ask.service[1] = "homeassistant" THEN <<item.domain, ask.service[2]>> ELSE ask.service

\* Where an entity names no services, the domain of the service decides, whatever the item is.
Supports(item, service) ==
  IF item.bindings # {} THEN BindingFor(item.bindings, service) # {} ELSE service[2] \in Plain(service[1])

\* What is commanded where no route leads: the entity, if it takes the service, or else
\* the whole device.
Own(item, service) == IF ~item.surface /\ BindingFor(item.bindings, service) # {} THEN item.id[2] ELSE "device"

Takes(item, r) == \E e \in RawEntity(item.at, r.entity) : BindingFor(Range(e.bindings), r.service) # {}

\* The command itself, then those of its parameters that another entity takes.
CommandsFor(ask, item) ==
  LET service == ServiceFor(ask, item)
      routes == IF item.surface THEN SourceRoute(item.at, item.at.surfaces[item.id[2]], service) ELSE {}
      Command(entity, s) == [item |-> item.id, device |-> item.device, entity |-> entity, service |-> s]
      route == CHOOSE r \in routes : TRUE
      extra == {route.parameters[k] : k \in DOMAIN route.parameters \cap ask.keys} \ {[entity |-> route.entity, service |-> route.service]}
  IN IF routes = {} THEN <<Command(Own(item, service), service)>>
     ELSE <<Command(IF Takes(item, route) THEN route.entity ELSE "device", route.service)>>
          \o SetToSeq({Command(r.entity, r.service) : r \in {r \in extra : Takes(item, r)}})

\* Faulty variant: what is asked for by its id and by its area is a target twice.
TargetsTwice(ask) ==
  IF ask.ids = {} THEN SetToSeq(Resolved(ask))
  ELSE SetToSeq({item \in Resolved(ask) : item.id \in ask.ids}) \o SetToSeq({item \in Resolved(ask) : NamedBy([ask EXCEPT !.ids = {}], item)})
Targets(ask) == SetToSeq(Resolved(ask))

\* The commands of each target, which all follow from what the home was when the call
\* arrived; a target that does not know the service has none, and ends the call.
Plan(ask) ==
  LET targets == Targets(ask)
      Step(item) == IF Supports(item, ServiceFor(ask, item)) THEN CommandsFor(ask, item) ELSE <<>>
  IN [i \in DOMAIN targets |-> Step(targets[i])]

\* For the history: what is behind each item.
Behind(item) == {"device"} \cup IF item.surface THEN {e.key : e \in Sources(item.at, item.id[2])} ELSE {item.id[2]}

Presented(device) == [device EXCEPT !.surfaces = BuildPresentation(device)]

NoCall == [ask |-> NoService, todo |-> <<>>, done |-> <<>>, named |-> {}, reach |-> {}]

HomeInit ==
  /\ home = [d \in Device |-> Presented(First[d])]
  /\ calls = [c \in Call |-> NoCall]

(***************************************************************************)
(* Calls.                                                                   *)
(***************************************************************************)
CallArrives(c, ask) ==
  /\ calls[c] = NoCall
  /\ calls' = [calls EXCEPT ![c] = [ask |-> ask.service, todo |-> Plan(ask), done |-> <<>>,
                        named |-> {item.id : item \in {item \in Items : NamedBy(ask, item)}},
                        reach |-> UNION {{item.id} \X Behind(item) : item \in Items}]]
  /\ UNCHANGED home

\* The adapter takes the command; a virtual device has to be there still.
CommandSent(c) ==
  LET commands == Head(calls[c].todo)
      next == Head(commands)
      rest == (IF Len(commands) = 1 THEN <<>> ELSE <<Tail(commands)>>) \o Tail(calls[c].todo)
  IN /\ calls[c].todo # <<>> /\ commands # <<>>
     /\ calls' = IF next.device \in DOMAIN home \/ next.device \in Managed
                 THEN [calls EXCEPT ![c].todo = rest, ![c].done = Append(@, next)]
                 ELSE [calls EXCEPT ![c].todo = <<>>]
     /\ UNCHANGED home

CallRefused(c) ==
  /\ calls[c].todo # <<>> /\ Head(calls[c].todo) = <<>>
  /\ calls' = [calls EXCEPT ![c].todo = <<>>]
  /\ UNCHANGED home

\* The remaining targets are left.
CommandFails(c) ==
  /\ calls[c].todo # <<>> /\ Head(calls[c].todo) # <<>>
  /\ calls' = [calls EXCEPT ![c].todo = <<>>]
  /\ UNCHANGED home

(***************************************************************************)
(* Devices.                                                                 *)
(***************************************************************************)
\* mergeEntities: one by one; what is there keeps its place, nothing goes.  The keys of
\* entities do not change here: in the code one that comes under a new key goes to the end.
WithEntity(entities, new) ==
  IF \E e \in Range(entities) : e.key = new.key
  THEN [i \in DOMAIN entities |-> IF entities[i].key = new.key THEN new ELSE entities[i]]
  ELSE Append(entities, new)
Merged(old, new) ==
  LET merged[n \in 0..Len(new)] == IF n = 0 THEN old ELSE WithEntity(merged[n - 1], new[n])
  IN merged[Len(new)]

Stored(d) == IF d \in DOMAIN home THEN home[d] ELSE NewDevice

Upserted(d, device) == home' = [e \in DOMAIN home \cup {d} |-> IF e = d THEN Presented(device) ELSE home[e]]

Discovers(d, entities) ==
  /\ Upserted(d, [Stored(d) EXCEPT !.entities = Merged(@, entities)])
  /\ UNCHANGED calls

\* completeDeviceSetup; radio devices must have been discovered.
SetsUp(d, area, label) ==
  /\ d \in DOMAIN home /\ (d \in Managed => home[d].entities # <<>>)
  /\ Upserted(d, [home[d] EXCEPT !.area = area, !.label = label, !.ready = TRUE])
  /\ UNCHANGED calls

\* updateDevice: the setup stays, whatever becomes of area and label.
UpdatesDevice(d, area, label) ==
  /\ d \in DOMAIN home
  /\ Upserted(d, [home[d] EXCEPT !.area = area, !.label = label])
  /\ UNCHANGED calls

\* clearDeviceSetup.
ClearsSetup(d) ==
  /\ d \in DOMAIN home
  /\ Upserted(d, [home[d] EXCEPT !.area = "none", !.label = "none", !.ready = FALSE])
  /\ UNCHANGED calls

\* Devices of an area that is removed need setup again.
RemovesArea(area) ==
  LET cleared(device) == IF device.area = area THEN [device EXCEPT !.area = "none"] ELSE device
      unready(device) == IF device.ready /\ device.area = "none" THEN Presented([device EXCEPT !.ready = FALSE]) ELSE device
  IN /\ home' = [d \in DOMAIN home |-> unready(cleared(home[d]))]
     /\ UNCHANGED calls

\* An entity that is shown raw is removed: the surfaces are not built anew.
RemovesEntity(d, i) ==
  /\ \E item \in Items : ~item.surface /\ item.id = <<d, home[d].entities[i].key>>
  /\ home' = [home EXCEPT ![d].entities = RemoveAt(@, i)]
  /\ UNCHANGED calls

RemovesDevice(d) ==
  /\ d \in DOMAIN home
  /\ home' = Restrict(home, DOMAIN home \ {d})
  /\ UNCHANGED calls

HomeChanges(d) ==
  \/ \E entities \in Found[d] : Discovers(d, entities)
  \/ \E area \in Area, label \in Label : SetsUp(d, area, label)
  \/ \E area \in Area \cup {"none"}, label \in Label \cup {"none"} : UpdatesDevice(d, area, label)
  \/ ClearsSetup(d) \/ RemovesDevice(d)
  \/ d \in DOMAIN home /\ \E i \in DOMAIN home[d].entities : RemovesEntity(d, i)

(***************************************************************************)
(* Properties.                                                              *)
(***************************************************************************)
\* docs/device-support.md:17, devicePresentation.js:174-184, 208-232: while a device keeps
\* its area and label, entities that are discovered later neither take a surface away nor
\* turn a service of it to another entity.
RoutesKept ==
  [][\A d \in DOMAIN home \cap DOMAIN home' : LET old == home[d] new == home'[d] IN
       old.area = new.area /\ old.label = new.label /\ new.ready /\ Range(old.entities) \subseteq Range(new.entities)
       => \A g \in DOMAIN old.surfaces :
            /\ g \in DOMAIN new.surfaces
            /\ \A s \in DOMAIN old.surfaces[g].routes :
                 /\ s \in DOMAIN new.surfaces[g].routes
                 /\ new.surfaces[g].routes[s].entity = old.surfaces[g].routes[s].entity]_home

\* haModel.js:287-301, 353-413: whatever becomes of the home meanwhile, a call commands
\* only what it named, or what of its domain was shown where nothing it named was; for
\* each of these it reaches only the device and entities behind what was shown when it
\* arrived, and none twice.
CallsOnTarget ==
  \A c \in Call : LET x == calls[c] IN
    /\ IsInjective(x.done)
    /\ \A i \in DOMAIN x.done :
         /\ x.done[i].item \in x.named \/ (x.named = {} /\ x.ask[1] \notin NoDomain)
         /\ <<x.done[i].item, x.done[i].entity>> \in x.reach
=============================================================================
