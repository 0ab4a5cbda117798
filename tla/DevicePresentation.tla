--------------------------- MODULE DevicePresentation ---------------------------
(***************************************************************************)
(* The controls that a household sees of a device                           *)
(* (src/src/capabilities/devicePresentation.js): the raw entities found by   *)
(* discovery are grouped by endpoint and meaning under the device's label,  *)
(* and each group with a primary control becomes a surface that routes its   *)
(* public services to raw entities.                                         *)
(*                                                                          *)
(* A raw entity is a record: key; endpoint; domain; words, those the code    *)
(* looks for that occur in its names; primary; writable; labels; limits, the *)
(* range and the options of its own; bindings, a sequence of [service,      *)
(* parameter, key, values]: the type and the key of a parameter, both "none" *)
(* without one, and its own range or options, empty where it has none.  A   *)
(* service is a pair of a domain and a verb.  A range is a set of values and *)
(* has both of its ends.  Names, states and attributes are left out.        *)
(***************************************************************************)
EXTENDS FiniteSets, Naturals, Functions, SequencesExt

Approved == {"light", "boiler", "radiator", "tenant_device"}
Standing == {"light", "switch", "cover", "climate", "fan", "lock", "humidifier"}
Setting == {"number", "select", "button"}
Says(e, words) == e.words \cap words # {}

Configured(d) == d.area # "none" /\ d.label \in Approved
Writable(e) == e.writable /\ e.bindings # <<>>
Hidden(e) == Says(e, {"diagnostic", "config"}) \/ e.domain \in {"sensor", "binary_sensor", "event"}

\* What an entity means on a device of that label.
SemanticDomain(e, label) ==
  CASE label \in {"radiator", "boiler"}
         /\ (Says(e, {"heating"}) \/ e.domain \in {"climate", "switch", "light", "number"} \/ (e.domain = "select" /\ Says(e, {"mode"})))
         -> "climate"
    [] label = "light" /\ (e.domain \in {"switch", "light"} \/ (e.domain = "number" /\ Says(e, {"level", "colour"}))) -> "light"
    [] OTHER -> IF e.domain \in Standing \cup Setting THEN e.domain
                ELSE IF Says(e, {"level", "colour"}) THEN "light"
                ELSE IF Says(e, {"heating"}) THEN "climate" ELSE e.domain

PrimaryCandidate(e, label) ==
  LET domain == SemanticDomain(e, label)
  IN /\ Writable(e) /\ ~Hidden(e)
     /\ \/ domain = "climate" \/ (domain \in Standing \cup Setting /\ e.primary)
        \/ domain \in Setting /\ Says(e, {"heating", "level", "mode"})
        \/ domain \in {"light", "switch"} /\ Says(e, {"power"})
        \/ domain \in Standing \ {"light", "switch"}

RelatedStatus(e, label) ==
  LET domain == SemanticDomain(e, label)
  IN IF Hidden(e) THEN (domain = "climate" /\ Says(e, {"heating"})) \/ (domain = "light" /\ Says(e, {"level", "colour"}))
     ELSE ~Writable(e)

GroupKey(e, label) == <<e.endpoint, SemanticDomain(e, label)>>
Group(d, g) == {e \in Range(d.entities) : GroupKey(e, d.label) = g /\ (Writable(e) \/ RelatedStatus(e, d.label))}
Groups(d) == {GroupKey(e, d.label) : e \in Range(d.entities)}
Renderable(d, g) == \E e \in Group(d, g) : PrimaryCandidate(e, d.label)

(***************************************************************************)
(* The routes of a surface.                                                 *)
(***************************************************************************)
NoService == <<"none", "none">>
PublicServiceFor(domain, service, e) ==
  CASE service[1] = "switch" /\ domain = "light" -> <<"light", service[2]>>
    [] service[1] = "switch" /\ domain = "climate" /\ service[2] # "toggle" -> <<"climate", service[2]>>
    [] service = <<"number", "set_value">> /\ domain = "climate" /\ Says(e, {"heating"}) -> <<"climate", "set_temperature">>
    [] service = <<"select", "select_option">> /\ domain = "climate" /\ Says(e, {"mode"}) -> <<"climate", "set_hvac_mode">>
    [] service = <<"number", "set_value">> /\ domain = "light" /\ Says(e, {"level", "colour"}) -> <<"light", "turn_on">>
    [] OTHER -> IF service[1] = domain THEN service ELSE NoService

PublicKey(public, e, key) ==
  IF key = "none" THEN key
  ELSE CASE public = <<"light", "turn_on">> -> IF Says(e, {"colour"}) THEN "color_temp" ELSE "brightness"
         [] public = <<"climate", "set_temperature">> -> "temperature"
         [] public = <<"climate", "set_hvac_mode">> -> "hvac_mode"
         [] OTHER -> key

Sources(d, g) == {e \in Group(d, g) : Writable(e)}

\* What a group offers: the bindings that have a public service, at their places; of two
\* bindings of an entity with the same service the first is found.
Offer(e, b, at, domain) ==
  LET public == PublicServiceFor(domain, b.service, e)
  IN [at |-> at, service |-> public, parameter |-> b.parameter, key |-> PublicKey(public, e, b.key), values |-> b.values,
      raw |-> [entity |-> e.key, service |-> b.service]]
Offers(d, g) ==
  LET places == {i \in DOMAIN d.entities : d.entities[i] \in Sources(d, g)}
      Seen(e) == {j \in DOMAIN e.bindings : \A h \in 1..(j - 1) : e.bindings[h].service # e.bindings[j].service}
      Of(e, i) == {Offer(e, e.bindings[j], <<i, j>>, g[2]) : j \in Seen(e)}
  IN {o \in UNION {Of(d.entities[i], i) : i \in places} : o.service # NoService}

\* Faulty variant: the newest entity takes the route.
NewestFirst(p, q) == p[1] > q[1] \/ (p[1] = q[1] /\ p[2] < q[2])
Earlier(p, q) == p[1] < q[1] \/ (p[1] = q[1] /\ p[2] < q[2])
FirstOf(offers) == CHOOSE o \in offers : \A q \in offers : q = o \/ Earlier(o.at, q.at)

\* addBinding: the first offer of a service takes its route; later ones add their parameters.
Routes(offers) ==
  LET For(s) == {o \in offers : o.service = s}
      keys(s) == {o.key : o \in For(s)} \ {"none"}
      Route(s) == [entity |-> FirstOf(For(s)).raw.entity, service |-> FirstOf(For(s)).raw.service,
                   parameters |-> [k \in keys(s) |-> FirstOf({o \in For(s) : o.key = k}).raw]]
  IN [s \in {o.service : o \in offers} |-> Route(s)]
Shown(offers) == {o \in offers : \A q \in offers : q.service = o.service /\ Earlier(q.at, o.at) => o.key \notin {"none", q.key}}

\* constraintsFor: the range and the options that the first entity of the group has.
Limits(d, g) ==
  LET limiting(type) == {i \in DOMAIN d.entities : d.entities[i] \in Group(d, g) /\ d.entities[i].limits[type] # {}}
  IN [type \in {"number", "option"} |-> IF limiting(type) = {} THEN {} ELSE d.entities[Min(limiting(type))].limits[type]]

Surface(d, g) == [routes |-> Routes(Offers(d, g)), bindings |-> Shown(Offers(d, g)), limits |-> Limits(d, g)]

\* buildPresentation: the surfaces, by endpoint and meaning.
BuildPresentation(d) ==
  IF Configured(d) /\ d.ready THEN [g \in {g \in Groups(d) : Renderable(d, g)} |-> Surface(d, g)] ELSE <<>>

(***************************************************************************)
(* Their use.                                                               *)
(***************************************************************************)
RawEntity(d, key) == {e \in Range(d.entities) : e.key = key}
BindingFor(bindings, service) == {b \in bindings : b.service = service}

\* sourceRoute: the route of a surface, if its entity is still there.
SourceRoute(d, surface, service) ==
  {r \in {surface.routes[s] : s \in DOMAIN surface.routes \cap {service}} : RawEntity(d, r.entity) # {}}
=============================================================================
