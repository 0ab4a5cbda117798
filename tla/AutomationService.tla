-------------------------- MODULE AutomationService --------------------------
(***************************************************************************)
(* The API of the native automations: creating, editing, copying and        *)
(* removing definitions, each validated against the controls the devices    *)
(* offer at that moment; the list of due automations, and their execution   *)
(* against the controls offered later; the migration of the rules of older  *)
(* data files; all in a home whose devices change and are called            *)
(* (HomeControls).                                                          *)
(*                                                                          *)
(* A handler checks and mutates in one turn; its answer waits for the write *)
(* of the store (StoreCommit).  Claims, records and their history are in    *)
(* NativeAutomations; schedules and wording are left out.                   *)
(***************************************************************************)
EXTENDS StoreCommit, HomeControls

CONSTANTS
  Other,          \* the owner that saves anything else; the rest are API requests
  Automation,     \* native ids, numbered as they are drawn
  Native,         \* rules of an old data file that migrate: to the id with their number
  Legacy,         \* all rules of an old data file
  Key,            \* idempotency keys
  Automatable, Forbidden,   \* services that automations may use, and may never use
  TypeOf,         \* the type of each value
  Wish,           \* what a user asks for: control -> value
  Subject,        \* the device of the automations
  MaxAutomations, MaxKeys, MaxRevision,
  Scenarios       \* bounds: how often each kind of event happens

ASSUME IdsAssumption == Automation \subseteq Nat /\ Native \subseteq Legacy \cap Automation /\ Other \in Owner
ASSUME SubjectAssumption == Subject \in Device
ASSUME ValuesAssumption == {"yes", "no"} \subseteq DOMAIN TypeOf /\ \A wish \in Wish : Range(wish) \subseteq DOMAIN TypeOf

Request == Owner \ {Other}
\* The service mutates through commit (store.js:616, 1636), and keeps entries (constants.js:12).
ASSUME RequestsAssumption == Request \subseteq Awaited
ASSUME KeysAssumption == "none" \notin Key /\ MaxKeys \in Nat \ {0}

Kinds == {"creates", "edits", "devices", "calls", "ticks", "others", "faults", "crashes"}

VARIABLES
  asked,    \* per request, what its answer will say
  due,      \* scheduler.tick: listed actions that wait for their turn
  sent,     \* the last command, and the device it went to
  budget,   \* the events that are left of the scenario
  trail     \* history
vars == <<storeVars, homeVars, asked, due, sent, budget, trail>>

Spend(kind) == budget[kind] > 0 /\ budget' = [budget EXCEPT ![kind] = @ - 1]

(***************************************************************************)
(* The control catalogue of the device.                                     *)
(***************************************************************************)
Allowed(s) == s \in Automatable /\ s \notin Forbidden

Verb(s) == s[2]
Control(g, key, type, values, service) == [id |-> <<g, key>>, type |-> type, values |-> values, service |-> service]

\* On and off together are one control.
PowerControl(g, surface) ==
  LET on == <<g[2], "turn_on">> off == <<g[2], "turn_off">>
  IN IF {on, off} \subseteq DOMAIN surface.routes /\ Allowed(on) /\ Allowed(off) /\ g[2] \in {"light", "switch", "climate", "fan"}
     THEN {Control(g, "power", "boolean", {"yes", "no"}, [v \in DOMAIN TypeOf |-> IF v = "yes" THEN on ELSE off])}
     ELSE {}

\* valueTypeFor: a parameter says the type, or else the service does.
ValueType(b) ==
  CASE b.parameter \in {"number", "boolean"} -> b.parameter
    [] b.parameter = "string" -> "option"
    [] b.service = <<"button", "press">> -> "invoke"
    [] b.service \in {<<"climate", "set_hvac_mode">>, <<"fan", "set_preset_mode">>, <<"select", "select_option">>} -> "option"
    [] OTHER -> "number"

\* logicalKeyFor: the parameter, a name for the service, or the meaning of the surface.
KeyOfVerb == [set_temperature |-> "target_temperature", set_hvac_mode |-> "mode", set_percentage |-> "percentage",
              set_cover_position |-> "position", set_value |-> "value", select_option |-> "option", press |-> "invoke",
              open_cover |-> "invoke", close_cover |-> "invoke", stop_cover |-> "invoke", lock |-> "invoke"]
LogicalKey(g, b) ==
  IF b.key # "none" THEN b.key ELSE IF Verb(b.service) \in DOMAIN KeyOfVerb THEN KeyOfVerb[Verb(b.service)] ELSE g[2]

\* Plain on and off are the power control.  Numbers need a range and options a list, their
\* own or the surface's; a boolean control that is not the power control has no service.
BindingControl(g, b, limits) ==
  LET type == ValueType(b)
      values == IF b.values = {} /\ type \in DOMAIN limits THEN limits[type] ELSE b.values
  IN IF ~Allowed(b.service) \/ (Verb(b.service) \in {"turn_on", "turn_off"} /\ b.parameter = "none")
        \/ (type \in DOMAIN limits /\ values = {})
     THEN {}
     ELSE {Control(g, LogicalKey(g, b), type, values, [v \in DOMAIN TypeOf |-> IF type = "boolean" THEN NoService ELSE b.service])}

\* The first control with an id stays.
ControlsOf(g, surface) ==
  LET all == {[at |-> <<0, 0>>, control |-> c] : c \in PowerControl(g, surface)} \cup
             UNION {{[at |-> b.at, control |-> c] : c \in BindingControl(g, b, surface.limits)} : b \in surface.bindings}
  IN {x.control : x \in {x \in all : \A y \in all : y.control.id = x.control.id => y = x \/ Earlier(x.at, y.at)}}

\* A surface that can only be toggled is not for automations.
Controls(device) ==
  UNION {ControlsOf(g, device.surfaces[g]) :
           g \in {g \in DOMAIN device.surfaces : \E b \in device.surfaces[g].bindings : Verb(b.service) # "toggle"}}

\* validateAgainstCatalogue, for one action: numbers and options are looked up.
Fits(device, id, v) ==
  Configured(device) /\ \E c \in Controls(device) : c.id = id /\ TypeOf[v] = c.type /\ (c.type \in {"number", "option"} => v \in c.values)
Valid(wish) == \A id \in DOMAIN wish : Fits(Stored(Subject), id, wish[id])

(***************************************************************************)
(* The parts of a definition in the store.  Parts are kept by their ids;    *)
(* made numbers, for the history, the edit that wrote them.                 *)
(***************************************************************************)
NoAutomation == [revision |-> 0, enabled |-> FALSE, made |-> 0]
Live(content, a) == content.autos[a].revision > 0
Count(content) == Cardinality({a \in Automation : Live(content, a)})
TriggersOf(content, a) == {t \in content.triggers : t.of = a}
ActionsOf(content, a) == {x \in content.actions : x.of = a}
Executable(content, a) == TriggersOf(content, a) # {} /\ \A x \in ActionsOf(content, a) : Fits(Stored(Subject), x.control, x.value)
WishOf(content, a) == [id \in {x.control : x \in ActionsOf(content, a)} |-> (CHOOSE x \in ActionsOf(content, a) : x.control = id).value]

\* A control has one action, or the definition is refused.
Distinct(content, a) == Cardinality(DOMAIN WishOf(content, a)) = Cardinality(ActionsOf(content, a))

NewMade == trail.made + 1

\* The actions of a definition; one that was there for a control keeps its id.
ActionId(old, id) == IF \E x \in old : x.control = id THEN (CHOOSE x \in old : x.control = id).id ELSE <<NewMade, id>>
NewActions(a, wish, old) == {[id |-> ActionId(old, id), of |-> a, control |-> id, value |-> wish[id], made |-> NewMade] : id \in DOMAIN wish}

Put(parts, new) == {p \in parts : \A q \in new : q.id # p.id} \cup new
Definition(content, a, revision, enabled, triggerId, actions) ==
  [content EXCEPT !.autos[a] = [revision |-> revision, enabled |-> enabled, made |-> NewMade],
                  !.triggers = Put(@, {[id |-> triggerId, of |-> a, made |-> NewMade]}),
                  !.actions = Put(@, actions)]

WithoutParts(content, a) == [content EXCEPT !.triggers = @ \ TriggersOf(content, a), !.actions = @ \ ActionsOf(content, a)]

(***************************************************************************)
(* The data file.                                                           *)
(***************************************************************************)
Blank == [autos |-> [a \in Automation |-> NoAutomation], triggers |-> {}, actions |-> {}, keys |-> <<>>, rules |-> {}, old |-> FALSE]

\* An old rule keeps its revision and whether it was enabled: here 1, and enabled.
Migrated(content) ==
  LET moved == content.rules \cap Native
      wish == CHOOSE w \in Wish : TRUE
  IN [Blank EXCEPT
        !.autos = [a \in Automation |-> IF a \in moved THEN [revision |-> 1, enabled |-> TRUE, made |-> 0] ELSE NoAutomation],
        !.triggers = {[id |-> <<0, a>>, of |-> a, made |-> 0] : a \in moved},
        !.actions = UNION {{[id |-> <<0, a, id>>, of |-> a, control |-> id, value |-> wish[id], made |-> 0] : id \in DOMAIN wish} : a \in moved},
        !.rules = content.rules \ Native]

Load(content) == IF content.old THEN Migrated(content) ELSE content

Nothing == [what |-> "none", id |-> 0, key |-> "none", expected |-> 0]

Init ==
  /\ \E rules \in {{}, Legacy} :
       LET content == IF rules = {} THEN Blank ELSE [Blank EXCEPT !.rules = rules, !.old = TRUE]
       IN /\ state = Load(content) /\ file = content /\ image = content
          /\ queue = <<>> /\ writing = FALSE /\ before = [o \in Owner |-> content]
          /\ phase = [o \in Owner |-> "idle"] /\ stale = {} /\ overlapped = FALSE
          /\ trail = [made |-> 0, names |-> rules \cap Native, told |-> [k \in Key |-> {}], unsure |-> {},
                      edits |-> [a \in Automation |-> <<>>], leaving |-> {}, gone |-> {}, replaced |-> {}]
  /\ HomeInit
  /\ asked = [r \in Request |-> Nothing]
  /\ due = {} /\ sent = [service |-> NoService, raw |-> <<>>, value |-> "none", control |-> "none", device |-> NewDevice, seen |-> NewDevice]
  /\ budget \in Scenarios

(***************************************************************************)
(* Requests.                                                                *)
(***************************************************************************)
Asks(r, content, request) ==
  /\ Commit(r, content)
  /\ asked' = [asked EXCEPT ![r] = request]
  /\ UNCHANGED <<homeVars, due, sent>>

Free(r) == ~Pending(r) /\ trail.made < MaxRevision

\* Faulty variant: only what is saved counts as an earlier request.
EntriesOnDisk(k) == {e \in Range(file.keys) : e.key = k}
Entries(k) == {e \in Range(state.keys) : e.key = k}

Newest(keys) == IF Len(keys) <= MaxKeys THEN keys ELSE SubSeq(keys, Len(keys) - MaxKeys + 1, Len(keys))
WithKey(content, k, wish, a) ==
  [content EXCEPT !.keys = Newest(Append(@, [key |-> k, wish |-> wish, id |-> a]))]

\* A new id is drawn, or the input has one, also of an automation that exists, which is
\* replaced while its earlier parts stay, or that was removed.
Fresh == {a \in Automation \ trail.names : \A b \in Automation \ trail.names : a <= b}

Creates(r, a, wish, k) ==
  LET content == WithKey(Definition(state, a, 1, TRUE, <<NewMade>>, NewActions(a, wish, {})), k, wish, a)
  IN /\ Spend("creates") /\ Free(r)
     /\ a \in Fresh \cup trail.names
     /\ Entries(k) = {} /\ Valid(wish) /\ Count(state) < MaxAutomations
     /\ Asks(r, content, [what |-> "create", id |-> a, key |-> k, expected |-> 0])
     /\ trail' = [trail EXCEPT !.made = NewMade, !.names = @ \cup {a},
                    !.replaced = IF a \in trail.names THEN @ \cup {a} ELSE @,
                    !.unsure = @ \cup ({e.key : e \in Range(state.keys)} \ {e.key : e \in Range(content.keys)})]

\* The same request again: answered from memory, whether or not it is saved by now.
CreatedBefore(k, wish) ==
  /\ \E e \in Entries(k) :
       /\ e.wish = wish
       /\ trail' = [trail EXCEPT !.told[k] = @ \cup {e.id},
                                 !.unsure = IF \E r \in Request : asked[r].key = k THEN @ \cup {k} ELSE @]
  /\ UNCHANGED <<storeVars, homeVars, asked, due, sent, budget>>

Duplicates(r, a, copy) ==
  LET wish == WishOf(state, a)
  IN /\ Spend("creates") /\ Free(r) /\ Live(state, a) /\ copy \in Fresh
     /\ Valid(wish) /\ Distinct(state, a) /\ Count(state) < MaxAutomations
     /\ Asks(r, Definition(state, copy, 1, FALSE, <<NewMade>>, NewActions(copy, wish, {})),
             [what |-> "create", id |-> copy, key |-> "none", expected |-> 0])
     /\ trail' = [trail EXCEPT !.made = NewMade, !.names = @ \cup {copy}]

\* Faulty variant: whatever the client has seen.
AnyExpected(a, expected) == TRUE
Expected(a, expected) == expected = state.autos[a].revision

\* What a client has seen of an automation.
Seen(a) == 1..state.autos[a].revision

\* update; with the definition's own actions and trigger it is setEnabled.
Updates(r, a, wish, enabled, newTrigger, expected) ==
  LET old == ActionsOf(state, a)
      triggerId == IF newTrigger THEN <<NewMade>> ELSE (CHOOSE t \in TriggersOf(state, a) : TRUE).id
  IN /\ Spend("edits") /\ Free(r)
     /\ Live(state, a) /\ TriggersOf(state, a) # {} /\ Expected(a, expected)
     /\ (wish = WishOf(state, a) /\ Distinct(state, a)) \/ wish \in Wish
     /\ Valid(wish)
     /\ Asks(r, Definition(WithoutParts(state, a), a, state.autos[a].revision + 1, enabled, triggerId, NewActions(a, wish, old)),
             [what |-> "edit", id |-> a, key |-> "none", expected |-> expected])
     /\ trail' = [trail EXCEPT !.made = NewMade]

Removes(r, a, expected) ==
  /\ Spend("edits") /\ Free(r)
  /\ Live(state, a) /\ Expected(a, expected)
  /\ Asks(r, [WithoutParts(state, a) EXCEPT !.autos[a] = NoAutomation], [what |-> "remove", id |-> a, key |-> "none", expected |-> expected])
  /\ trail' = [trail EXCEPT !.leaving = @ \cup {a}]

OtherSaves ==
  /\ Spend("others") /\ Commit(Other, state)
  /\ UNCHANGED <<homeVars, asked, due, sent, trail>>

(***************************************************************************)
(* The writes, and the answers they bring.                                  *)
(***************************************************************************)
Persist(o) == ChainWrite(o) /\ UNCHANGED <<homeVars, asked, due, sent, budget, trail>>
WriteStarts == Serialise /\ UNCHANGED <<homeVars, asked, due, sent, budget, trail>>

Answer(o) ==
  /\ asked' = [r \in Request |-> IF r = o THEN Nothing ELSE asked[r]]
  /\ UNCHANGED <<homeVars, due, sent>>

WriteEnds ==
  /\ WriteDone
  /\ Answer(Head(queue))
  /\ LET q == IF Head(queue) = Other THEN Nothing ELSE asked[Head(queue)]
     IN trail' = CASE q.key # "none" -> [trail EXCEPT !.told[q.key] = @ \cup {q.id}]
                   [] q.what = "edit" -> [trail EXCEPT !.edits[q.id] = Append(@, q.expected)]
                   [] q.what = "remove" -> [trail EXCEPT !.gone = @ \cup {q.id}]
                   [] OTHER -> trail
  /\ UNCHANGED budget

WriteErrs == Spend("faults") /\ WriteFailed /\ Answer(Head(queue)) /\ UNCHANGED trail

(***************************************************************************)
(* Devices, ticks and executions.                                           *)
(***************************************************************************)
ApiVars == <<storeVars, asked, due, sent, trail>>

\* Saves of devices are taken for done.
DeviceChanges == Spend("devices") /\ ((\E d \in Device : HomeChanges(d)) \/ \E area \in Area : RemovesArea(area)) /\ UNCHANGED ApiVars
Calls == Spend("calls") /\ (\E c \in Call, ask \in Ask : CallArrives(c, ask)) /\ UNCHANGED ApiVars
CallContinues == (\E c \in Call : CommandSent(c) \/ CallRefused(c)) /\ UNCHANGED <<ApiVars, budget>>
CallBreaks == Spend("faults") /\ (\E c \in Call : CommandFails(c)) /\ UNCHANGED ApiVars

\* scheduler.tick: enabled, with a trigger and without issues.
Ticks ==
  /\ Spend("ticks") /\ due = {}
  /\ due' = UNION {{[control |-> x.control, value |-> x.value, seen |-> Stored(Subject)] : x \in ActionsOf(state, a)} :
                   a \in {a \in Automation : state.autos[a].enabled /\ Executable(state, a)}}
  /\ UNCHANGED <<storeVars, homeVars, asked, sent, trail>>

\* Faulty variant: the control as it was when the automation was listed.
OfferedThen(x) == {c \in Controls(x.seen) : c.id = x.control}
Offered(x) == {c \in Controls(Stored(Subject)) : c.id = x.control}

\* findControl, compileTarget (which compares the type only) and the route; parameters
\* that another entity takes are not looked at.
Commands(x) ==
  LET device == Stored(Subject)
  IN UNION {{[service |-> c.service[x.value], raw |-> <<r.entity, r.service>>, value |-> x.value, control |-> x.control, device |-> device, seen |-> x.seen] :
               r \in IF x.control[1] \in DOMAIN device.surfaces THEN SourceRoute(device, device.surfaces[x.control[1]], c.service[x.value]) ELSE {}} :
             c \in {c \in Offered(x) : c.type = TypeOf[x.value]}}

Executes(x) ==
  /\ x \in due
  /\ due' = due \ {x}
  /\ sent' = IF Commands(x) = {} THEN sent ELSE CHOOSE m \in Commands(x) : TRUE
  /\ UNCHANGED <<storeVars, homeVars, asked, budget, trail>>

Restarts ==
  /\ Spend("crashes")
  /\ Reload(Load(file))
  /\ asked' = [r \in Request |-> Nothing]
  /\ due' = {}
  /\ calls' = [c \in Call |-> NoCall]
  /\ UNCHANGED <<home, sent, trail>>

Next ==
  \/ \E r \in Request :
       \/ \E a \in Automation, wish \in Wish, k \in Key : Creates(r, a, wish, k)
       \/ \E a, copy \in Automation : Duplicates(r, a, copy)
       \/ \E a \in Automation : \E expected \in Seen(a) :
            \/ \E wish \in Wish \cup {WishOf(state, a)}, enabled, newTrigger \in BOOLEAN :
                 Updates(r, a, wish, enabled, newTrigger, expected)
            \/ Removes(r, a, expected)
  \/ \E k \in Key, wish \in Wish : CreatedBefore(k, wish)
  \/ OtherSaves
  \/ \E o \in Owner : Persist(o)
  \/ WriteStarts \/ WriteEnds \/ WriteErrs
  \/ DeviceChanges \/ Calls \/ CallContinues \/ CallBreaks
  \/ Ticks \/ \E x \in due : Executes(x)
  \/ Restarts

Spec == Init /\ [][Next]_vars

(***************************************************************************)
(* Properties.                                                              *)
(***************************************************************************)
\* service.js:85-120: two requests with the same key that were both answered were
\* answered with the same automation, also when the second came before the first was
\* saved.  Excused are keys answered from an entry that was not saved yet, keys that
\* were pruned, and stale snapshots.
CreatedOnce == ~overlapped => \A k \in Key \ trail.unsure : Cardinality(trail.told[k]) <= 1

\* service.js:122-187: of the edits made from the same revision one is answered, an
\* answered edit is in the file until the automation is removed, and what was removed
\* does not come back, also across restarts.  Excused are stale snapshots, and ids that
\* a creation is given once they have been used, by automations live or removed: what is
\* there then is another automation, at revision 1.
EditsKept ==
  ~overlapped =>
    \A a \in Automation \ trail.replaced :
      /\ IsInjective(trail.edits[a])
      /\ a \notin trail.leaving => \A n \in Range(trail.edits[a]) : n < file.autos[a].revision
      /\ a \in trail.gone => ~Live(file, a)

\* controlCatalog.js:77-127, 192-221, server.js:688-696: an automation sends only
\* services meant for automations that the device shows at that moment, to an entity the
\* device has and that takes the service it is turned into; and values in the range of
\* the control unless the device changed after the automation was listed.
SendsOnlyOffered ==
  sent.service # NoService =>
    /\ Allowed(sent.service)
    /\ \E c \in Controls(sent.device) : c.id = sent.control /\ c.service[sent.value] = sent.service
    /\ \E e \in RawEntity(sent.device, sent.raw[1]) : BindingFor(Range(e.bindings), sent.raw[2]) # {}
    /\ sent.device = sent.seen => Fits(sent.device, sent.control, sent.value)
=============================================================================
