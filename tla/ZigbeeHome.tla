----------------------------------- MODULE ZigbeeHome -----------------------------------
(***************************************************************************)
(* Zigbee devices in the home: the MQTT bridge (src/src/mqttBridge.js), the *)
(* pairing session and the removal of a device, over the device registry.   *)
(*                                                                          *)
(* Every MQTT message has a handler of its own, which is not awaited by the *)
(* next: the handler of an inventory awaits a save after each item, and     *)
(* reports, user calls and answers run between them.  Zigbee2MQTT and its   *)
(* network are external: devices join while it permits, are interviewed,    *)
(* renamed and removed, and report under their current friendly name.       *)
(*                                                                          *)
(* Saves succeed here, and a restart finds them: what a failed save rolls   *)
(* back, and what a crash loses, is StateStore's subject.                   *)
(***************************************************************************)
EXTENDS DeviceRegistry, Naturals, SequencesExt

CONSTANTS
  MaxHandlers,   \* bound: messages in their handlers at a time
  MaxRemovals,   \* bound: removals asked for
  MaxEvents      \* bound: reports, changes of the network and calls of users

ASSUME ZigbeeAssumption ==
  MaxHandlers \in Nat \ {0} /\ MaxRemovals \in Nat /\ MaxEvents \in Nat /\ IsFiniteSet(Phys)

Removals == 1..MaxRemovals

VARIABLES
  registry,   \* the store's devices, aliases and areas
  handlers,   \* the messages being handled, in the order of their arrival
  pairing,    \* pairingSession: active, and its baseline
  calls,      \* permitJoin calls of start, stop and the bridge that are awaited
  removals,   \* the removals: what remove() and removeDevice() are at
  requests,   \* removal requests and answers under way
  network,    \* the joined devices, in Zigbee2MQTT's order
  permit,     \* Zigbee2MQTT permits devices to join
  hist,       \* history: names given, devices out and back, and what was seen
  events      \* the bounded events so far

bridge == <<handlers, pairing, calls>>
removing == <<removals, requests>>
zigbee == <<network, permit>>
zigbeeVars == <<registry, bridge, removing, zigbee, hist, events>>

Idle == [active |-> FALSE, baseline |-> {}]
NoRemoval == [phase |-> "idle", key |-> None, name |-> None]

Joined == {network[i].dev : i \in DOMAIN network}
Bounded == events < MaxEvents /\ events' = events + 1

Seconds == 120
Longest == 254

\* permitJoin: the request bounds Number(time) || 254, in which 0 counts as no time.
Permits(time) == (IF time = 0 THEN Longest ELSE time) > 0

(***************************************************************************)
(* Messages and their handlers.                                             *)
(***************************************************************************)
Inventory(net) == [kind |-> "inventory", first |-> FALSE, begun |-> FALSE, stop |-> FALSE, items |-> net]
Report(d, n) == [kind |-> "report", first |-> FALSE, begun |-> FALSE, stop |-> FALSE,
                 items |-> <<[dev |-> d, name |-> n, done |-> TRUE]>>]

\* A message arrives.  saveConfigEntry sets the entry in memory and awaits its
\* save; where the entry is set already it awaits nothing.
Publish(m) ==
  /\ Len(handlers) < MaxHandlers
  /\ handlers' = Append(handlers, [m EXCEPT !.first = ~registry.entry])
  /\ registry' = [registry EXCEPT !.entry = TRUE]

\* Handlers begin in the order of their messages, but for the one that waits
\* for the save of the entry.
Turn(i) == \A j \in 1..i-1 : handlers[j].begun \/ handlers[j].first
Ended(i) == handlers' = RemoveAt(handlers, i)

\* An inventory proceeds before an older one has ended.
Overtaking(i) == \E j \in 1..i-1 : handlers[j].kind = "inventory"

\* The record an inventory item belongs to: that of its key, else one of its
\* address or its name.
Owners(r, item) ==
  LET direct == Lookup(r, Stable(item.dev))
      named(k) == Or(r.devices[k].friendly, k) = item.name
  IN IF direct # {} THEN direct
     ELSE {k \in DOMAIN r.devices : r.devices[k].ieee = Address(item.dev) \/ named(k)}

ItemPatch(item) ==
  [legacy |-> {item.name}, friendly |-> item.name, ieee |-> Address(item.dev),
   pending |-> {~item.done}, from |-> {}]

\* Faulty variant: no migration.
SyncedBeside(r, item) ==
  IF Owners(r, item) # {} \/ pairing.active THEN {Upsert(r, Stable(item.dev), ItemPatch(item))} ELSE {}

\* The registry with an item; an unknown device is taken only in a session.
Synced(r, item) ==
  LET key == Stable(item.dev)
      owners == Owners(r, item)
  IN {IF k = key THEN Upsert(r, key, ItemPatch(item)) ELSE Migrate(r, k, key, ItemPatch(item)) : k \in owners}
     \cup (IF owners = {} /\ pairing.active THEN {Upsert(r, key, ItemPatch(item))} ELSE {})

\* A device has a record, under whichever key.
HasRecord(d) ==
  \E k \in DOMAIN registry.devices :
     k = Stable(d) \/ registry.devices[k].ieee = Address(d) \/ d \in registry.devices[k].from

\* The first item that is not skipped; skipping awaits nothing.
NextItem(i) == SelectInSeq(handlers[i].items, LAMBDA item : Synced(registry, item) # {})

HandleItem(i) ==
  /\ handlers[i].kind = "inventory" /\ Turn(i)
  /\ NextItem(i) # 0
  /\ LET item  == handlers[i].items[NextItem(i)]
         fresh == pairing.active /\ item.done /\ Stable(item.dev) \notin pairing.baseline
     IN /\ registry' \in Synced(registry, item)
        /\ hist' = [hist EXCEPT !.overtaken = @ \/ Overtaking(i),
                               !.doubled = @ \/ (Owners(registry, item) = {} /\ HasRecord(item.dev))]
        /\ handlers' = [handlers EXCEPT ![i].begun = TRUE, ![i].stop = @ \/ fresh,
                          ![i].items = SubSeq(@, NextItem(i) + 1, Len(@))]
  /\ UNCHANGED <<pairing, calls, removing, zigbee, events>>

\* The inventory is handled: where it held a new device, the session is closed.
HandleInventoryEnd(i) ==
  /\ handlers[i].kind = "inventory" /\ Turn(i)
  /\ NextItem(i) = 0
  /\ Ended(i)
  /\ IF handlers[i].stop /\ pairing.active
     THEN permit' = Permits(0) /\ calls' = calls \cup {"sync"}
     ELSE UNCHANGED <<permit, calls>>
  /\ hist' = [hist EXCEPT !.overtaken = @ \/ Overtaking(i)]
  /\ UNCHANGED <<registry, pairing, removing, network, events>>

\* A report of state: resolveDeviceId, and a new record only in a session.
HandleReport(i) ==
  /\ handlers[i].kind = "report" /\ Turn(i)
  /\ Ended(i)
  /\ LET name  == handlers[i].items[1].name
         patch == [Nothing EXCEPT !.from = {handlers[i].items[1].dev}]
         found == Lookup(registry, name)
     IN \/ /\ found = {} /\ pairing.active
           /\ registry' = Upsert(registry, name, patch)
           /\ hist' = [hist EXCEPT !.doubled = @ \/ HasRecord(handlers[i].items[1].dev)]
        \/ found = {} /\ ~pairing.active /\ UNCHANGED <<registry, hist>>
        \/ \E k \in found : registry' = Upsert(registry, k, patch) /\ UNCHANGED hist
  /\ UNCHANGED <<pairing, calls, removing, zigbee, events>>

(***************************************************************************)
(* The pairing session: startPairing and stopPairing await permitJoin first. *)
(***************************************************************************)
StartPairing ==
  /\ Bounded
  /\ "start" \notin calls
  /\ permit' = Permits(Seconds) /\ calls' = calls \cup {"start"}
  /\ UNCHANGED <<registry, handlers, pairing, removing, network, hist>>

StopPairing ==
  /\ Bounded
  /\ "stop" \notin calls
  /\ permit' = Permits(0) /\ calls' = calls \cup {"stop"}
  /\ UNCHANGED <<registry, handlers, pairing, removing, network, hist>>

SessionStarts ==
  /\ "start" \in calls
  /\ pairing' = [active |-> TRUE, baseline |-> DOMAIN registry.devices]
  /\ calls' = calls \ {"start"}
  /\ UNCHANGED <<registry, handlers, removing, zigbee, hist, events>>

SessionStops ==
  /\ \E c \in calls \ {"start"} :
       /\ calls' = calls \ {c}
  /\ pairing' = [pairing EXCEPT !.active = FALSE]
  /\ UNCHANGED <<registry, handlers, removing, zigbee, hist, events>>

\* expiresAt passes.
SessionExpires ==
  /\ pairing.active
  /\ pairing' = [pairing EXCEPT !.active = FALSE]
  /\ UNCHANGED <<registry, handlers, calls, removing, zigbee, hist, events>>

(***************************************************************************)
(* Removal: DELETE of a device asks Zigbee2MQTT, and deletes the record     *)
(* after the answer.                                                        *)
(***************************************************************************)
\* The record that the listed key leads to is looked up again by its own key.
RemovalAsked(t, listed) ==
  /\ Bounded
  /\ removals[t].phase = "idle"
  /\ \E k \in Lookup(registry, listed) : \E l \in Lookup(registry, k) :
       LET name == Or(registry.devices[l].friendly, registry.devices[l].ieee)
       IN /\ removals' = [removals EXCEPT ![t] = [phase |-> "asked", key |-> k, name |-> name]]
          /\ requests' = requests \cup {[by |-> t, name |-> name, answer |-> "open"]}
  /\ UNCHANGED <<registry, bridge, zigbee, hist>>

\* Zigbee2MQTT removes the device of that name or address, or refuses.
RequestServed(q) ==
  /\ q.answer = "open"
  /\ \/ \E i \in DOMAIN network :
          /\ q.name \in {network[i].name, Address(network[i].dev)}
          /\ network' = RemoveAt(network, i)
          /\ Publish(Inventory(RemoveAt(network, i)))
          /\ hist' = [hist EXCEPT !.out = @ \cup {network[i].dev}]
          /\ requests' = (requests \ {q}) \cup {[q EXCEPT !.answer = "ok"]}
     \/ /\ requests' = (requests \ {q}) \cup {[q EXCEPT !.answer = "error"]}
        /\ UNCHANGED <<registry, network, handlers, hist>>
  /\ UNCHANGED <<pairing, calls, removals, permit, events>>

\* A request or its answer is lost (both have QoS 0).
RequestLost(q) ==
  /\ requests' = requests \ {q}
  /\ UNCHANGED <<registry, bridge, removals, zigbee, hist, events>>

\* bridge/response/device/remove: the removal of the transaction, else the
\* first that asked for the same name.
Claimants(q) ==
  LET asked == {t \in Removals : removals[t].phase = "asked"}
  IN IF q.by \in asked THEN {q.by} ELSE {t \in asked : removals[t].name = q.name}

AnswerHandled(q) ==
  /\ q.answer # "open"
  /\ requests' = requests \ {q}
  /\ IF Claimants(q) = {} THEN UNCHANGED removals
     ELSE \E t \in Claimants(q) :
            removals' = [removals EXCEPT ![t].phase = IF q.answer = "ok" THEN "answered" ELSE "failed"]
  /\ UNCHANGED <<registry, bridge, zigbee, hist, events>>

RemovalTimesOut(t) ==
  /\ removals[t].phase = "asked"
  /\ removals' = [removals EXCEPT ![t].phase = "failed"]
  /\ UNCHANGED <<registry, bridge, requests, zigbee, hist, events>>

\* forgetDevice and deleteDevice, after the await of addEvent.
RemovalDeletes(t) ==
  /\ removals[t].phase = "answered"
  /\ removals' = [removals EXCEPT ![t].phase = "done"]
  /\ pairing' = [pairing EXCEPT !.baseline = @ \ {removals[t].key}]
  /\ registry' = Removed(registry, removals[t].key)
  /\ UNCHANGED <<handlers, calls, requests, zigbee, hist, events>>

(***************************************************************************)
(* Users assign devices and remove areas.                                   *)
(***************************************************************************)
DeviceSetUp(listed, area) ==
  /\ Bounded
  /\ area \in registry.areas
  /\ Resolve(registry, listed) \in DOMAIN registry.devices
  /\ ~registry.devices[Resolve(registry, listed)].pending
  /\ registry' = SetUp(registry, listed, area)
  /\ UNCHANGED <<bridge, removing, zigbee, hist>>

DeviceMoved(listed, area) ==
  /\ Bounded
  /\ area \in registry.areas \cup {None}
  /\ Resolve(registry, listed) \in DOMAIN registry.devices
  /\ registry' = Moved(registry, listed, area)
  /\ UNCHANGED <<bridge, removing, zigbee, hist>>

AreaRemoved(area) ==
  /\ Bounded
  /\ area \in registry.areas
  /\ registry' = WithoutArea(registry, area)
  /\ UNCHANGED <<bridge, removing, zigbee, hist>>

(***************************************************************************)
(* The network, its reports, and restarts of the process.                   *)
(***************************************************************************)
Joins(d) ==
  /\ Bounded
  /\ permit /\ d \notin Joined
  /\ network' = Append(network, [dev |-> d, name |-> Address(d), done |-> FALSE])
  /\ Publish(Inventory(network'))
  /\ hist' = [hist EXCEPT !.out = @ \ {d}, !.back = @ \cup (hist.out \cap {d})]
  /\ UNCHANGED <<pairing, calls, removing, permit>>

Interviewed(i) ==
  /\ ~network[i].done
  /\ network' = [network EXCEPT ![i].done = TRUE]
  /\ Publish(Inventory(network'))
  /\ UNCHANGED <<pairing, calls, removing, permit, hist, events>>

\* A user gives a device another name in Zigbee2MQTT.
Renamed(i, name) ==
  /\ Bounded
  /\ \A j \in DOMAIN network : network[j].name # name
  /\ network' = [network EXCEPT ![i].name = name]
  /\ Publish(Inventory(network'))
  /\ hist' = [hist EXCEPT !.given = @ \cup {<<name, network[i].dev>>}]
  /\ UNCHANGED <<pairing, calls, removing, permit>>

Reports(i) ==
  /\ Bounded
  /\ Publish(Report(network[i].dev, network[i].name))
  /\ UNCHANGED <<pairing, calls, removing, zigbee, hist>>

PermitEnds ==
  /\ permit
  /\ permit' = FALSE
  /\ UNCHANGED <<registry, bridge, removing, network, hist, events>>

\* The retained inventory is delivered again to the new process.  The entry may
\* have been lost with the message that waited for its save.
HubRestarts ==
  /\ Bounded
  /\ \E loaded \in Loaded(registry) :
     \E entry \in {registry.entry} \cup {FALSE : i \in {j \in DOMAIN handlers : handlers[j].first}} :
       /\ registry' = [loaded EXCEPT !.entry = TRUE]
       /\ handlers' = <<[Inventory(network) EXCEPT !.first = ~entry]>>
  /\ pairing' = Idle /\ calls' = {}
  /\ removals' = [t \in Removals |->
                    IF removals[t].phase = "idle" THEN NoRemoval ELSE [removals[t] EXCEPT !.phase = "done"]]
  /\ UNCHANGED <<requests, zigbee, hist>>

-----------------------------------------------------------------------------
\* What pairing and setup leave in the registry.
Paired(d, area) ==
  [Blank(Stable(d)) EXCEPT !.legacy = {Address(d)}, !.friendly = Address(d), !.ieee = Address(d),
                           !.area = area, !.ready = TRUE]

\* A home whose joined devices, if any, have been paired and set up before.
ZigbeeInit ==
  /\ \E known \in SUBSET Phys : \E area \in [known -> Area] :
       /\ registry = [devices |-> [k \in {Stable(d) : d \in known} |-> Paired(k[2], area[k[2]])],
                      aliases |-> [a \in {Address(d) : d \in known} |-> Stable(a[2])],
                      areas |-> Area, entry |-> known # {}]
       /\ network = SetToSeq({[dev |-> d, name |-> Address(d), done |-> TRUE] : d \in known})
  /\ handlers = <<>>
  /\ pairing = Idle /\ calls = {}
  /\ removals = [t \in Removals |-> NoRemoval]
  /\ requests = {}
  /\ permit = FALSE
  /\ hist = [given |-> {}, out |-> {}, back |-> {}, doubled |-> FALSE, overtaken |-> FALSE]
  /\ events = 0

Handle == \E i \in DOMAIN handlers : HandleItem(i) \/ HandleInventoryEnd(i) \/ HandleReport(i)

ZigbeeNext ==
  \/ Handle
  \/ StartPairing \/ StopPairing \/ SessionStarts \/ SessionStops \/ SessionExpires
  \/ \E t \in Removals : (\E k \in Keys : RemovalAsked(t, k)) \/ RemovalTimesOut(t) \/ RemovalDeletes(t)
  \/ \E q \in requests : RequestServed(q) \/ RequestLost(q) \/ AnswerHandled(q)
  \/ \E k \in Keys, a \in Area : DeviceSetUp(k, a)
  \/ \E k \in Keys, a \in Area \cup {None} : DeviceMoved(k, a)
  \/ \E a \in Area : AreaRemoved(a)
  \/ \E d \in Phys : Joins(d)
  \/ \E i \in DOMAIN network : Interviewed(i) \/ Reports(i) \/ \E n \in Name : Renamed(i, Friendly(n))
  \/ PermitEnds \/ HubRestarts

ZigbeeSpec == ZigbeeInit /\ [][ZigbeeNext]_zigbeeVars

-----------------------------------------------------------------------------
ZigbeeTypeOK ==
  /\ \A k \in DOMAIN registry.devices : k \in Keys /\ registry.devices[k] \in Record
  /\ \A a \in DOMAIN registry.aliases : a \in Keys /\ registry.aliases[a] \in Keys
  /\ registry.areas \subseteq Area
  /\ Len(handlers) <= MaxHandlers
  /\ pairing \in [active : BOOLEAN, baseline : SUBSET Keys]
  /\ calls \subseteq {"start", "stop", "sync"}

\* Names may lead astray: one was given to two devices, a device that has a
\* record reported, or was listed, under a name not known yet, an inventory
\* overtook another.
Reused == \E g, h \in hist.given : g[1] = h[1] /\ g[2] # h[2]
Confused == Reused \/ hist.doubled \/ hist.overtaken

\* No two records hold reports of one device: reports that are handled between
\* the items of an inventory, before and after a rename, a migration or a
\* restart, end in one record (resolveDeviceId and the aliases of upsertDevice).
\* Every record is found under its own key, and with no message in its handler
\* every joined device that has a record is found under its current name:
\* no alias shadows a record (getDevice follows aliases first).
OneRecord ==
  ~Confused =>
    /\ \A k, l \in DOMAIN registry.devices :
         k # l => registry.devices[k].from \cap registry.devices[l].from = {}
    /\ \A k \in DOMAIN registry.devices : Lookup(registry, k) = {k}
    /\ handlers = <<>> => \A i \in DOMAIN network :
         Stable(network[i].dev) \in DOMAIN registry.devices
           => Lookup(registry, network[i].name) = {Stable(network[i].dev)}

\* Neither a message nor a removal loses what a user has set: the area and the
\* setup of a record are those of a record after it, however it is renamed or
\* migrated, and only a device that has left loses its record, unless it has
\* joined again (upsertDevice, migrateDeviceIdentity; DELETE in server.js waits
\* for remove in mqttBridge.js, a positive answer of Zigbee2MQTT).
SetupKept ==
  [][events' = events /\ ~Confused' =>
       \A k \in DOMAIN registry.devices : registry.devices[k].ready =>
         \/ \E l \in DOMAIN registry.devices' :
              /\ registry.devices'[l].ready /\ registry.devices'[l].area = registry.devices[k].area
              /\ registry.devices[k].from \subseteq registry.devices'[l].from
         \/ removals' # removals /\ k \notin {Stable(d) : d \in Joined \ hist.back}]_zigbeeVars

=============================================================================
