# Dinodia OS in TLA+

TLA+ modules of the hub's own logic, the TLC configurations that check them on small instances, and TLAPS proofs of
what can be proved for every instance. Paths below are relative to the repository's `src/` directory
(`store.js` is `src/src/store.js` in `PROJECT.json`, whose `map` gives the lines behind every definition); `docs/` and
`README.md` are the repository's documents.

1. [The system](#1-the-system)
2. [Plan](#2-plan)
3. [Modules](#3-modules)
4. [Runs](#4-runs)
5. [Fairness](#5-fairness)
6. [Proofs](#6-proofs)
7. [Where the code and its documents disagree](#7-where-the-code-and-its-documents-disagree)
8. [What the models show of the code](#8-what-the-models-show-of-the-code)
9. [Not modelled](#9-not-modelled)

## 1. The system

The hub is one Node process. All of its lasting state is one object, kept in one JSON file. Everything that happens is
a callback, a timer or an awaited promise in a single event loop: between two awaits a handler runs alone, at each await
anything else may run. That is where its hard behaviours come from. There are no threads and no locks. Processes beside
it (the Hive worker, Zigbee2MQTT, the Matter server, the Thread containers, cloudflared) talk to it in messages.

How the parts interact: a protocol bridge hears of a device and calls `upsertDevice` or `updateDeviceState` of the store;
`notifyDeviceChanged` in `server.js` then tells the heating controller, the legacy rules, both usage trackers, the
activity log, Alexa and the state notifier. Schedulers and API routes send commands to the bridges through the controls a
device presents. Platform synchronisation reads the whole state and acknowledges parts of it. All of them save through
the same write chain.

| Component | State | Operations | What is hard | What makes it correct |
|---|---|---|---|---|
| State store, write chain (`store.js` 586-629) | the state in memory, the file, the queue of writes, each caller's snapshot | commit, direct saves, persist, load | a write publishes whatever memory holds at its turn; a rollback puts back a snapshot of everything; crashes | what was reported saved stays, in memory, in the file and over a restart; what failed goes |
| Native automations (`automations/scheduler.js`, `executor.js`) | definitions, occurrences, history, last tick | recover, tick, claim, execute, record | crash between a claim, an action and its outcome; clocks; edits and others' saves in between | no action twice, no due minute passed over, records that tell the truth |
| Automation API (`automations/service.js`, `controlCatalog.js`, `validator.js`) | definitions with revisions, idempotency keys | create, copy, update, enable, remove, list, execute, migrate | retries, concurrent edits, pending saves, devices that change after validation | one effect for each key, no lost update, only what is offered is sent |
| Capabilities and calls (`capabilities/devicePresentation.js`, `haModel.js` 255-423) | entities, surfaces and their routes | present, rebuild, call a service | a later discovery regroups entities; targets vanish while a call is under way | routes stay, a call commands what it named, once |
| Legacy rules (`automation.js`) | last run, last minute | on device change, tick | actions awaited between rules, overlapping ticks | ticks run a rule once for its minute, at most one run in a cooldown |
| Heating demand (`heatingDemandController.js`) | configuration, mapping, pending command, retry | evaluate, apply, configure, synchronise mapping | one evaluation in flight that others join; stale readings; failed and unobserved commands | commands match the demand; the boiler follows; disabled means silent |
| Device registry (`store.js` 635-1250) | devices, aliases, areas, labels | upsert, migrate, delete, set up, move, remove area | a device has several names over time; names are given again | one record for each device, found by each of its names; setup is never lost |
| Zigbee (`mqttBridge.js`) | pairing session, pending removals | messages, start and stop of pairing, removal | message handlers that overlap at each save; answers late or lost | one record, deletion only of what has left |
| Matter and Thread (`matterBridge.js`, `integrations/matter`, `threadService.js`) | socket, requests, commissioning sessions, adapter | connect, list, events, commission, remove, select | several sockets, events during a listing, two sessions, timeouts against answers | records agree with the server, a session names its own device, the bridge comes back |
| Hive (`integrations/hive`) | account, worker, poll, tombstones, credential session | connect, poll, ingest, sweep, command, disconnect | a poll writes zone by zone while users act | users' removals, assignments and disconnection hold |
| Google Nest (`integrations/googleNest`) | account, grant, token, poll, command chain | authorise, poll, recognise renamed devices, command, confirm, disconnect | snapshots stored over awaits, names that come back | records and setups stay with their thermostat |
| Activity and incidents (`activity/activityService.js`) | records, incidents, outbox | observe, sweep, reclassify, acknowledge | lists walked over awaits; bounded outbox; revisions | the platform takes for open what the hub does; alarms end |
| Usage (`electricUsage.js`, `heatingUsage.js`) | counters, epochs, dirty marks | accrue, upload, acknowledge, reset | counters grow during an upload; saves half a second late | nothing counted twice or lost |
| Platform (`platformPairing.js`) | pairing, credential, versions, retry times | handshake, synchronise, publish | two synchronisations at once; lost answers; backoff | hub and platform hold the same credential |
| Alexa (`integrations/alexa`), notifier (`stateChangeNotifier.js`) | receipts, catalogue, queues of reports and notices | directive, push, report, notice | duplicated directives, reports merged in flight | one execution for each directive, the last state is reported |
| Authorisation, provisioning (`auth`, routes of `server.js`) | grants, nonces, proofs, sessions, leases, codes | verify, enrol, revoke, issue, redeem, restore | marks and saves, requests at the same time, restarts | a token is used once, what was revoked stays so |
| Secret vault (`secretVault.js`), backup | secrets, write queue | set, clear, load | a failed write, a clear beside writes | what was answered is on the disk |
| API server (`server.js`) | none of its own | routes, wiring of callbacks, start and stop | order of awaits in a route | see the components it calls |
| Cloudflare tunnel, configuration and setup discovery, dashboard, scripts | a child process; none | - | little of their own | I/O, tested as such |

`PROJECT.json` lists for each component whether it is modelled, and under `hazards` the places, line by line, where
something can go wrong that a test would hardly reach, with the properties that watch it.

## 2. Plan

In the order of how much depends on them. Every module takes its parameters as CONSTANTS with named assumptions, has
one action for each operation or each stretch between two awaits, and declares no RECURSIVE operator, so that it can be
proved about.

| | Modules | Composition | State |
|---|---|---|---|
| 1 | `StoreCommit`, `StateStore`, `TempFileStore` | the chain without contents; with sets of mutations; with a temporary file, which implements the second | checked, proved |
| 2 | `NativeAutomations` | extends `StoreCommit`: definitions and occurrences are the content | checked, safety proved |
| 3 | `HeatingDemand` | - | checked, safety proved |
| 4 | `HiveHome` | - | checked, safety proved |
| 5 | `DeviceRegistry`, `ZigbeeHome` | `ZigbeeHome` extends the registry's operators | checked, safety proved |
| 6 | `UsageCounters`, `Incidents`, `PlatformHome` | `PlatformHome` composes counters and incidents with pairing and synchronisation | checked, safety proved |
| 7 | `NestHome` | - | checked, safety proved |
| 8 | `MatterHome` | - | checked, safety proved |
| 9 | `AlexaReports`, `DeviceChanges` | `DeviceChanges` extends it with rules and notices | checked, safety proved |
| 10 | `Access` | tokens, grants, sessions, leases, codes and the vault over one queue of saves | checked, proved |
| 11 | `DevicePresentation`, `HomeControls`, `AutomationService` | the presentation; devices and calls over it; the API over both and `StoreCommit` | checked, keys and edits proved |

What is left to model checking, and why, is said at the end of section 6.

## 3. Modules

In each module a history variable (`trail`, `hist`, `past` with `slips`) remembers what the properties have to compare, and
which of the code's known weaknesses (section 8) a behaviour has met; a property exempts just those. Faulty variants that
stand before some definitions are the plausible mistakes each property is shown to detect.

**StoreCommit** is the write chain of `Store` (`commit`, `persist`, `load`) without a say in what the state contains:
`state` is memory, `file` the data file, `queue` the callers waiting in `writeQueue`, `image` what the write in flight has
serialised, `before` each caller's snapshot, `phase` where each caller stands. An owner is a caller with one mutation
outstanding. *Guarded* owners roll back to their snapshot when their write fails; *awaited* ones go through `commit`, which
awaits its mutator and so chains its write a microtask later than a direct save. `Settle` is the end of a write with the
microtasks it wakes in their order: the next write serialises before the failed owner restores its snapshot. Two history
variables, `stale` and `overlapped`, say which snapshots miss a later edit and whether such a one was put back.

**StateStore** gives the content the form of a set of mutations, one for each owner, and states what callers may rely on.
It is the abstract specification of the store: the file changes in one step. **TempFileStore** splits that step into the
creation of the temporary file, its filling and the rename, with crashes and errors between them; a torn file loads as an
empty home. `ImplementsAtomicStore` is the abstract specification, fairness included, under the refinement mapping that
takes for the abstract file what a restart would load from the disk (`file <- Load(file)`).

**NativeAutomations** extends `StoreCommit`. The content is the definitions, the occurrence records with their order, the
history and the last tick. `pc` is the scheduler's place in `start`, `tick`, `claim` and `executeOccurrence`, one value for
each await; API clients edit and remove automations, other owners save something else, writes fail, the process restarts.
`LocalTime` maps minutes to wall-clock minutes, so that a repeated hour is a map that is not injective.

**HeatingDemand** has one record for the evaluation in flight, one for a `configure` call and a flag for the mapping check
beside them; whoever wants an evaluation while one is in flight joins it. Time is kept as ages and remaining waits. The
saves of the two go through one chain of writes: that of `configure` ends after one that an evaluation began before it.

**HiveHome** is the poll (`refresh`, `ingestHiveSnapshot`, the sweep), the removal, restoring and assignment of zones, the
removal of areas, connecting, the credential session, disconnecting and the worker process. `zones` is a function on the
zones that have a device record.

**DeviceRegistry** has no state: it is the save methods of the registry as operators from a registry to a registry, and
`Lookup`, the set of records `getDevice` may return (where the code takes the first match of a list, any match is taken).
A key stands for an id, an IEEE address or a friendly name. The `from` field is history: whose reports the record holds.

**ZigbeeHome** uses them. `handlers` is the sequence of MQTT messages whose handlers have not ended. They begin in the
order of arrival, except that the first message of all waits for the save of the configuration entry while later ones
find it set. An inventory is handled item by item with a save awaited after each; a report is handled in one turn.
Pairing calls await `permitJoin` before they change the session, a removal waits for the answer of Zigbee2MQTT, which can
be late, lost or a refusal. `network`, `permit` and the messages are Zigbee2MQTT's side, modelled from what the bridge
expects of it and marked external.

**UsageCounters** has no state either: what an observation, a removal, an acknowledgement and a reset do to a tracker.
**Incidents** holds the observations of one device, of its battery and of its integration: a handler that saves and then
tells is a *job* whose elements run one by one, with what it read at its beginning. **PlatformHome** puts them under
`platformPairing.js`: `syncs` are the calls of `syncNow` under way (two, until the pairing is complete), `link` what the hub
knows of its pairing, `vault` its credential, `cloud` the platform. One save saves all parts, half a second later.

**NestHome** has the account with its grant, the poll and its timer, the ingest that writes a snapshot device by device,
the recognition of a thermostat under a new resource name with the migration of its record, and commands with their
recovery and confirmation. Google's side is a set of names for each thermostat, of which the former may still be listed.

**MatterHome** gives each WebSocket a wire with an inbox, since the code opens a new one before the old has closed.
`jobs` are the listings being stored, one await for each node; `sessions` the commissioning sessions; `thread` the adapter
and the address that brings the bridge up: a removal of the adapter stops the router, saves that there is none (`Clears`)
and only then takes the address from the bridge (`Unselected`). The event that the removal of a device adds before the
deletion is left out.

**AlexaReports** is directives with receipts, the queue of state reports and those under way, and the catalogue.
**DeviceChanges** adds `notifyDeviceChanged`: `runners` are the passes over the legacy rules, begun by a change or by the
clock; a pass awaits the actions of each rule; then come the catalogue and the notices for the platform. A trigger that
names a time refuses no device, so that a pass that a change begins runs the rules of the clock as well.

**Access** has the queue of saves once more, for its own parts of the state: `store` is memory, disk and what is being
written; an entry of `saves` says what its end does. Tokens, grants, operator sessions with their sockets, support leases,
the provisioning code with the setup requests that show it, and the vault with its own queue are beside each other since
the hazards lie in what they share: failing saves, the rollback by another part, factory reset and restart. The platform's
ids of a registration join whatever code is stored when they arrive; a code they join that is not their own is excused.

**DevicePresentation** has no state: it groups a device's entities into surfaces. What a group offers (`Offers`) are the
bindings of its writable entities under their public services; the first offer of a service takes its route, later ones add
the parameters that are not there yet (`Routes`, `Shown`); `Limits` is the range and the options that the first entity has
which has any. **HomeControls** is the devices with these surfaces and the calls of services under way. A call asks each
target whether it takes the service: one with bindings looks among them, one without takes whatever the called domain knows,
whatever its own domain is (`Plain`), and then its whole device is commanded.
**AutomationService** extends both `StoreCommit` and `HomeControls`: requests validate against the controls of the moment,
mutate in one turn and await the write; a due automation is listed and later executed against what is offered then. A control
has the type of its parameter, of which a string is an option, or of its service, and the key of its parameter, or else one
that several services may share, of which the first stays; numbers and options need a range or a list, their own or the
surface's, and an invocation needs none. Ids that were used may be given to a creation again.

## 4. Runs

| Run | Question | Instance |
|---|---|---|
| `store` | Is writing a temporary file and renaming it as good as an atomic write, and what may a caller rely on? | four owners, of which three roll back and two go through `commit` |
| `automations` | Are actions executed at most once and recorded truthfully over a crash at any point, and does an edit take effect? | one automation with two actions, half-minute ticks, one repeated minute, an API client and another subsystem |
| `automation_service` | Is each key answered once, no edit lost, and only sent what is offered, to where it was offered? | two requests, two devices, three automations; three wishes (a level; off and a level; an option and a button), three calls, one of them of another domain |
| `heating` | Which commands may be sent, and does the boiler follow the demand? | one radiator with one disturbance of any kind, or two with none |
| `heating_pending` | Does the marker of a pending command go away? (no) | one radiator, no disturbance |
| `hive_home` | Do users' decisions hold against a poll in flight, and does polling bring what it should? | two zones, one area, two disturbances |
| `zigbee_home` | Does each device keep one record, its setup and its names? | two devices, one friendly name to give, two messages in their handlers, one removal, four events |
| `platform_home` | Do hub and platform agree on usage, credential and alarms? | one lamp, one boiler, one device with its integration, two synchronisations |
| `nest_home` | Do records stay with their thermostats while names change? | three thermostats of one model, two grants, one event or a few of each kind that go together |
| `matter_home` | Do records agree with the server over sockets that drop, and do sessions name their device? | two nodes, two sessions, two sockets |
| `device_changes` | Is a directive executed once and its state reported, do ticks run a rule once a minute, does the catalogue arrive? | two endpoints, two directives for one of them, two rules, two overlapping passes |
| `access` | Is a token used once, what was revoked gone, an answered secret on the disk, an ended code over? | two nonces, a proof, a grant, two sessions, a lease, two secrets, three codes |

What the properties say, by component:

- *Store.* `RestartKeepsSaved`: whatever is on the disk, torn or whole, a restart reads back what was reported saved.
  `RolledBack`: what was reported failed is not in memory. `EverySaveAnswered` is liveness: a failed write does not stop the
  chain. `ImplementsAtomicStore` is the refinement. They are conditional on `~overlapped`: a failing save whose snapshot is
  older than another pending edit wipes that edit, as `commit` is designed. `StateStore` states and `StoreProofs`
  proves further ones (`Durable`, `SavedStaysInMemory`, `QuiescentAgreement`, `NoSaveUndone`), which the refinement carries over.
- *Automations.* `AtMostOnce` counts calls of an action over restarts; `TruthfulRecords` compares outcomes with what the
  devices did; `NoneLeftOpen` says that no claim is left behind a tick; `NoMinuteSkipped` relates the ticks that ended well
  to the occurrences of their minutes; `DisabledStaysQuiet` is about edits: what runs of a disabled definition was listed
  before it was disabled, or by an edit that its failed write took back. That a listed definition runs although it was
  disabled since is what the code does, so that the property does not speak against it (section 8).
- *Automation API.* `CreatedOnce` compares the answers under one key, `EditsKept` the answers to concurrent edits with each
  other and with the file, `SendsOnlyOffered` what is executed with what the device offers then; `RoutesKept` says that a
  later discovery takes no surface away and turns no service to another entity; `CallsOnTarget` that a call reaches only
  what it named, or what of its domain was shown where nothing it named was, none twice, whatever becomes of the home
  meanwhile. `EditsKept` exempts ids that a creation is given once they have been used, by a live or a removed automation:
  the code makes another automation of them, at revision 1.
- *Heating.* `DisabledSendsNothing` and `CommandsMatchDemand` are about each command sent; `BoilerFollowsDemand` and
  `UnknownFailsOff` about what must come in the end, as long as the demand stays and no command is stuck as pending.
- *Hive.* `DisconnectedStaysEmpty`, `PollKeepsEdits`, `WantedComes`. They exempt what a poll in flight cannot know of, since
  the code loses it: for `PollKeepsEdits` that is what users changed after this poll had listed the devices for its sweep,
  and zones hidden after it had read the tombstones. Changes made before a poll listed anything are not exempt.
- *Zigbee.* `OneRecord` (no device has two records, and each is found by its names) and `SetupKept` (neither a message nor a
  removal loses a setup, and only a device that has left loses its record) hold as long as names are not confused: no name
  was given to two devices, no device with a record was reported or listed in a session under a name by which its record is
  not found yet, and no inventory was overtaken by a newer one.
- *Platform.* `UsageAccounted` follows each second counted, over lost answers, segments, retired lamps and resets;
  `CredentialAgrees` the credential over a handshake that is lost or restarted anywhere; `ToldAgrees` compares incidents with
  what the platform was told; `AlarmsClear` is its liveness.
- *Nest.* `OwnRecords`: no record carries another thermostat's setup or state, and a command reaches the thermostat that was
  meant; a record is found under its own name, and a home that left the account has none. `SettingsMove`: a setup moves with
  its record, and is neither lost nor doubled. Both exempt what section 8 says of Nest: `strange` remembers that a thermostat
  without a record was given another's, `back` that a former name or a former record came back, `cut` that a user changed a
  record while a snapshot was being stored, `outlived` that something was in flight at the disconnect.
- *Matter.* `Settings` joins `RecordsAgree` (one record for each node, in agreement once all is handled) and `UrlFollows` (an
  address only with an adapter, but between the save that clears the adapter and the removal's next line); `OwnDevice`: a session names the device of its code; `Recovers`: the bridge reconnects and
  every commissioning ends. `OwnDevice` exempts sessions that overlap, a device that joins for a session given up while
  another goes on, and sessions begun while the server has, or something on its way to the hub names, a device the hub does
  not know: the code takes the first new device it is told of. `RecordsAgree` exempts devices whose events were lost or overtaken.
- *Changes.* `ExecutedOnce`, `NoReportLost`, `OncePerMinute`, and `Arrival`, which is liveness. `OncePerMinute` counts the
  runs that ticks begin; changes of devices run the same rules, as often as the cooldown lets them (section 8).
- *Access.* `UsedOnce`, `RevokedStays`, `SecretsKept`, `CodeEnds`.

**Bounds.** Unbounded things are bounded in guards by constants: revisions, records, handlers, epochs, grants, calls.
What disturbs (errors, restarts, edits, changes of the outside) is bounded in one of two ways. In `HeatingDemand`,
`HiveHome` and `ZigbeeHome` one counter (`MaxEvents`) bounds all of it together. In the others a behaviour begins by
choosing one of several *scenarios* in `Init`: a record that says how often each kind of event may happen, spent by
`Spend(kind)`. A scenario puts together the few kinds of events that one hazard needs, as often as it needs them, and they
may fall at every step; all scenarios together let every action happen. This covers two or three coinciding disturbances
of the kinds that share state, where one bound for all kinds would stop at one. It leaves out coincidences across
scenarios, such as a lost answer during a handshake while a lamp moves, which touch different parts of the state.

One error and one restart suffice for most of these hazards because they lie in *where* the disturbance falls; two
callers, messages, sessions or passes are the fewest that interleave, and three or four let one overlap with a pair that
overlaps already. With two devices and one name a name can be given to each of them. A write that fails
among the edits lets an edit be taken back while a tick that listed it goes on. Three codes let a third be issued while the
requests of two others are under way. Half-minute ticks with a minute that
repeats give every order of two ticks of one minute, of neighbouring minutes and of a clock set back. Two radiators make
the demand of one differ from another's. Two directives for one device put two reports of it in flight.

`automation_service` has a view and a symmetry. The view leaves out snapshots and images that no step reads any more:
those of owners that are not pending, and of a write that has ended. Requests and calls are interchangeable, as no
definition names one of them; the run has no liveness property. `MC_TempFileStore` has neither.

`CHECK_DEADLOCK FALSE` stands where a system with its events used up and nothing in flight rests, as it really may; the
store and the heating controller always have a next step. Each module's `TypeOK`, where there is one, is a definition that
readers and proofs may use.

## 5. Fairness

- *Store*: microtasks run (`Persist`, `WriteStarts`), a file system call returns, well or badly. No fairness is asked of
  clients, errors or restarts.
- *Heating*: the interval timer keeps starting evaluations, awaited calls return (`EvalStep`, `ConfStep`, `ResyncSaved`),
  the boiler reports its state and time passes. A command may still fail each time it is bounded to.
- *Hive*: a set timer fires, requests are answered or fail (`PollStep`, `UserStep`, `StartAnswered`), the login cooldown
  ends, and a poll through a worker that is not signed in fails.
- *Platform*: synchronisations go on, jobs and saves end, the sweep's and the retry's timers fire, hours pass.
- *Matter*: sockets open or fail, messages are handled, the reconnect timer fires, saves end, the server answers or refuses.
- *Changes*: a push and a notice's delivery end, well or badly.
- *Automations, automation API, Zigbee, Nest, Access*: safety only, no fairness.

Node runs every callback that is due, and every awaited call here either has a timeout of its own or is a local file
operation; that is the justification of weak fairness for each of them. Strong fairness is not used.

## 6. Proofs

All proofs are checked by TLAPS. They assume only what the named assumptions of the modules say.

**`StoreProofs`**, for every set of owners, guarded owners and awaited owners. Assumed is that
awaited owners are guarded ones and these are owners, and that a torn file is not a content. The safety properties of
`StateStore` are not inductive: none says what the copies of the state that are still to become memory or file hold.
`IInv` follows those copies. Unless a stale snapshot was put back, memory, the file and the image being written each hold
every saved mutation and agree with the file on those whose process ended (`Faithful`, `Copies`); a pending mutation is in
memory and not in its own snapshot, and one whose snapshot is not stale is the latest edit of all, so that its snapshot is
memory without it (`PendingEdits`): this is why putting it back is harmless. A failed guarded mutation is in no later copy
(`NoFailedCopy`), except in what a new process loaded. `Untouched` says that mutations that have not run are nowhere. Each
action preserves `IInv` by a lemma of its own; the end of a write, where the head leaves the queue and the next one
serialises before the rollback, shares `SettleQueue`. `TempFileStore` needs that the temporary file is whole before
it is renamed (`FullBeforeRename`); then each of its steps is a step of `StateStore` under the refinement mapping or leaves
it unchanged, and the safety theorems of `StateStore` hold of it.

The same module has the theorems about the registry that the store holds: `ZigbeeHome`, whose specification is
`ZigbeeSpec`, for any finite set of devices, any names and areas, and any numbers of handlers, removals and events.
`OneRecord` and `SetupKept` are not inductive, as they say nothing of the names that messages, removals and answers
carry. `Sound` does, in two parts. In any case the network holds a device once and under one of its names, as do the
items of all messages (`Net`), and an answer that removes is of a device that has left (`Answers`). Unless names are
confused (`Clear`): each device has one record at most, under its proper key or, before an inventory, under the name of
a report; aliases lead to records under proper keys, never hide one, and are there for every former name (`Tidy`); a
removal names one device, and was answered only if that left (`Asked`); the name of a joined device is known to its
record, or an inventory in its handler tells it (`Reached`); and the latest inventory tells nothing the network does not
say, and all of it while an older one is still in its handler (`Latest`), which is why dropping the older one loses no
name. The operators of the registry come first: what `Upsert`, `Migrate`, `Removed` and `Loaded` do to a tidy registry
is a lemma each, and a step of a handler, a user or a restart is one of them. What an item leaves (`ItemDone`) is said
once for both ways it can be stored, and an item is skipped only if its device has no record (`NotSkipped`). A proof of
`OneRecord` with the exemptions it first had does not go through: they spoke of reports alone, and TLC then found, with
one device, two names and six events, the inventory that comes under yet another name (section 8).

**`ThermostatProofs`** is about the two modules of heating. For `HeatingDemand` it takes any radiators, any setting of the
controller and any number of events; assumed is that the boiler is no radiator, that the numbers are natural ones and that
the longest retry delay is not below the first. `Types` is the type invariant. `DisabledSendsNothing` needs to know where an enabled configuration may still come from while a call disables
the control (`Disabling`): memory is disabled at once; when its save has ended, so is the stored configuration that a
restart reads, and the one that an evaluation would return to if its save of a lost mapping failed; when the call is
answered, the evaluation it found has ended, and each later one has captured a disabled configuration. From then on that
holds as long as no call enables (`StaysOff`). That the write chain keeps the order of the two saves is what the third of
these rests on. `CommandsMatchDemand` rests on `DemandInv`: from the capture of the readings to the last command, a chosen
radiator called freshly when the evaluation began or has reported since, or, if the boiler is to be off, none called. Ages
and the length of the evaluation grow together, and an age that is no longer counted is beyond what an evaluation looks at.

For `NestHome`, whose specification is `NestSpec` so that one module extends both, it takes any finite set of thermostats,
of which none has the name `"none"`, any number of grants and any scenarios. `Whole` is the inductive invariant, and the
parts that are not types are these. `Working`: a snapshot is being stored only while its poll or its command waits for it,
and has each thermostat once. `Straight`: unless a thermostat was given another's record, everything keeps to its owner: the
records with their former names, what the snapshots listed, the aliases, the command; and a record that a snapshot
has used belongs to none of the thermostats it has still to store, which is why the same record is not recognised as a second
one's. `CalmNames` holds unless names lead astray. The aliases are the former names of the records, each leads to the record
that has it, and no record's own name is one (`Paired`); what a snapshot listed is still in the home with the same setup, or
under a name that its old one leads to (`Fits`); and a home that left has no record, no poll and no command (`Left`). A record
is then written in one of three ways (`Writes`): in place with its former names, new under a name that nothing knows, or moved
to such a name with its setup. `RewritesKeeps`, `AddsKeeps` and `MovesKeeps` show that each keeps `Paired` and `Fits`, and
`WritesCarry` that each leaves the number of records with a setup as it was. A disconnect removes the records one by one, in
an order that does not matter: `ClearedIs` gives the registries between, and a fact that each removal keeps holds of
the last. `Whole` was first model-checked as an invariant of the run's instance. Earlier forms of the
properties could not be proved, and TLC then refuted them: a record that its own alias hides outlives a disconnect, and a
sweep writes back a record that another snapshot has moved (section 8).

**`DeviceChangesProofs`**, for any endpoints, messages, rules (a finite set), passes and scenarios. `Receipts`: unless a
directive is excused, it was executed if and only if its receipt is in the memory; then the receipt is on the disk or its
save is under way, and no other save that could be rolled back began without it. `LastReported`: of an endpoint that is not
excused one report at most is on its way, and the newest copy is the last state: what is queued, else what is on its way,
else what the platform has. `Keys`: the minute key of a rule is not below any minute for which a tick ran it, and runs that a change begins leave the key alone, but for rules that a
tick of an earlier minute reached late.

**`AccessProofs`**, for any tokens, grants, sessions, leases, secrets and any number of codes, provided
that grants, sessions and leases are different things, and different from the 0 of saves without one. `Types` is the type invariant. `StoreKinds` and `VaultKinds` sort the steps by what they do
to the store and the vault, so that each invariant has a handful of cases. `Marks`: the save that a token's acceptance awaits
is the only one for this token, the mark is in the memory from its beginning, in what is being written when its turn comes,
and on the disk when it is accepted; a rollback that takes it away is remembered. `Kept`: each write that waits in the vault
differs from the one before it in one record only, the file has what was answered last, and the memory is what the last
write will leave, unless writes are rejected. `Revocations`: a session that is over is among the ended ones everywhere, in
memory, on the disk and in what is being written, and has no socket; one whose end waits is so in memory, and in what is
written when its turn has come (`SessionKept`). A grant that is over is valid nowhere and no use of it waits (`Nowhere`).
That this begins when the revocation is saved follows from the queue (`QueueKept`): whenever the memory, or what is being
written, has a grant valid although its revocation waits, an enrolment waits behind that revocation, and a use that waits
behind it has an enrolment in between. A lease that is over is not kept. `QueueMoves` and `QueueGrows` preserve `QueueKept`
when a save leaves or joins the queue.

`CodeEnds` follows a code through the same instance. Codes go forward: what nobody was issued is nowhere
(`Fresh`), and no request that is under way, nor anything stored, is newer than the current code (`Newest`). A request waits
in one place, in the vault's queue, then among the saves, then for the platform, then among the saves again (`Flow`). On the
way its secret is in each later copy of the vault, and in the file before its code is in the store (`Secured`); without that
a restart would not find the code again. What is over on the disk is over in what is being written, in the memory and by the
current code (`Past`), so that no restart and no later write brings it back. A code whose request goes on is over or the
current one, is stored, and has the platform's ids from its registration on, in memory, then in what is written and on the
disk (`Present`). `CodeKinds` sorts the steps by what they do to the codes. The proof showed that a second request's
registration may put its ids on the code of a third one, which an instance of two codes cannot show: the model excuses
the code that is stored then, not the current one.

**`NativeAutomationsProofs`**, for any automations, clients, number of actions, table of local times, bounds and scenarios;
assumed is how the owners are made up, that the bounds are numbers and that the scenarios are of the declared form. `Typed`
says what the proofs need of the types. `Truth`: each copy of the content, in memory, in the file, in the image being
written and in the snapshots, tells the truth about the calls that were made, and so does the executor's own table, from
which it writes. `Queued`: the queue lists each waiting save once. `Marks`: what is due, or was called, and was not pruned
has a record in memory, in the file, in the image being written and in every snapshot that is not stale; a claim whose save
is under way has it in memory, in the image when its turn has come and in the file when it is saved. `Once`, given `Marks`:
the ids that are due are distinct and were not called, and of the first one no action from the current one on was. Only
`Marks` can be lost, when a stale snapshot is put back; hence `overlapped` in the property. `Stretches` says what each
stretch of a tick leaves for the next. What the tick has still to look at, has claimed or has due was enabled when it listed
the definitions (`Listed`), and a definition has since kept its listed form or is of a later revision (`Follows`); since a
failed write can take an edit back after it was listed, the tick forgets (`seen`) what it listed of a definition that is
taken back. `Later` is what memory can still be while no save of the scheduler fails: itself and the snapshots that are not
stale. In each of them only the claims of this tick are open (`Tended`), and each minute that a definition it has looked at
was to run in has a record, or had one that was pruned (`Covered`).

**`AutomationServiceProofs`**, for any automations, keys, owners, wishes and bounds; assumed is that the requests' mutations
go through `commit`, that the empty key is no key and that at least one entry is kept. The two properties speak of answers
and of the file only; `IInv` says where what a request has done must be seen on its way there. A content `Holds` a request
when it has its key's entry, a revision after the one it edited, or no automation where it removed one, each unless the
history excuses it. What was answered holds in every content that may still become the memory or the file (`Copies`): the
memory, the file, the image being written and the snapshot a roll back may put back; only the owner that committed last has
one that is not stale (`OneLatest`). What is pending holds in those of them that do not precede it (`Carriers`), and these
are all that is left when its write ends. A repeat is answered from memory, hence `EntriesHold`: an entry in memory is of a
pending request or holds like an answer; and a roll back takes away the entry of the request that failed and no other
(`RollsBack`). `EditsDiffer`: no two edits, pending or answered, were made from one revision. Old data files have no entries
and are replaced by the first save (`Aged`), so that what a restart migrates was answered nothing yet. Every way to create,
edit or remove meets the same demands on the content and the question (`Demands`), so that each is looked at once
(`CreatesDemands`, `UpdatesDemands`, ...) and the rest of the proof has one kind of request.

**`VendorHomesProofs`** is about Matter and Hive. For `MatterHome` it takes any finite set of devices, any sessions, number
of connections, homes and scenarios; assumed is that `None` is no device and that no session has the name of a listing.
Two invariants carry the theorems. `News` is about what the hub knows: the last message of a connection about a device says
what the server has, and a connection that does not listen has no news (`Sound`); of the entries waiting in listings, one
that nothing overtook does so too, or a message or another such entry follows (`JobsSound`); a record shows what the server
has, or something on its way is about its device, or its events were lost or overtaken (`HomeSound`); and no device has two
records (`One`). `Sends` and `Cuts` say what a step may do to the connections, so that `Sound` is looked at once for all
messages and once for all losses; `OvertakesWaiting` says what a step does to the entries
that wait in listings. When all has been handled,
nothing is on its way, and `RecordsAgree` is left. `Pairing` is about sessions: a session waits for one request, whose kind
tells where it is, and has a listing stored only after that (`Paired`); it ends when its stage has been decided (`Calm`); and unless
something is exempted, one session at most is active, and of the devices that the server has, the hub knows, or messages and
listings name (`Around`), all but the session's own were there when it began (`Alone`). Hence what it takes for new is its own (`Own`).
`Around` grows only when a commissioning is served, which is what the exemption needs: a first form of it looked at the server's
devices alone, and the attempt to prove it showed a device that had left and came back in a listing that was late.

For `HiveHome`, whose specification is `HiveSpec` so that one module extends both, it takes any zones, areas, numbers of attempts and events. `Typed` is
the type invariant, with what the phases of a poll, a removal and a setup say of each other: a setup that discovers has a
poll to wait for. `Gone`: after an account was cleared with no poll in flight, there is no configuration, poll or setup
either, so that no step is left that could write a zone. `Following`: what a poll has still to write was not hidden when it
read the tombstones, unless a user hid it since; and what it has still to sweep is in the home, with the area and readiness it
was listed with, unless a user changed it since. A write by the poll therefore changes nothing of what it could know.

**`PlatformHomeProofs`**, for any lamps, areas, observed values, times between observations, calls of `syncNow`, bounds and
scenarios; assumed is that the boiler is not a lamp and that the bounds are of their kinds. `TypeOK` gives the kinds of the
data: what a handler of an incident may still have to do, and of what kind a row of a tracker is. `Handshaken` follows a
credential from the platform's proof through the vault to its acknowledgement: unless two synchronisations raced, one
handshake at a time is under way, and where it is tells what vault and platform have; the file knows the hub as paired only
when the memory does. `Counting`: a tracker, in memory and in the file, has each epoch in one row at most (`Kept`); a row of
the memory has the seconds that were counted under its epoch, unless some were lost before (`Held`); an upload that did not
race is alone, its rows are dirty until it ends, and the platform's once it has served them (`Uploading`). The proof made
exact what the property excuses: the upload that races may be served after a newer one, and after an observation in the
same instant as the last a restart finds in the file, as clean, a row that was dirty in memory. The run observes such instants too.

`Told` carries `ToldAgrees`. Of each incident it says what still waits to be told or saved, in a job or in the sweep
(`Waits`): the tale of an outage waits only while the outage is open and no end of it waits (`Sane`), and the last word on
the way to the platform, in the outbox or, if the outbox says nothing, what the platform was told, is what the hub takes for
true unless a step that will change it waits (`Fit`). `Carried` is about the upload: until it is served, the outbox still
speaks of whatever it speaks of; then the platform was told its last word, so that the acknowledgement takes nothing
the platform does not have, unless an envelope was dropped and queued anew meanwhile (`Requeued`). What keeps two handlers
of one incident apart is different for each of the three. Of the device, an outage is opened by the sweep alone, and a
notification can end one only in the first hour, when the sweep opens none (`Dates`, `DeviceWaits`). Of the integration, the
checks and the sweep open and the sweep alone ends, and what it ends has been recovering since an earlier hour, which no check touches
(`RadioWaits`). Of the battery, only notifications speak, and one that has something left to do is the first that still
reads, unless it was overtaken (`BatteryWaits`). A step of a handler is then one of six turns (`Turn`), each of which leaves
the incident sane and fit (`TurnFits`).

| Theorem | States |
|---|---|
| `TypeCorrect`, `DurableAlways`, `SavedStaysInMemoryAlways`, `StoreRolledBackAlways`, `QuiescentAgreementAlways`, `StoreNoSaveUndoneAlways` (`StoreProofs`) | the safety properties of the abstract store |
| `ImplementsAtomic` (`StoreProofs`) | the refinement of `store`, without its fairness |
| `RestartKeepsSavedAlways`, `RolledBackAlways`, `NoSaveUndoneAlways` (`StoreProofs`) | the safety properties of `store`, and that no rename takes out what an earlier one had saved |
| `ZigbeeTypeCorrect`, `OneRecordAlways`, `SetupKeptAlways` (`StoreProofs`) | the type invariant and the properties of `zigbee_home` |
| `TypeCorrect`, `DisabledSendsNothingAlways`, `CommandsMatchDemandAlways` (`ThermostatProofs`) | the type invariant and the safety properties of `heating` |
| `NestTypeCorrect`, `OwnRecordsAlways`, `SettingsMoveAlways` (`ThermostatProofs`) | the type invariant and the properties of `nest_home` |
| `ExecutedOnceAlways`, `NoReportLostAlways`, `OncePerMinuteAlways` (`DeviceChangesProofs`) | the safety properties of `device_changes` |
| `UsedOnceAlways`, `SecretsKeptAlways`, `RevokedStaysAlways`, `CodeEndsAlways` (`AccessProofs`) | the properties of `access` |
| `AtMostOnceAlways`, `TruthfulRecordsAlways`, `DisabledStaysQuietAlways`, `NoneLeftOpenAlways`, `NoMinuteSkippedAlways` (`NativeAutomationsProofs`) | the properties of `automations` |
| `CreatedOnceAlways`, `EditsKeptAlways` (`AutomationServiceProofs`) | what `automation_service` says of keys, edits and removals |
| `TypeCorrect`, `SettingsAlways`, `OwnDeviceAlways` (`VendorHomesProofs`) | the type invariant and the safety properties of `matter_home` |
| `HiveTypeCorrect`, `DisconnectedStaysEmptyAlways`, `PollKeepsEditsAlways` (`VendorHomesProofs`) | the type invariant and the safety properties of `hive_home` |
| `TypeAlways`, `CredentialAgreesAlways`, `UsageAccountedAlways`, `ToldAgreesAlways` (`PlatformHomeProofs`) | the kinds of the data and the safety properties of `platform_home` |

Only model-checked: the liveness properties (`EverySaveAnswered`, the fairness in `ImplementsAtomicStore`, `Arrival`,
`Recovers`, `AlarmsClear`, those of heating and Hive), which are beyond the prover together with ENABLED; and, of the
automation API and the calls of the home, `SendsOnlyOffered`, `RoutesKept` and `CallsOnTarget`, which speak of lists that are
folded and flattened, so that a proof would be by induction over data.

## 7. Where the code and its documents disagree

The run `heating_pending` checks a sentence of the code's comments and shows a behaviour that contradicts it. The others were
met while modelling; the properties exempt them by name.

- **A pending boiler command that stays** (`heating_pending`). `heatingDemandController.js:445` calls the marker of a pending
  command transient. It is cleared only by an evaluation that wants the mode the command asked for. When the demand turns
  before the boiler's report is seen, every later evaluation returns at the marker and the boiler stays as it is.
- **A second run of an occurrence.** `docs/operations.md:62` says that a second tick cannot run an occurrence twice. When
  another subsystem's save, begun before the claim, fails while the claim is pending, its rollback puts back a state without
  the claim; the claim's own write then succeeds, the occurrence runs, and the next tick finds no record of it
  (`store.js:611`). `AtMostOnce` exempts it as `overlapped`.
- **A degraded Hive account is not polled again.** `docs/operations.md:13` promises a bounded retry; only a successful poll
  sets the timer (`hiveBridge.js:279`). `WantedComes` ends with polling.
- **Stopping Zigbee pairing opens the network.** `README.md:20` says that pairing can be stopped safely. `permitJoin` computes
  `Number(time) || 254`, so that `permitJoin(0)`, by which stopping and the automatic end of a session mean to close the
  network, asks Zigbee2MQTT for 254 seconds (`mqttBridge.js:251`). The hub's own session does end.
- **A Matter session that never gets its device.** The comment at `integrations/matter/pairingSession.js:34` says that the
  hub waits for the node. `waiting_for_device` is a last stage: a node ingested later is not attached to its session.

## 8. What the models show of the code

Each of these is a behaviour of the model that follows the code step by step; where a property would be violated by it, a
history variable exempts it.

- *Store, automations.* A failing save of any part rolls back every part that changed since its snapshot, or brings back what
  others rolled back. A tick aborted by a failed write leaves its claims open until the next restart. An automation that a
  tick found enabled runs although it is disabled meanwhile, also when the edit that enabled it failed and was taken back.
- *Automation API.* Creating with the id of an existing automation replaces it, revision reset, with its former trigger and
  actions left in their maps (`service.js:106`); creating with the id of a removed one, as a late repeat of a creation without
  a key does, brings that id back at revision 1 (`validator.js:140`, `service.js:102`), so that edits made from the revisions of
  the former one are answered again. A control with a boolean parameter has no service to send (`controlCatalog.js:121-125`). A repeat under a key is answered from an entry that may still be rolled back
  (91-95); a pruned key creates again. An automation whose device or control is gone can neither be disabled nor edited, only
  removed (134). The executor checks the type of a value, not its range (`controlCatalog.js:192-213`). A removal answered as
  failed may already be in the file through another's write.
- *Calls.* The called domain is not compared with that of a target without bindings, so that `switch.turn_on` on such a
  lamp commands its device (`haModel.js:415-440`), and two such entities command one device twice. When all named targets are gone, a call falls back to every entity of the service's domain (`haModel.js:299`).
  Automations and Alexa follow only the main route of a surface (`server.js:688-696`). When a level precedes the switch of its
  group, `light.turn_on` is routed to `number.set_value` without a value. An entity named "power" counts as diagnostic.
- *Heating.* An evaluation in flight when control is disabled still sends its command, and no off command follows.
- *Hive.* A poll in flight puts back assignments made after it listed the devices, adds a zone hidden after it read the
  tombstones, and can bring devices back after a disconnect. A worker started after a crash is not signed in.
- *Zigbee.* A report under a name that the inventory has not brought yet adds a second record in a session. A record that a
  report has made has no address, so that an inventory finds it by that name alone: if the device has another name when one is
  next handled in a session, that adds a record too. Every upsert makes
  former names aliases again, so that a name given to a second device leads to the first; an older inventory that is still
  being handled writes old names back after a newer one.
- *Platform.* An acknowledgement clears the dirty mark of what grew during its upload (`electricUsage.js:260`); two
  synchronisations can run the handshake at once (`platformPairing.js:298`); an envelope can be masked by a pending one of the
  same revision, since reclassifying and every new outage begin again at the first revision; sweep writes incidents back as
  they were before its awaits; an integration that fails again while it is recovering is told resolved
  (`activityService.js:538`).
- *Nest.* A command's confirmation ingests a snapshot of one device, whose sweep marks every other thermostat unavailable until
  the next poll (`googleNestBridge.js:309`); a thermostat without a record that is listed first takes over the record of
  another of its model (`server.js:453`); a device removed or assigned during a poll comes back; a former name that returns
  makes two records, and aliases that lead in a circle, so that removing a record by its name misses it and a disconnect
  leaves it in the store (`store.js:777`); the sweep of a confirmation writes back, as it was listed, a record that a poll has
  moved to its new name meanwhile (`server.js:476`); a failed disconnect, connect or start leaves the timer stopped; devices may come back after a disconnect
  with a poll in flight (`googleNestBridge.js:353`).
- *Matter.* A listing overwrites newer events and, while a session allows new nodes, brings removed devices back
  (`matterBridge.js:142`); sessions at the same time all take the first new node, and the first to end closes the door for the
  others (`pairingSession.js:68`); a node that joins after its commissioning timed out is claimed by the next session; a
  failed listing on an open connection is not repeated; a lost `node_removed` leaves its record; the closing of an older
  socket marks the bridge disconnected; a router that is not ready yet counts as one without a network (`threadService.js:48`).
- *Changes.* The Alexa catalogue is rebuilt only by a directive or the start, so that a device that was offline at the start
  cannot be reached and a new one is unknown (`integration.js:99,108`); a failed save of a receipt rolls back others' receipts;
  a failed report overwrites newer ones and waits for the next change; a hub paired after its start has no status timer; ticks
  that overlap a minute's end can run a rule twice (`automation.js:150`); any change of any device runs the rules of the clock,
  whatever the time (`automation.js:27-57`, 74-78), and starts their cooldown, and a tick that finds a rule cooling notes its
  minute all the same, so that a rule may be passed over at its own time (150-153, 123); a failed save of an event ends the pass over the
  rules and the notification of the change (`automation.js:134`); the notifier drops a change within a second of a delivery.
- *Access.* After one failed write the vault's queue is rejected until a restart, while the memory answers with the unsaved
  value (`secretVault.js:72`); `clearAll` passes the queue (83-89); the rollback of another part takes back marks of nonces,
  grants and ended sessions; a failed registration revokes the code of a newer setup request (`server.js:2092`); saving the
  code drops the platform's ids; the saves of redeeming and revoking are not awaited; when the platform cannot be asked, a
  support lease is accepted (`server.js:305`).

## 9. Not modelled

- *Store*: the cryptographic and size checks around the file. Contents are what the other modules make of them.
- *Automations*: pruning by age (90 days), the extra save in `start`, `nextRunAt`, weekdays and time zones (one map of
  minutes stands for them), the list of failure codes; activity records appear as other owners' saves. In the API: names,
  owners, schedules, several homes; of a migrated rule its revision and whether it was enabled (1 and enabled here).
- *Heating*: one boiler; unavailable and unknown readings are one value; the failure counter stops at its bound;
  overlapping rollbacks of configuration saves are excluded (`Alone`), since `StateStore` has them; `verifyReadOnly`, the
  status text and the parsing of attributes.
- *Hive*: the circuit breaker, payload normalisation and command mapping; a save succeeds or changes nothing.
- *Registry and Zigbee*: the label catalogue, display names, infrastructure devices, what a session has found, `bridge/event`,
  availability messages (as reports, but for a flag), remote buttons and commands, serial ports and containers; saves succeed
  and a restart finds them. The request for a removal and the lookup of its device are one step, although activity and usage
  are saved between them. `clearDeviceSetup` has no caller.
- *Nest, Matter*: developer configuration, lifetime of access tokens, rate limits, traits and clusters; the saves of account and status between the exchange of a code and the discovery
  are one step; a refresh of a token in
  flight beside another; the steps inside the border router's start; expiry of sessions in the status.
- *Platform*: the bootstrap pairing of older hubs, operator credentials, token hashes, the one-way heartbeat; the wording, pages
  and pruning of the activity log.
- *Alexa, rules, notifier*: the mapping of surfaces to capabilities, linking, expiry of receipts and the limit of 100 of them
  (`store.js:1381`; `ExecutedOnce` speaks of the latest hundred), conditions of rules, more than one entity for a device.
- *Access*: signatures, scopes, expiry and clocks; `CredentialRegistry` and `StepUpProofRegistry`, which the server does not
  use; the identity broker; encryption of the vault; the backup, a sequence of file operations of a command-line tool.
- *Presentation and calls*: tables of classes, names, icons and units; entities that come under a new key, which the code puts
  to the end (`store.js:522-524`); the ends of a range one by one, each of which falls back on the surface's; calls of
  `automation` and `cloud`, and the script `global_blind_controller`; entities that share a name in Home Assistant's terms.
- And for good: the dashboard, the scripts, configuration, containers and tunnels, cryptography, protocol mapping tables and
  the Home Assistant projection, which keep no state that interleavings could damage.
