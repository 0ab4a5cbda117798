--------------------------------- MODULE DeviceRegistry ---------------------------------
(***************************************************************************)
(* The device registry of the store (src/src/store.js): devices, the       *)
(* aliases under which older names reach them, and areas.  Each save method *)
(* changes the registry in one turn of the event loop; here it is an        *)
(* operator from the registry before to the registry after.  What a failed  *)
(* write rolls back is the subject of StateStore.                           *)
(*                                                                          *)
(* A registry is a record: devices, a function from keys to device records; *)
(* aliases, a function from keys to keys; areas, a set; entry, whether the   *)
(* configuration entry of the protocol is there.                            *)
(***************************************************************************)
EXTENDS FiniteSets, Functions

CONSTANTS
  Phys,    \* the physical devices
  Name,    \* the friendly names that users may give them
  Area     \* the areas

Stable(d) == <<"zigbee", d>>     \* stableDeviceId: the record's proper key
Address(d) == <<"ieee", d>>      \* the IEEE address, and the first friendly name
Friendly(n) == <<"name", n>>
Names == {Address(d) : d \in Phys} \cup {Friendly(n) : n \in Name}
Keys == Names \cup {Stable(d) : d \in Phys}
None == <<"none">>

\* from is a history variable: the physical devices whose reports it holds.
Record == [legacy : SUBSET Keys, friendly : Names \cup {None}, ieee : Keys,
           area : Area \cup {None}, ready : BOOLEAN, pending : BOOLEAN, from : SUBSET Phys]
\* What an upsert brings; None and {} stand for what it leaves out.
Nothing == [legacy |-> {}, friendly |-> None, ieee |-> None, pending |-> {}, from |-> {}]

Resolve(r, key) == IF key \in DOMAIN r.aliases THEN r.aliases[key] ELSE key

\* getDevice: one step of aliases, then any device of that friendly name or
\* address; the empty set where there is none.
Lookup(r, key) ==
  IF Resolve(r, key) \in DOMAIN r.devices THEN {Resolve(r, key)}
  ELSE {k \in DOMAIN r.devices : key \in {r.devices[k].friendly, r.devices[k].ieee}}

\* f, and g where f says nothing.
Over(f, g) == [x \in DOMAIN f \cup DOMAIN g |-> IF x \in DOMAIN f THEN f[x] ELSE g[x]]
Put(f, key, x) == Over([k \in {key} |-> x], f)

Or(x, y) == IF x # None THEN x ELSE y

\* What a device record becomes with a patch (area and setup are kept).
Patched(record, patch) ==
  [record EXCEPT !.legacy = @ \cup patch.legacy, !.friendly = Or(patch.friendly, @),
                 !.ieee = Or(patch.ieee, @), !.from = @ \cup patch.from,
                 !.pending = TRUE \in patch.pending \/ (@ /\ FALSE \notin patch.pending)]
Blank(key) ==
  [legacy |-> {}, friendly |-> None, ieee |-> key, area |-> None, ready |-> FALSE,
   pending |-> FALSE, from |-> {}]
Existing(r, key) == IF key \in DOMAIN r.devices THEN r.devices[key] ELSE Blank(key)

\* upsertDevice: every name the device ever had becomes an alias again.
Upsert(r, key, patch) ==
  LET next == Patched(Existing(r, key), patch)
  IN [r EXCEPT !.devices = Put(@, key, next),
               !.aliases = Over([l \in next.legacy |-> key], @)]

MigrateAnew(r, from, key, patch) ==
  LET source == Resolve(r, from)
      fresh  == Upsert(r, key, [patch EXCEPT !.legacy = @ \cup {source}])
  IN IF source = key THEN fresh
     ELSE [fresh EXCEPT !.devices = Restrict(@, DOMAIN @ \ {source})]

\* migrateDeviceIdentity: the record moves to its proper key; its old key
\* becomes an alias, its older names do not follow until the next upsert.
Migrate(r, from, key, patch) ==
  LET source == Resolve(r, from)
      moved  == Patched(r.devices[source], [patch EXCEPT !.legacy = @ \cup {source}])
      target == IF key \in DOMAIN r.devices
                THEN [r.devices[key] EXCEPT !.legacy = @ \cup moved.legacy, !.from = @ \cup moved.from,
                        !.friendly = moved.friendly, !.ieee = moved.ieee, !.pending = moved.pending]
                ELSE moved
  IN IF source = key \/ source \notin DOMAIN r.devices
     THEN Upsert(r, key, patch)
     ELSE [r EXCEPT !.devices = Put(Restrict(@, DOMAIN @ \ {source}), key, target),
                    !.aliases = Put(@, source, key)]

\* removeDeviceFromState: every alias that is a name of the device, or leads
\* to one, goes with it.
Removed(r, key) ==
  LET gone  == Resolve(r, key)
      names == {key, gone, r.devices[gone].friendly, r.devices[gone].ieee} \cup r.devices[gone].legacy
      kept  == {a \in DOMAIN r.aliases : a \notin names /\ r.aliases[a] \notin names}
  IN IF gone \notin DOMAIN r.devices THEN r
     ELSE [r EXCEPT !.devices = Restrict(@, DOMAIN @ \ {gone}), !.aliases = Restrict(@, kept)]

\* completeDeviceSetup, after its checks.
SetUp(r, key, area) ==
  LET k == Resolve(r, key)
  IN Upsert([r EXCEPT !.devices[k].area = area, !.devices[k].ready = TRUE], k, Nothing)

\* updateDevice with an area or with none: the setup stays as it is.
Moved(r, key, area) ==
  LET k == Resolve(r, key)
  IN Upsert([r EXCEPT !.devices[k].area = area], k, Nothing)

\* removeArea: its devices lose it and need setup again.
WithoutArea(r, area) ==
  LET cleared(record) == IF record.area = area THEN [record EXCEPT !.area = None] ELSE record
      unready(record) == IF record.area = None THEN [record EXCEPT !.ready = FALSE] ELSE record
  IN [r EXCEPT !.areas = @ \ {area},
               !.devices = [k \in DOMAIN @ |-> unready(cleared(@[k]))]]

\* load, normalizeState: current and older names become aliases again; of two
\* records with one name, the later in the file wins.
Loaded(r) ==
  LET owners(a) == {k \in DOMAIN r.devices : a \in r.devices[k].legacy}
      known     == {a \in Keys : owners(a) # {}}
  IN {[r EXCEPT !.aliases = Over(f, @)] :
        f \in {g \in [known -> DOMAIN r.devices] : \A a \in known : g[a] \in owners(a)}}
=============================================================================
