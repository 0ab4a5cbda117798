----------------------------------- MODULE HiveHome -----------------------------------
(***************************************************************************)
(* Hive heating zones in the home (src/src/integrations/hive/hiveBridge.js *)
(* and ingestHiveSnapshot of src/src/server.js): a poll of the cloud writes *)
(* its answer into the device registry zone by zone, with an await after    *)
(* each, while the users remove, restore and assign zones, remove areas and *)
(* disconnect the account, and the process restarts.                        *)
(*                                                                          *)
(* A save either succeeds or throws and changes nothing: what a rollback    *)
(* does to overlapping saves is the subject of StateStore.                  *)
(***************************************************************************)
EXTENDS Naturals, Functions

CONSTANTS
  Zone,       \* the heating zones the account may have
  Area,       \* the provisioned areas
  MaxAttempts, \* MAX_ATTEMPTS, the failed logins before the cooldown
  MaxEvents   \* bound: user calls, cloud changes, failures and restarts together

ASSUME HiveAssumption == MaxEvents \in Nat /\ MaxAttempts \in Nat \ {0}

NoArea == "none"
ASSUME NoneAssumption == NoArea \notin Area

VARIABLES
  zones,     \* the registry's Hive devices: a function on the zones that are there
  areas,     \* the registry's areas
  hive,      \* integrations.hive of the store, and whether the ce_hive entry is there
  account,   \* the vault holds the account's credentials
  worker,    \* the worker process: none, bare, or signed in to the account
  cloud,     \* the zones the account has now
  timer,     \* pollTimer is set
  poll,      \* pollInFlight
  removal,   \* DELETE of a device, in progress
  leaving,   \* DELETE of the account, in progress
  setup,     \* the credential session, auth.current, and what connect is at with it
  calls,     \* the other calls in progress: restore and start
  unseen,    \* history: zones hidden since the tombstones were last read, zones changed
             \* since the devices were last listed, the account left, a poll that outlived it
  events     \* the bounded events so far
store == <<zones, areas, hive>>
polling == <<account, worker, timer, poll>>
users == <<removal, leaving, setup, calls>>
hiveVars == <<store, polling, users, cloud, unseen, events>>

Empty == [z \in {} |-> NoArea]
PutZone(f, z, r) == [x \in DOMAIN f \cup {z} |-> IF x = z THEN r ELSE f[x]]
Drop(f, S) == Restrict(f, DOMAIN f \ S)

NewZone == [available |-> TRUE, area |-> NoArea, ready |-> FALSE]
Disconnected == [configured |-> FALSE, status |-> "disconnected", ignored |-> {}, entry |-> FALSE]
NoPoll == [phase |-> "idle", incoming |-> {}, todo |-> {}, listed |-> Empty]
NoRemoval == [phase |-> "idle", zone |-> NoArea]
NoSetup == [phase |-> "none", failed |-> 0, cooling |-> FALSE]
NoCalls == [restore |-> FALSE, start |-> FALSE]
NoHistory == [late |-> {}, edited |-> {}, left |-> FALSE, outlived |-> FALSE]

\* The process starts without an account, or with one whose zones are there.
HiveInit ==
  /\ \/ hive = Disconnected /\ account = FALSE /\ zones = Empty /\ calls = NoCalls
     \/ /\ hive = [configured |-> TRUE, status |-> "connected", ignored |-> {}, entry |-> TRUE]
        /\ account = TRUE
        /\ zones = [z \in Zone |-> NewZone]
        /\ calls = [NoCalls EXCEPT !.start = TRUE]
  /\ areas = Area
  /\ worker = "none"
  /\ cloud \in SUBSET Zone
  /\ timer = FALSE
  /\ poll = NoPoll
  /\ removal = NoRemoval
  /\ leaving = "idle"
  /\ setup = NoSetup
  /\ unseen = NoHistory
  /\ events = 0

Bounded == events < MaxEvents /\ events' = events + 1

(***************************************************************************)
(* The poll.                                                                *)
(***************************************************************************)
\* refresh: begins a poll or joins the one in flight; ensureWorker starts a
\* worker when there is none, and does not sign it in.
BeginOrJoin ==
  IF poll.phase = "idle"
  THEN /\ poll' = [NoPoll EXCEPT !.phase = "asking"]
       /\ worker' = IF worker = "none" THEN "bare" ELSE worker
  ELSE UNCHANGED <<poll, worker>>

PollTimerFires ==
  /\ timer
  /\ timer' = FALSE
  /\ IF hive.configured THEN BeginOrJoin ELSE UNCHANGED <<poll, worker>>
  /\ UNCHANGED <<store, account, users, cloud, unseen, events>>

Refresh ==
  /\ hive.configured /\ poll.phase = "idle"
  /\ BeginOrJoin
  /\ UNCHANGED <<store, account, timer, users, cloud, unseen, events>>

\* The worker's answer; the tokens it brings are saved before anything else.
PollAnswered ==
  /\ poll.phase = "asking" /\ worker = "signed"
  /\ poll' = [poll EXCEPT !.phase = "tokens", !.incoming = cloud]
  /\ UNCHANGED <<store, account, worker, timer, users, cloud, unseen, events>>

\* Faulty: only known devices are brought up to date.
KnownOnly(seen) == (seen \ hive.ignored) \cap DOMAIN zones
Filtered(seen) == seen \ hive.ignored

\* The tombstones are read and the config entry is saved.
PollReads ==
  /\ poll.phase = "tokens"
  /\ LET seen == Filtered(poll.incoming)
     IN  poll' = [poll EXCEPT !.phase = "ingest", !.incoming = seen, !.todo = seen]
  /\ hive' = [hive EXCEPT !.entry = TRUE]
  /\ unseen' = [unseen EXCEPT !.late = {}]
  /\ UNCHANGED <<zones, areas, account, worker, timer, users, cloud, events>>

\* Faulty: the zone is stored as the cloud tells it.
IngestedAnew(z) == NewZone
\* The zone keeps what the user gave it.
IngestedZone(z) == IF z \in DOMAIN zones THEN [zones[z] EXCEPT !.available = TRUE] ELSE NewZone

Ingest(z) ==
  /\ poll.phase = "ingest" /\ z \in poll.todo
  /\ zones' = PutZone(zones, z, IngestedZone(z))
  /\ poll' = [poll EXCEPT !.todo = @ \ {z}]
  /\ UNCHANGED <<areas, hive, account, worker, timer, users, cloud, unseen, events>>

Swept == {z \in DOMAIN zones \ poll.incoming : zones[z].available}
Unavailable(r) == [r EXCEPT !.available = FALSE]

\* The devices are listed once; the first one is written in the same turn.
SweepStarts(z) ==
  /\ poll.phase = "ingest" /\ poll.todo = {} /\ z \in Swept
  /\ zones' = PutZone(zones, z, Unavailable(zones[z]))
  /\ poll' = [poll EXCEPT !.phase = "sweep", !.listed = Restrict(zones, Swept \ {z})]
  /\ unseen' = [unseen EXCEPT !.edited = {}]
  /\ UNCHANGED <<areas, hive, account, worker, timer, users, cloud, events>>

\* The others are written after it, as they were when they were listed.
Sweep(z) ==
  /\ poll.phase = "sweep" /\ z \in DOMAIN poll.listed
  /\ zones' = PutZone(zones, z, Unavailable(poll.listed[z]))
  /\ poll' = [poll EXCEPT !.listed = Drop(@, {z})]
  /\ UNCHANGED <<areas, hive, account, worker, timer, users, cloud, unseen, events>>

\* Everything is written: the status is saved; an error of that save is swallowed.
Publish(saves) ==
  /\ \/ poll.phase = "ingest" /\ poll.todo = {} /\ Swept = {}
     \/ poll.phase = "sweep" /\ poll.listed = Empty
  /\ poll' = [NoPoll EXCEPT !.phase = "status"]
  /\ IF saves THEN hive' = [hive EXCEPT !.configured = TRUE, !.status = "connected"] /\ UNCHANGED events
              ELSE UNCHANGED hive /\ Bounded
  /\ UNCHANGED <<zones, areas, account, worker, timer, users, cloud, unseen>>

\* A connect that waits for the poll ends with it and clears its session.
Discovered(failed) ==
  IF setup.phase = "discover" THEN [setup EXCEPT !.phase = "none", !.failed = failed] ELSE setup

PollEnds ==
  /\ poll.phase = "status"
  /\ poll' = NoPoll
  /\ timer' = TRUE
  /\ setup' = Discovered(0)
  /\ UNCHANGED <<store, account, worker, removal, leaving, calls, cloud, unseen, events>>

\* handleFailure: the status is saved; the error of that save is swallowed.
Failing(status) == hive' = [hive EXCEPT !.status = status]

\* The request fails or times out, a write into the registry throws, or the
\* worker has not signed in; refresh goes on in handleFailure.
PollFails ==
  /\ poll.phase \in {"asking", "tokens", "ingest", "sweep"}
  /\ IF poll.phase = "asking" /\ worker # "signed" THEN UNCHANGED events ELSE Bounded
  /\ \E status \in {"degraded", "reauth_required"} :
       /\ Failing(status)
       /\ poll' = [NoPoll EXCEPT !.phase = status]
  /\ UNCHANGED <<zones, areas, account, worker, timer, users, cloud, unseen>>

\* No poll is scheduled after a failure; reauth_required clears the timer.
FailureSaved ==
  /\ poll.phase \in {"degraded", "reauth_required"}
  /\ timer' = (timer /\ poll.phase = "degraded")
  /\ poll' = NoPoll
  /\ setup' = Discovered(setup.failed)
  /\ UNCHANGED <<store, account, worker, removal, leaving, calls, cloud, unseen, events>>

(***************************************************************************)
(* Commands. Nothing read before their awaits is used after them.           *)
(***************************************************************************)
Commandable(z) == z \in DOMAIN zones /\ zones[z].available /\ hive.configured /\ hive.status = "connected"

CommandDone(z) ==
  /\ Commandable(z) /\ worker = "signed" /\ poll.phase = "idle"
  /\ BeginOrJoin
  /\ UNCHANGED <<store, account, timer, users, cloud, unseen, events>>

CommandFails(z) ==
  /\ Commandable(z)
  /\ Bounded
  /\ \E status \in {"degraded", "reauth_required"} :
       Failing(status) /\ timer' = (timer /\ status = "degraded")
  /\ worker' = IF worker = "none" THEN "bare" ELSE worker
  /\ UNCHANGED <<zones, areas, account, poll, users, cloud, unseen>>

Edited(S) == [unseen EXCEPT !.edited = @ \cup S]

RemoveAsked(z) ==
  /\ removal.phase = "idle" /\ z \in DOMAIN zones
  /\ Bounded
  /\ removal' = [phase |-> "asked", zone |-> z]
  /\ UNCHANGED <<store, polling, leaving, setup, calls, cloud, unseen>>

\* The device is looked up again and its tombstone is saved; an error of that
\* save is swallowed.
RemoveHides(saves) ==
  /\ removal.phase = "asked"
  /\ IF removal.zone \in DOMAIN zones
     THEN /\ removal' = [removal EXCEPT !.phase = "hidden"]
          /\ IF saves
             THEN /\ hive' = [hive EXCEPT !.ignored = @ \cup {removal.zone}]
                  /\ unseen' = [unseen EXCEPT !.late = @ \cup {removal.zone}]
             ELSE UNCHANGED <<hive, unseen>>
     ELSE /\ removal' = NoRemoval
          /\ UNCHANGED <<hive, unseen>>
  /\ IF saves THEN UNCHANGED events ELSE Bounded
  /\ UNCHANGED <<zones, areas, polling, leaving, setup, calls, cloud>>

RemoveDeletes(saves) ==
  /\ removal.phase = "hidden"
  /\ zones' = IF saves THEN Drop(zones, {removal.zone}) ELSE zones
  /\ IF saves THEN UNCHANGED events ELSE Bounded
  /\ unseen' = Edited({removal.zone})
  /\ removal' = NoRemoval
  /\ UNCHANGED <<areas, hive, polling, leaving, setup, calls, cloud>>

Restore(z) ==
  /\ ~calls.restore /\ z \in hive.ignored
  /\ Bounded
  /\ hive' = [hive EXCEPT !.ignored = @ \ {z}]
  /\ calls' = [calls EXCEPT !.restore = TRUE]
  /\ UNCHANGED <<zones, areas, polling, removal, leaving, setup, cloud, unseen>>

RestoreRefreshes ==
  /\ calls.restore
  /\ calls' = [calls EXCEPT !.restore = FALSE]
  /\ IF hive.configured THEN BeginOrJoin ELSE UNCHANGED <<poll, worker>>
  /\ UNCHANGED <<store, account, timer, removal, leaving, setup, cloud, unseen, events>>

\* completeDeviceSetup
AssignZone(z, a) ==
  /\ z \in DOMAIN zones /\ a \in areas
  /\ Bounded
  /\ zones' = [zones EXCEPT ![z].area = a, ![z].ready = TRUE]
  /\ unseen' = Edited({z})
  /\ UNCHANGED <<areas, hive, polling, users, cloud>>

WithoutArea(r, a) == IF r.area = a THEN [r EXCEPT !.area = NoArea, !.ready = FALSE] ELSE r

RemoveArea(a) ==
  /\ a \in areas
  /\ Bounded
  /\ areas' = areas \ {a}
  /\ zones' = [z \in DOMAIN zones |-> WithoutArea(zones[z], a)]
  /\ unseen' = Edited({z \in DOMAIN zones : zones[z].area = a})
  /\ UNCHANGED <<hive, polling, users, cloud>>

(***************************************************************************)
(* The account.                                                             *)
(***************************************************************************)
\* A login makes the worker forget the session it had. connect refuses while
\* there is a session, whether it has expired or not.
ConnectStarts ==
  /\ setup.phase = "none" /\ ~setup.cooling
  /\ Bounded
  /\ setup' = [setup EXCEPT !.phase = "login"]
  /\ hive' = [hive EXCEPT !.status = "authenticating"]
  /\ worker' = "bare"
  /\ unseen' = [unseen EXCEPT !.left = FALSE]
  /\ UNCHANGED <<zones, areas, account, timer, poll, removal, leaving, calls, cloud>>

\* Hive asks for the code it sent; the user submits it.
CodeAsked ==
  /\ setup.phase = "login"
  /\ setup' = [setup EXCEPT !.phase = "mfa"]
  /\ hive' = [hive EXCEPT !.status = "mfa_required"]
  /\ UNCHANGED <<zones, areas, polling, removal, leaving, calls, cloud, unseen, events>>

CodeSubmitted ==
  /\ setup.phase = "mfa"
  /\ setup' = [setup EXCEPT !.phase = "code"]
  /\ UNCHANGED <<store, polling, removal, leaving, calls, cloud, unseen, events>>

\* cancelSetup, or a code submitted after the session's ten minutes: only these
\* calls, which name the session, look at its age.
SetupDropped ==
  /\ setup.phase \in {"mfa", "code"}
  /\ setup' = [setup EXCEPT !.phase = "none"]
  /\ UNCHANGED <<store, polling, removal, leaving, calls, cloud, unseen, events>>

\* finishAuthenticated: the session is started, the credentials are kept, and
\* the refresh that discovers the zones begins or is joined.
ConnectFinishes ==
  /\ setup.phase \in {"login", "code"}
  /\ setup' = [setup EXCEPT !.phase = "discover"]
  /\ account' = TRUE
  /\ hive' = [hive EXCEPT !.configured = TRUE, !.status = "discovering"]
  /\ poll' = IF poll.phase = "idle" THEN [NoPoll EXCEPT !.phase = "asking"] ELSE poll
  /\ worker' = "signed"
  /\ UNCHANGED <<zones, areas, timer, removal, leaving, calls, cloud, unseen, events>>

\* recordFailure
Failure(phase) ==
  IF setup.failed + 1 >= MaxAttempts
  THEN [phase |-> "none", failed |-> MaxAttempts, cooling |-> TRUE]
  ELSE [phase |-> phase, failed |-> setup.failed + 1, cooling |-> setup.cooling]

\* The login or the code is refused. The session of a refused login is kept.
ConnectFails ==
  /\ \/ setup.phase = "login" /\ setup' = Failure("open") /\ Failing("disconnected")
     \/ setup.phase = "code" /\ setup' = Failure("mfa") /\ Failing("mfa_required")
  /\ UNCHANGED <<zones, areas, polling, removal, leaving, calls, cloud, unseen, events>>

\* authenticate throws after the login was answered: connect returns its promise
\* without awaiting it, so nothing is recorded and the session is kept.
AuthenticateFails ==
  /\ setup.phase \in {"login", "code"}
  /\ setup' = [setup EXCEPT !.phase = "open"]
  /\ UNCHANGED <<store, polling, removal, leaving, calls, cloud, unseen, events>>

CooldownEnds ==
  /\ setup.cooling
  /\ setup' = [setup EXCEPT !.cooling = FALSE]
  /\ UNCHANGED <<store, polling, removal, leaving, calls, cloud, unseen, events>>

\* disconnect: a setup in progress is given up and the timer is cleared at once.
LeaveStarts ==
  /\ leaving = "idle"
  /\ Bounded
  /\ leaving' = "asking"
  /\ timer' = FALSE
  /\ setup' = [setup EXCEPT !.phase = "none"]
  /\ UNCHANGED <<store, account, worker, poll, removal, calls, cloud, unseen>>

\* Unconfirmed, the account stays, unless the local removal was allowed.
LeaveUnconfirmed ==
  /\ leaving = "asking"
  /\ Bounded
  /\ leaving' = "idle"
  /\ UNCHANGED <<store, polling, removal, setup, calls, cloud, unseen>>

\* The worker is stopped and the credentials are cleared.
LeaveStops ==
  /\ leaving = "asking"
  /\ leaving' = "clearing"
  /\ worker' = "none"
  /\ account' = FALSE
  /\ UNCHANGED <<store, timer, poll, removal, setup, calls, cloud, unseen, events>>

\* Faulty: the devices stay.
Kept == zones
Cleared == Empty

\* clearHive; the poll in flight is not waited for.
LeaveClears(saves) ==
  /\ leaving = "clearing"
  /\ leaving' = "idle"
  /\ IF saves
     THEN /\ zones' = Cleared
          /\ hive' = Disconnected
          /\ unseen' = [unseen EXCEPT !.edited = Zone, !.late = Zone, !.left = (setup.phase = "none"),
                                  !.outlived = (poll.phase # "idle")]
          /\ UNCHANGED events
     ELSE Bounded /\ UNCHANGED <<zones, hive, unseen>>
  /\ UNCHANGED <<areas, polling, removal, setup, calls, cloud>>

(***************************************************************************)
(* The cloud, the worker and restarts.                                      *)
(***************************************************************************)
CloudChanges(z) ==
  /\ Bounded
  /\ cloud' = IF z \in cloud THEN cloud \ {z} ELSE cloud \cup {z}
  /\ UNCHANGED <<store, polling, users, unseen>>

WorkerExits ==
  /\ worker # "none"
  /\ Bounded
  /\ worker' = "none"
  /\ UNCHANGED <<store, account, timer, poll, users, cloud, unseen>>

\* start signs in and polls when there is an account.
Restart ==
  /\ Bounded
  /\ worker' = "none" /\ timer' = FALSE /\ poll' = NoPoll
  /\ removal' = NoRemoval /\ leaving' = "idle" /\ setup' = NoSetup
  /\ calls' = [NoCalls EXCEPT !.start = hive.configured /\ account]
  /\ UNCHANGED <<store, account, cloud, unseen>>

StartAnswered ==
  /\ calls.start
  /\ calls' = [calls EXCEPT !.start = FALSE]
  /\ worker' = "signed"
  /\ IF hive.configured /\ poll.phase = "idle"
     THEN poll' = [NoPoll EXCEPT !.phase = "asking"]
     ELSE UNCHANGED poll
  /\ UNCHANGED <<store, account, timer, removal, leaving, setup, cloud, unseen, events>>

BridgeStartFails ==
  /\ calls.start
  /\ Bounded
  /\ calls' = [calls EXCEPT !.start = FALSE]
  /\ \E status \in {"degraded", "reauth_required"} : Failing(status)
  /\ worker' = "bare"
  /\ UNCHANGED <<zones, areas, account, timer, poll, removal, leaving, setup, cloud, unseen>>

PollStep ==
  \/ PollAnswered \/ PollReads \/ Publish(TRUE) \/ PollEnds \/ FailureSaved
  \/ \E z \in Zone : Ingest(z) \/ SweepStarts(z) \/ Sweep(z)
UserStep ==
  \/ RemoveHides(TRUE) \/ RemoveDeletes(TRUE) \/ RestoreRefreshes
  \/ LeaveStops \/ LeaveClears(TRUE) \/ CodeSubmitted \/ ConnectFinishes
Trouble ==
  \/ Publish(FALSE) \/ RemoveHides(FALSE) \/ RemoveDeletes(FALSE) \/ LeaveClears(FALSE)
  \/ LeaveUnconfirmed \/ ConnectFails \/ AuthenticateFails \/ BridgeStartFails \/ WorkerExits \/ Restart
  \/ \E z \in Zone : CommandFails(z)

HiveNext ==
  \/ PollTimerFires \/ Refresh \/ PollStep \/ PollFails \/ UserStep \/ Trouble
  \/ ConnectStarts \/ CodeAsked \/ SetupDropped \/ CooldownEnds \/ LeaveStarts \/ StartAnswered
  \/ \E z \in Zone : CommandDone(z) \/ RemoveAsked(z) \/ Restore(z) \/ CloudChanges(z)
  \/ \E z \in Zone, a \in Area : AssignZone(z, a)
  \/ \E a \in Area : RemoveArea(a)

HiveSpec == HiveInit /\ [][HiveNext]_hiveVars

\* Timers fire, saves and requests end: in an answer, or in an error when the
\* worker is not signed in.
HiveFairness ==
  /\ WF_hiveVars(PollTimerFires) /\ WF_hiveVars(PollStep) /\ WF_hiveVars(UserStep)
  /\ WF_hiveVars(StartAnswered) /\ WF_hiveVars(CooldownEnds)
  /\ WF_hiveVars(worker # "signed" /\ PollFails)
HiveFairSpec == HiveSpec /\ HiveFairness

(***************************************************************************)
(* Properties.                                                              *)
(***************************************************************************)
ZoneDevices == [available : BOOLEAN, area : Area \cup {NoArea}, ready : BOOLEAN]
ZoneRegistries == UNION {[S -> ZoneDevices] : S \in SUBSET Zone}
Statuses == {"disconnected", "authenticating", "mfa_required", "discovering", "connected",
             "degraded", "reauth_required"}

\* The types of the variables.
HiveTypeOK ==
  /\ zones \in ZoneRegistries
  /\ areas \subseteq Area
  /\ hive \in [configured : BOOLEAN, status : Statuses, ignored : SUBSET Zone, entry : BOOLEAN]
  /\ account \in BOOLEAN /\ timer \in BOOLEAN
  /\ worker \in {"none", "bare", "signed"}
  /\ cloud \subseteq Zone
  /\ poll \in [phase : {"idle", "asking", "tokens", "ingest", "sweep", "status", "degraded", "reauth_required"},
               incoming : SUBSET Zone, todo : SUBSET Zone, listed : ZoneRegistries]
  /\ poll.phase = "ingest" => poll.todo \subseteq poll.incoming
  /\ removal \in [phase : {"idle", "asked", "hidden"}, zone : Zone \cup {NoArea}]
  /\ leaving \in {"idle", "asking", "clearing"}
  /\ setup \in [phase : {"none", "login", "mfa", "code", "discover", "open"}, failed : 0..MaxAttempts, cooling : BOOLEAN]
  /\ setup.phase = "discover" => poll.phase # "idle"
  /\ calls \in [restore : BOOLEAN, start : BOOLEAN]
  /\ unseen \in [late : SUBSET Zone, edited : SUBSET Zone, left : BOOLEAN, outlived : BOOLEAN]
  /\ events \in 0..MaxEvents

\* What users changed since the poll in flight listed the devices for its sweep.
Outdated == IF poll.phase = "sweep" THEN unseen.edited ELSE {}

(* A poll leaves what users did: it changes no assignment of a device that is *)
(* there before and after, unless a user changed it after this poll listed    *)
(* the devices for its sweep, and adds no zone that was hidden before it read *)
(* the tombstones, unless the zone was removed after that listing             *)
(* (refresh in hiveBridge.js, ingestHiveSnapshot in server.js).               *)
PollKeepsEdits ==
  [][poll # poll' =>
       /\ \A z \in (DOMAIN zones \cap DOMAIN zones') \ Outdated :
            zones'[z].area = zones[z].area /\ zones'[z].ready = zones[z].ready
       /\ \A z \in DOMAIN zones' \ DOMAIN zones : z \in hive.ignored => z \in unseen.late \cup Outdated]_hiveVars

(* After disconnect has cleared the account no device of it comes back until *)
(* a connect begins, unless a poll was in flight when it was cleared.        *)
DisconnectedStaysEmpty ==
  unseen.left /\ ~unseen.outlived => zones = Empty /\ ~hive.configured

(* A zone the account has and nobody hid comes into the home as long as      *)
(* polling goes on, even when the refresh of its restore joined a poll that  *)
(* had already read the tombstones.                                          *)
Wanted(z) == hive.configured /\ z \in cloud \ hive.ignored
Polls == timer \/ poll.phase \notin {"idle", "degraded", "reauth_required"}
WantedComes ==
  \A z \in Zone : (Wanted(z) /\ Polls) ~> (z \in DOMAIN zones \/ ~Wanted(z) \/ ~Polls)

=============================================================================
