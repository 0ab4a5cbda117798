----------------------------------- MODULE Incidents -----------------------------------
(***************************************************************************)
(* The outages a hub reports: ActivityService's observations of a device,   *)
(* its battery and the integration it belongs to, the sweep that escalates  *)
(* and resolves, and the outbox (src/src/activity/activityService.js, the   *)
(* incident methods of src/src/store.js).                                   *)
(*                                                                          *)
(* A handler saves an incident and tells of it (or tells and saves) with an *)
(* await between the two, and what it saves then is what it read before.    *)
(* A job is what a handler still has to do; its first element runs with the *)
(* reads it rests on.  The notifications of a device's changes are jobs     *)
(* too, for nothing orders them: they pass automations and counters first.  *)
(*                                                                          *)
(* One device, its battery, and the integration it belongs to.  An hour is  *)
(* the alert threshold; nothing a handler does takes that long.             *)
(***************************************************************************)
EXTENDS Naturals, Sequences, SequencesExt

CONSTANTS
  MaxOutbox,    \* the envelopes the outbox keeps (100)
  MaxJobs,      \* bound: handlers under way
  MaxHours      \* bound: hours

ASSUME IncidentsAssumption == MaxOutbox \in Nat \ {0} /\ MaxJobs \in Nat /\ MaxHours \in Nat

Ids == {"device_offline", "integration_offline", "battery_critical"}
Levels == {"critical", "low", "middle", "fine"}    \* at most 10, 20, 25, more

VARIABLES
  home,      \* the device is available, its battery, the integration is healthy
  active,    \* store: activity.activeIncidents
  outbox,    \* store: incidentOutbox.pending
  jobs,      \* what handlers still have to do
  sweep,     \* the sweep: the copies it walks, and what is to do for the first
  recent,    \* what was recorded within the last two seconds, perhaps
  hour,
  slips      \* history: ids told wrong, saved stale, or handled out of order

incidents == <<home, active, outbox, jobs, sweep, recent, hour, slips>>

Absent == [state |-> "none", revision |-> 0, first |-> 0, recovered |-> 0]
Asleep == [todo |-> {}, doing |-> <<>>, now |-> 0]

Save(i, value, read) == [do |-> "save", id |-> i, value |-> value, read |-> read]
Tell(i, state, revision) == [do |-> "tell", id |-> i, state |-> state, revision |-> revision]
Look(up) == [do |-> "look", up |-> up]
Measure(level) == [do |-> "measure", level |-> level]

(***************************************************************************)
(* The handlers, as what they do next.                                      *)
(***************************************************************************)
Premature(a, now) == a.state = "open" /\ now <= a.first

Reclassify(i, a) ==
  (IF a.revision > 0 THEN <<Tell(i, "resolved", a.revision + 1)>> ELSE <<>>)
    \o <<Save(i, [a EXCEPT !.state = "watching", !.revision = 0, !.recovered = 0], a)>>

Watching(i) == <<Save(i, [Absent EXCEPT !.state = "watching", !.first = hour], Absent)>>

Escalate(i, a) == <<Save(i, [a EXCEPT !.state = "open", !.revision = @ + 1], a), Tell(i, "open", a.revision + 1)>>
Recover(i, a) == <<Save(i, [a EXCEPT !.state = "recovering", !.recovered = hour], a)>>
Forget(i, a) == <<Save(i, Absent, a)>>

ObserveUnavailable ==
  LET i == "device_offline"
      a == active[i]
  IN IF a.state = "none" THEN Watching(i)
     ELSE IF Premature(a, hour) THEN Reclassify(i, a)
     ELSE <<Save(i, [a EXCEPT !.state = IF @ = "recovering" THEN "open" ELSE @, !.recovered = 0], a)>>

ObserveAvailable ==
  LET i == "device_offline"
      a == active[i]
  IN CASE a.state = "open" -> Recover(i, a)
       [] a.state = "watching" -> Forget(i, a)
       [] OTHER -> <<>>

ObserveBattery(level) ==
  LET i == "battery_critical"
      a == active[i]
  IN CASE level = "critical" /\ a.state # "critical" ->
            <<Save(i, [a EXCEPT !.state = "critical", !.revision = @ + 1], a), Tell(i, "open", a.revision + 1)>>
       [] level = "low" /\ a.state = "none" -> <<Save(i, [Absent EXCEPT !.state = "warning"], a)>>
       [] level = "fine" /\ a.state = "critical" -> <<Tell(i, "resolved", a.revision + 1)>> \o Forget(i, a)
       [] level = "fine" /\ a.state = "warning" -> Forget(i, a)
       [] OTHER -> <<>>

\* An integration that fails again while it is recovering stays recovering.
ObserveIntegration(healthy) ==
  LET i == "integration_offline"
      a == active[i]
  IN CASE healthy /\ a.state = "open" -> Recover(i, a)
       [] healthy /\ a.state = "watching" -> Forget(i, a)
       [] ~healthy /\ a.state = "none" -> Watching(i)
       [] ~healthy /\ Premature(a, hour) -> Reclassify(i, a)
       [] ~healthy /\ a.state = "watching" /\ hour > a.first -> Escalate(i, a)
       [] OTHER -> <<>>

ParentOffline == active["integration_offline"].state \in {"watching", "open", "recovering"}

\* Faulty variant: a recovery is not told.
SweepForgets(i, a, now) ==
  CASE Premature(a, now) -> Reclassify(i, a)
    [] a.state = "recovering" /\ now > a.recovered -> Forget(i, a)
    [] a.state = "watching" /\ now > a.first -> Escalate(i, a)
    [] OTHER -> <<>>

\* What the sweep does about its copy a of an incident.
Sweep(i, a, now) ==
  CASE Premature(a, now) -> Reclassify(i, a)
    [] a.state = "recovering" /\ now > a.recovered -> <<Tell(i, "resolved", a.revision + 1)>> \o Forget(i, a)
    [] a.state = "watching" /\ now > a.first /\ (i = "integration_offline" \/ ~ParentOffline) -> Escalate(i, a)
    [] OTHER -> <<>>

(***************************************************************************)
(* Steps of jobs.                                                           *)
(***************************************************************************)
Opened(job) ==
  LET looked(j) == IF j # <<>> /\ Head(j).do = "look"
                   THEN (IF Head(j).up THEN ObserveAvailable ELSE ObserveUnavailable) ELSE j
  IN IF job # <<>> /\ Head(job).do = "measure" THEN looked(ObserveBattery(Head(job).level) \o Tail(job))
     ELSE looked(job)

LastWord(box, i, otherwise) ==
  LET last == {k \in DOMAIN box : box[k].id = i /\ \A j \in DOMAIN box : j > k => box[j].id # i}
  IN IF last = {} THEN otherwise ELSE box[CHOOSE k \in last : TRUE].state

\* Faulty variant: one envelope at a time of an incident.
QueuedById(e) ==
  IF \E k \in DOMAIN outbox : outbox[k].id = e.id THEN outbox
  ELSE LET box == Append(outbox, [id |-> e.id, state |-> e.state, revision |-> e.revision])
       IN IF Len(box) > MaxOutbox THEN Tail(box) ELSE box

\* queueIncidentEnvelopeInState: an envelope whose id is pending is not queued
\* again; the outbox keeps the newest.
Masked(e) == \E k \in DOMAIN outbox : outbox[k].id = e.id /\ outbox[k].revision = e.revision

Queued(e) ==
  IF Masked(e) THEN outbox
  ELSE LET box == Append(outbox, [id |-> e.id, state |-> e.state, revision |-> e.revision])
       IN IF Len(box) > MaxOutbox THEN Tail(box) ELSE box

\* saveActiveIncident.  A value that rests on an older read is a stale save.
Saves(e, also) ==
  /\ e.do = "save"
  /\ active' = [active EXCEPT ![e.id] = e.value]
  /\ slips' = [slips EXCEPT !.overtaken = @ \cup also, !.stale = @ \cup {i \in {e.id} : active[i] # e.read}]
  /\ UNCHANGED <<outbox, recent>>

\* record: one that was recorded within two seconds is not recorded again, nor
\* is its envelope queued.
Tells(e, also) ==
  /\ e.do = "tell"
  /\ recent' = recent \cup {<<e.id, e.state>>}
  /\ \E again \in {FALSE, (<<e.id, e.state>> \in recent)} :
       LET lost == {i \in Ids : Len(outbox) = MaxOutbox /\ outbox' # outbox /\ Head(outbox).id = i}
           unheard == {i \in {e.id} : (again \/ Masked(e)) /\ LastWord(outbox, i, "none") # e.state}
       IN /\ outbox' = IF again THEN outbox ELSE Queued(e)
          /\ slips' = [slips EXCEPT !.overtaken = @ \cup also,
                                    !.untold = (@ \ {e.id}) \cup lost \cup unheard]
  /\ UNCHANGED active

Performs(job, also) ==
  IF job # <<>> THEN Saves(Head(job), also) \/ Tells(Head(job), also)
  ELSE /\ slips' = [slips EXCEPT !.overtaken = @ \cup also]
       /\ UNCHANGED <<active, outbox, recent>>

Rest(job) == IF job = <<>> THEN <<>> ELSE Tail(job)
With(job) == IF job = <<>> THEN <<>> ELSE <<job>>
Reads(job) == \E e \in Range(job) : e.do \in {"look", "measure"}

\* A job goes on.  The notification of a later change may overtake that of an
\* earlier one, whose device it takes for the newest.
JobStep(k) ==
  LET job == Opened(jobs[k])
      overtaken == Reads(jobs[k]) /\ \E j \in 1..k-1 : Reads(jobs[j])
  IN /\ jobs' = SubSeq(jobs, 1, k - 1) \o With(Rest(job)) \o SubSeq(jobs, k + 1, Len(jobs))
     /\ Performs(job, IF overtaken THEN {"device_offline", "battery_critical"} ELSE {})
     /\ UNCHANGED <<home, sweep, hour>>

\* The device goes or comes, or reports its battery; notifyDeviceChanged follows.
DeviceChanges(up, level) ==
  /\ Len(jobs) < MaxJobs
  /\ <<up, level>> # <<home.up, home.battery>>
  /\ home' = [home EXCEPT !.up = up, !.battery = level]
  /\ jobs' = Append(jobs, (IF level # home.battery THEN <<Measure(level)>> ELSE <<>>) \o <<Look(up)>>)
  /\ UNCHANGED <<active, outbox, sweep, recent, hour, slips>>

IntegrationChanges ==
  /\ home' = [home EXCEPT !.healthy = ~@]
  /\ UNCHANGED <<active, outbox, jobs, sweep, recent, hour, slips>>

\* integrationStatus, every thirty seconds and for every status page.
IntegrationChecked ==
  LET job == ObserveIntegration(home.healthy)
  IN /\ job # <<>> /\ Len(jobs) < MaxJobs
     /\ jobs' = jobs \o With(Rest(job))
     /\ Performs(job, {})
     /\ UNCHANGED <<home, sweep, hour>>

\* The sweep walks copies it took when it began.
SweepBegins ==
  LET todo == {<<i, active[i]>> : i \in {x \in Ids : active[x].state # "none"}}
  IN /\ sweep = Asleep
     /\ \E t \in todo : Sweep(t[1], t[2], hour) # <<>>
     /\ sweep' = [Asleep EXCEPT !.todo = todo, !.now = hour]
     /\ UNCHANGED <<home, active, outbox, jobs, recent, hour, slips>>

SweepRests(todo, doing) == IF todo = {} /\ doing = <<>> THEN Asleep ELSE [sweep EXCEPT !.todo = todo, !.doing = doing]

SweepStep ==
  /\ \/ /\ sweep.doing # <<>>
        /\ sweep' = SweepRests(sweep.todo, Tail(sweep.doing))
        /\ Performs(sweep.doing, {})
     \/ /\ sweep.doing = <<>>
        /\ \E t \in sweep.todo :
             LET job == Sweep(t[1], t[2], sweep.now)
             IN /\ sweep' = SweepRests(sweep.todo \ {t}, Rest(job))
                /\ Performs(job, {})
  /\ UNCHANGED <<home, jobs, hour>>

\* An hour is longer than anything a handler does and than the time between
\* two checks.
HourPasses ==
  /\ hour < MaxHours /\ hour' = hour + 1
  /\ jobs = <<>> /\ sweep = Asleep /\ ObserveIntegration(home.healthy) = <<>>
  /\ recent' = {}
  /\ UNCHANGED <<home, active, outbox, jobs, sweep, slips>>

\* The ids of which a restart loses a step, an envelope or a save.
Touched(stored) ==
  (UNION {{e.id : e \in {x \in Range(jobs[k]) : x.do \in {"save", "tell"}}} : k \in DOMAIN jobs})
  \cup {e.id : e \in Range(sweep.doing)}
  \cup {i \in Ids : stored.active[i] # active[i] \/ stored.outbox # outbox}

\* What a restart finds.
IncidentsLost(stored) ==
  /\ active' = stored.active /\ outbox' = stored.outbox
  /\ jobs' = <<>> /\ sweep' = Asleep /\ recent' = {}
  /\ slips' = [slips EXCEPT !.untold = @ \cup Touched(stored), !.stale = @ \cup Touched(stored) \cup (IF jobs = <<>> THEN {} ELSE Ids)]
  /\ UNCHANGED <<home, hour>>

\* A hub that was updated may bring an outage opened under a shorter threshold.
IncidentsInit(old) ==
  /\ home = [up |-> ~old, battery |-> "fine", healthy |-> TRUE]
  /\ active = [i \in Ids |-> IF old /\ i = "device_offline"
                             THEN [Absent EXCEPT !.state = "open", !.revision = 1] ELSE Absent]
  /\ outbox = IF old THEN <<[id |-> "device_offline", state |-> "open", revision |-> 1]>> ELSE <<>>
  /\ jobs = <<>> /\ sweep = Asleep /\ recent = {} /\ hour = 0
  /\ slips = [stale |-> {}, untold |-> {}, overtaken |-> {}]
=============================================================================
