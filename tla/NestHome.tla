------------------------------------- MODULE NestHome -------------------------------------
(***************************************************************************)
(* Google Nest thermostats in the home (src/src/integrations/googleNest,    *)
(* ingestGoogleNestSnapshot of src/src/server.js).  Google may give a        *)
(* thermostat a new resource name, and list it under the former one for a    *)
(* while: a poll recognises the thermostat, and moves the device record with *)
(* the user's settings to its new name.  The records move while users set up *)
(* and remove devices, command them, and connect and disconnect the account. *)
(*                                                                          *)
(* Requests to Google are awaits: they answer, fail or time out.  A save of  *)
(* the state succeeds: StateStore is about those that do not.                *)
(***************************************************************************)
EXTENDS Naturals, FiniteSets, Functions, SequencesExt

CONSTANTS
  Thermostat,   \* the physical thermostats, all of one model
  MaxGrants,    \* bound: authorisations completed, each with a fingerprint of its own
  Scenarios     \* bounds: how often each kind of event happens

Kinds == {"renamed", "stale", "joins", "assigned", "removed", "restored", "commands", "faults",
          "authorised", "left", "manual", "restarts"}

ASSUME NestAssumption ==
  /\ IsFiniteSet(Thermostat) /\ "none" \notin Thermostat
  /\ MaxGrants \in Nat /\ Scenarios \subseteq [Kinds -> Nat]

VARIABLES
  home,      \* the registry's Nest devices, by resource name
  aliases,   \* the registry's aliases
  nest,      \* integrations.googleNest of the store
  account,   \* the grant in the vault, by its fingerprint; 0 for none
  google,    \* the thermostats of the account, the current name of each, and room hints
  poll,      \* pollInFlight
  ing,       \* ingestGoogleNestSnapshot, for a poll and for a command's confirmation
  timer,     \* PollingUpdateSource: the timer, and inFlight
  cmd,       \* the command at the head of its device's chain
  calls,     \* the authorisation, the disconnect, the removal and the start in progress
  budget,    \* the events that are left of the scenario
  hist       \* history
registry == <<home, aliases>>
nestVars == <<registry, nest, account, google, poll, ing, timer, cmd, calls, budget, hist>>

NoThermostat == "none"
NoName == <<NoThermostat, 0>>
Resource == Thermostat \X {0, 1}
Owner(r) == r[1]
Empty == [r \in {} |-> NoThermostat]
Put(f, r, x) == [k \in DOMAIN f \cup {r} |-> IF k = r THEN x ELSE f[k]]
Drop(f, S) == Restrict(f, DOMAIN f \ S)
Spend(kind) == budget[kind] > 0 /\ budget' = [budget EXCEPT ![kind] = @ - 1]

\* area is the user's setup, named after the thermostat it is for; shows is the
\* thermostat whose state the record holds.
NewDevice(t, grant) == [area |-> NoThermostat, available |-> TRUE, verified |-> FALSE, grant |-> grant, legacy |-> {}, shows |-> t]
NoPoll == [phase |-> "idle", try |-> 0, migrates |-> FALSE]
NoIngest == [on |-> FALSE, incoming |-> <<>>, todo |-> <<>>, used |-> {}, listed |-> Empty, sweeping |-> FALSE, allow |-> FALSE, grant |-> 0]
NoCommand == [phase |-> "idle", id |-> NoName, resource |-> NoName, wanted |-> NoThermostat, try |-> 0]
NoCalls == [session |-> FALSE, consent |-> "none", leaving |-> "idle", removing |-> NoName, restoring |-> FALSE, starting |-> FALSE]
Gone == [configured |-> FALSE, status |-> "disconnected", ignored |-> {}, grant |-> 0]
Jobs == {"poll", "confirm"}

\* The process starts with an account whose thermostats are set up, or with none.
NestInit ==
  /\ budget \in Scenarios
  /\ google \in [in : {Thermostat}, gen : {[t \in Thermostat |-> 0]}, hints : BOOLEAN]
  /\ \/ /\ nest = [configured |-> TRUE, status |-> "connected", ignored |-> {}, grant |-> 1]
        /\ account = 1
        /\ \E verified \in BOOLEAN : home = [r \in Thermostat \X {0} |->
             [NewDevice(Owner(r), 1) EXCEPT !.area = Owner(r), !.verified = verified]]
        /\ calls = [NoCalls EXCEPT !.starting = TRUE]
     \/ nest = Gone /\ account = 0 /\ home = Empty /\ calls = NoCalls
  /\ aliases = Empty
  /\ poll = NoPoll
  /\ ing = [j \in Jobs |-> NoIngest]
  /\ timer = [on |-> FALSE, busy |-> FALSE]
  /\ cmd = NoCommand
  /\ hist = [grants |-> account, strange |-> FALSE, back |-> FALSE, outlived |-> FALSE, cut |-> FALSE, sent |-> <<>>]

(***************************************************************************)
(* The registry.                                                            *)
(***************************************************************************)
\* getDevice follows one alias; the empty set where it finds nothing.
Found(r) == {IF r \in DOMAIN aliases THEN aliases[r] ELSE r} \cap DOMAIN home

\* upsertDevice: the former names of the record lead to it again.
Upsert(r, device) ==
  /\ home' = Put(home, r, device)
  /\ aliases' = [l \in device.legacy \cup DOMAIN aliases |-> IF l \in device.legacy THEN r ELSE aliases[l]]

\* Faulty variant: the record under the new name begins without the user's settings.
MigrateAnew(from, r, device) ==
  /\ home' = Put(Drop(home, {from}), r, [device EXCEPT !.area = NoThermostat])
  /\ aliases' = Put(aliases, from, r)

\* migrateDeviceIdentity: an alias of the record's own name is followed first.
Migrate(from, r, device) ==
  LET source == IF from \in DOMAIN aliases THEN aliases[from] ELSE from
  IN IF source = r \/ source \notin DOMAIN home
     THEN Upsert(r, device)
     ELSE /\ home' = Put(Drop(home, {source}), r,
                [device EXCEPT !.legacy = @ \cup home[source].legacy \cup {source}, !.verified = home[source].verified])
          /\ aliases' = Put(aliases, source, r)

\* removeDeviceFromState: an alias of the name is followed first; every alias that
\* names the device goes.
Removed(reg, r) ==
  LET gone  == {IF r \in DOMAIN reg.aliases THEN reg.aliases[r] ELSE r} \cap DOMAIN reg.home
      names == {r} \cup gone \cup UNION {reg.home[k].legacy : k \in gone}
  IN IF gone = {} THEN reg
     ELSE [home |-> Drop(reg.home, gone),
           aliases |-> Restrict(reg.aliases, {a \in DOMAIN reg.aliases : a \notin names /\ reg.aliases[a] \notin names})]
Now == [home |-> home, aliases |-> aliases]
Delete(r) == home' = Removed(Now, r).home /\ aliases' = Removed(Now, r).aliases

(***************************************************************************)
(* Which record is a listed thermostat's.                                   *)
(***************************************************************************)
\* matchingScore: the name, the fingerprint, the model (the same for all) and the room.
Differs(a, b) == a # 0 /\ b # 0 /\ a # b
Score(r, k, g) ==
  CASE r = k -> 100
    [] r # k /\ Differs(g.listed[k].grant, g.grant) -> 0
    [] OTHER -> IF google.hints /\ Owner(r) = Owner(k) THEN 7 ELSE 3

\* selectLegacyGoogleNestDevice: the best candidate, if it is alone; or the one
\* that is left for the only thermostat listed.
\* Faulty variant: of equal candidates one is taken.
LegacyGuessed(r, g) ==
  LET free == DOMAIN g.listed \ g.used
  IN {k \in free : Score(r, k, g) > 0 /\ \A o \in free : Score(r, o, g) <= Score(r, k, g)}

Legacy(r, g) ==
  LET free == DOMAIN g.listed \ g.used
      best == {k \in free : Score(r, k, g) > 0 /\ \A o \in free \ {k} : Score(r, o, g) < Score(r, k, g)}
  IN IF best # {} THEN best
     ELSE {k \in free : Len(g.incoming) = 1 /\ free = {k} /\ ~Differs(g.listed[k].grant, g.grant)}

(***************************************************************************)
(* ingestGoogleNestSnapshot: the records are listed with the first device;   *)
(* there is an await after each.                                             *)
(***************************************************************************)
Begun(seq, allow) ==
  [NoIngest EXCEPT !.on = TRUE, !.incoming = seq, !.todo = seq, !.allow = allow,
                   !.grant = IF account # 0 THEN account ELSE nest.grant]

Storing == \E j \in Jobs : ing[j].on
Looked(j) == IF ing[j].todo = ing[j].incoming THEN [ing[j] EXCEPT !.listed = home] ELSE ing[j]

\* The record of a name, as it is now or as it was when the snapshot came; or a new one.
Entries(r, g) ==
  LET now   == {<<k, home[k]>> : k \in Found(r)}
      older == {<<k, g.listed[k]>> : k \in Legacy(r, g)}
  IN IF now # {} THEN now ELSE IF older # {} THEN older ELSE {<<NoName, NewDevice(Owner(r), g.grant)>>}

\* A record under another name moves to this one, unless it is verified.
Stores(k, device, r, g) ==
  LET seen  == [device EXCEPT !.shows = Owner(r), !.available = TRUE]
      fresh == [seen EXCEPT !.grant = g.grant]
  IN \/ k \in {NoName, r} /\ Upsert(r, fresh)
     \/ k \notin {NoName, r} /\ device.verified /\ ~g.allow /\ Upsert(k, seen)
     \/ k \notin {NoName, r} /\ (g.allow \/ ~device.verified) /\ Migrate(k, r, fresh)

\* A thermostat without a record of its own is given another's, or a former name
\* comes back after the record has left it.
Strange(k, r, g) ==
  k # NoName /\ Owner(k) # Owner(r) /\ ~\E o \in DOMAIN g.listed : Owner(o) = Owner(r) /\ ~Differs(g.listed[o].grant, g.grant)
Back(k, device, r) == k # NoName /\ r \in device.legacy

IngestNext(j) ==
  LET g == Looked(j)
      r == Head(g.todo)
  IN /\ g.on /\ g.todo # <<>>
     /\ \E e \in Entries(r, g) :
          /\ Stores(e[1], e[2], r, g)
          /\ ing' = [ing EXCEPT ![j] = [g EXCEPT !.todo = Tail(@), !.used = @ \cup ({e[1]} \ {NoName})]]
          /\ hist' = [hist EXCEPT !.strange = @ \/ Strange(e[1], r, g), !.back = @ \/ Back(e[1], e[2], r)]
     /\ UNCHANGED <<nest, account, google, poll, timer, cmd, calls, budget>>

\* What the snapshot leaves out, listed once, with the first write in that turn.
Absent(j) == {k \in DOMAIN home : k \notin ToSet(ing[j].incoming) /\ k \notin ing[j].used /\ home[k].available}
Unswept(j) == IF ing[j].sweeping THEN ing[j].listed ELSE Restrict(home, Absent(j))
Written(j) == ing[j].on /\ ing[j].todo = <<>>

IngestSweeps(j, k) ==
  /\ Written(j) /\ k \in DOMAIN Unswept(j)
  /\ Upsert(k, [Unswept(j)[k] EXCEPT !.available = FALSE])
  /\ ing' = [ing EXCEPT ![j].sweeping = TRUE, ![j].listed = Drop(Unswept(j), {k})]
  /\ hist' = [hist EXCEPT !.back = @ \/ k \notin DOMAIN home \/ home[k] # Unswept(j)[k]]
  /\ UNCHANGED <<nest, account, google, poll, timer, cmd, calls, budget>>

Ingested(j) == Written(j) /\ Unswept(j) = Empty

(***************************************************************************)
(* The poll: refresh, and the timer of updateSource.                        *)
(***************************************************************************)
\* refresh begins a poll or joins the one in flight, whatever that was for.
AskForPoll(migrates) ==
  poll' = IF poll.phase = "idle" THEN [NoPoll EXCEPT !.phase = "asking", !.migrates = migrates] ELSE poll

\* The timer's callback.  While another waits, and without an account, where
\* refresh throws at once, all it does is to set the timer again.
TimerFires ==
  /\ timer.on /\ ~timer.busy /\ nest.configured
  /\ timer' = [on |-> FALSE, busy |-> TRUE]
  /\ AskForPoll(FALSE)
  /\ UNCHANGED <<registry, nest, account, google, ing, cmd, calls, budget, hist>>

RefreshRequested ==
  /\ nest.configured /\ poll.phase = "idle"
  /\ Spend("manual")
  /\ AskForPoll(FALSE)
  /\ UNCHANGED <<registry, nest, account, google, ing, timer, cmd, calls, hist>>

\* A listing names every thermostat by its current or, at times, its former name;
\* in any order.
Listings == {s \in {{<<t, n[t]>> : t \in google.in} : n \in [google.in -> {0, 1}]} :
               \A r \in s : r[2] <= google.gen[Owner(r)]}
Former(r) == r[2] < google.gen[Owner(r)]
IsStale(s) == \E r \in s : Former(r)

\* Known names are validated one by one. The first that is refused makes the poll
\* ask again, three times in all; then that name is left out.
Dead(s) == {r \in s : r \in DOMAIN home /\ Former(r)}
PollSigns ==
  /\ poll.phase = "asking" /\ account # 0
  /\ poll' = [poll EXCEPT !.phase = "listing"]
  /\ UNCHANGED <<registry, nest, account, google, ing, timer, cmd, calls, budget, hist>>

PollListed(s) ==
  /\ poll.phase = "listing"
  /\ s \in Listings
  /\ IF IsStale(s) THEN Spend("stale") ELSE UNCHANGED budget
  /\ IF Dead(s) # {} /\ poll.try < 2
     THEN poll' = [poll EXCEPT !.phase = "asking", !.try = @ + 1] /\ UNCHANGED ing
     ELSE \E refused \in IF Dead(s) = {} THEN {{}} ELSE {{r} : r \in Dead(s)} :
            /\ s \ refused # {} \/ s = {}
            /\ poll' = [poll EXCEPT !.phase = "storing"]
            /\ \E shown \in SetToSeqs((s \ refused) \ nest.ignored) :
                 ing' = [ing EXCEPT !["poll"] = Begun(shown, poll.migrates)]
  /\ UNCHANGED <<registry, nest, account, google, timer, cmd, calls, hist>>

\* Who waits for the poll: the timer's callback, a connect.
Awaited(outcome) ==
  calls' = IF calls.consent = "discovering" THEN [calls EXCEPT !.consent = outcome] ELSE calls

PollStored ==
  /\ poll.phase = "storing" /\ Ingested("poll")
  /\ nest' = [nest EXCEPT !.configured = TRUE, !.status = "connected", !.grant = ing["poll"].grant]
  /\ ing' = [ing EXCEPT !["poll"] = NoIngest]
  /\ poll' = NoPoll
  /\ timer' = [on |-> TRUE, busy |-> FALSE]
  /\ Awaited("none")
  /\ UNCHANGED <<registry, account, google, cmd, budget, hist>>

\* What a request comes to: an answer that refuses the token asks for a new
\* authorisation; any other that is no success, and silence, is a degraded service.
Failures == {"degraded", "reauth_required"}

\* handleFailure: reauth_required stops the timer, an answer with Retry-After
\* sets it; then the callback that waits sets one where there is none.
PollFails(status, retryAfter) ==
  /\ poll.phase \in {"asking", "listing"}
  /\ IF account = 0 \/ poll.try = 2 THEN UNCHANGED budget ELSE Spend("faults")
  /\ retryAfter \/ account = 0 => status = "degraded"
  /\ nest' = [nest EXCEPT !.status = status]
  /\ poll' = NoPoll
  /\ timer' = [on |-> timer.busy \/ retryAfter \/ (timer.on /\ status = "degraded"), busy |-> FALSE]
  /\ Awaited(status)
  /\ UNCHANGED <<registry, account, google, ing, cmd, hist>>

Start ==
  /\ calls.starting
  /\ calls' = [calls EXCEPT !.starting = FALSE]
  /\ IF nest.configured /\ account # 0
     THEN AskForPoll(FALSE) /\ UNCHANGED nest
     ELSE nest' = [nest EXCEPT !.status = IF account = 0 THEN "disconnected" ELSE "degraded"] /\ UNCHANGED poll
  /\ UNCHANGED <<registry, account, google, ing, timer, cmd, budget, hist>>

(***************************************************************************)
(* Commands, one at a time for each device.                                 *)
(***************************************************************************)
Command(id) ==
  /\ cmd.phase = "idle"
  /\ Spend("commands")
  /\ \E k \in Found(id) :
        /\ nest.configured /\ nest.status # "reauth_required" /\ home[k].available
        /\ cmd' = [phase |-> "sending", id |-> k, resource |-> k, try |-> 0,
                   wanted |-> IF home[k].area # NoThermostat THEN home[k].area ELSE home[k].shows]
  /\ UNCHANGED <<registry, nest, account, google, poll, ing, timer, calls, hist>>

\* executeCommand: a retired name is refused, and a fresh discovery is tried.
CommandSent ==
  /\ cmd.phase = "sending"
  /\ IF Former(cmd.resource)
     THEN cmd' = [cmd EXCEPT !.phase = "recovering"] /\ AskForPoll(TRUE) /\ UNCHANGED hist
     ELSE /\ cmd' = [cmd EXCEPT !.phase = "confirming"] /\ UNCHANGED poll
          /\ hist' = [hist EXCEPT !.sent = <<cmd.wanted, cmd.resource>>]
  /\ UNCHANGED <<registry, nest, account, google, ing, timer, calls, budget>>

\* recoverCommandResource: the name its record has now.
Recovered == {k \in Found(cmd.id) : k # cmd.resource /\ ~Former(k)}

CommandRecovers ==
  /\ cmd.phase = "recovering" /\ poll.phase = "idle"
  /\ \/ \E k \in Recovered : cmd' = [cmd EXCEPT !.phase = "sending", !.resource = k] /\ UNCHANGED poll
     \/ /\ Recovered = {} /\ cmd.try < 2 /\ nest.configured
        /\ cmd' = [cmd EXCEPT !.try = @ + 1] /\ AskForPoll(TRUE)
     \/ /\ Recovered = {} /\ (cmd.try = 2 \/ ~nest.configured)
        /\ cmd' = NoCommand /\ UNCHANGED poll
  /\ UNCHANGED <<registry, nest, account, google, ing, timer, calls, budget, hist>>

\* The state is read back and ingested as a snapshot of one device, which makes
\* the other thermostats unavailable until the next poll.
CommandRead ==
  /\ cmd.phase = "confirming"
  /\ cmd' = [cmd EXCEPT !.phase = "storing"]
  /\ ing' = IF cmd.resource \in nest.ignored THEN ing
            ELSE [ing EXCEPT !["confirm"] = Begun(<<cmd.resource>>, TRUE)]
  /\ UNCHANGED <<registry, nest, account, google, poll, timer, calls, budget, hist>>

CommandConfirmed ==
  /\ cmd.phase = "storing" /\ (Ingested("confirm") \/ ~ing["confirm"].on)
  /\ ing' = [ing EXCEPT !["confirm"] = NoIngest]
  /\ IF Found(cmd.id) = {} THEN UNCHANGED registry
     ELSE \E k \in Found(cmd.id) : Upsert(k, [home[k] EXCEPT !.verified = TRUE])
  /\ cmd' = NoCommand
  /\ UNCHANGED <<nest, account, google, poll, timer, calls, budget, hist>>

\* A request fails; only the confirmation's reauth_required changes the status.
RequestFails ==
  /\ cmd.phase \in {"sending", "confirming"}
  /\ Spend("faults")
  /\ \/ UNCHANGED <<nest, timer>>
     \/ /\ cmd.phase = "confirming"
        /\ nest' = [nest EXCEPT !.status = "reauth_required"]
        /\ timer' = [timer EXCEPT !.on = FALSE]
  /\ cmd' = NoCommand
  /\ UNCHANGED <<registry, account, google, poll, ing, calls, hist>>

(***************************************************************************)
(* Users: the account.                                                      *)
(***************************************************************************)
AuthorisationBegins ==
  /\ ~(nest.configured /\ nest.status = "connected") /\ ~calls.session
  /\ Spend("authorised")
  /\ calls' = [calls EXCEPT !.session = TRUE]
  /\ nest' = [nest EXCEPT !.status = "authorization_pending"]
  /\ UNCHANGED <<registry, account, google, poll, ing, timer, cmd, hist>>

Refused == IF nest.configured THEN "reauth_required" ELSE "disconnected"

\* The session expires, is cancelled, or comes back with an error, which is a
\* failure and may stop the timer.
SessionEnds ==
  /\ calls.session
  /\ calls' = [calls EXCEPT !.session = FALSE]
  /\ \/ UNCHANGED <<nest, timer>>
     \/ nest' = [nest EXCEPT !.status = Refused] /\ UNCHANGED timer
     \/ /\ nest' = [nest EXCEPT !.status = Refused]
        /\ timer' = [timer EXCEPT !.on = @ /\ ~nest.configured]
  /\ UNCHANGED <<registry, account, google, poll, ing, cmd, budget, hist>>

\* saveAccount: an authorisation has a fingerprint of its own, which a refreshed
\* token keeps.
NewGrant == hist.grants + 1

\* completeAuthorization uses the session up before its first await.
ConsentGiven ==
  /\ calls.session /\ calls.consent = "none"
  /\ calls' = [calls EXCEPT !.session = FALSE, !.consent = "exchanging"]
  /\ nest' = [nest EXCEPT !.status = "exchanging_code"]
  /\ UNCHANGED <<registry, account, google, poll, ing, timer, cmd, budget, hist>>

\* The code is exchanged, the account saved and the status, taken for one step: the saves
\* of the account and the status are awaited one after the other in the code.
Exchanged ==
  /\ calls.consent = "exchanging" /\ hist.grants < MaxGrants
  /\ account' = NewGrant
  /\ nest' = [nest EXCEPT !.configured = TRUE, !.status = "discovering"]
  /\ calls' = [calls EXCEPT !.consent = "discovering"]
  /\ AskForPoll(TRUE)
  /\ hist' = [hist EXCEPT !.grants = @ + 1]
  /\ UNCHANGED <<registry, google, ing, timer, cmd, budget>>

\* The exchange fails, by a refusal or otherwise, or the discovery did: a second
\* handleFailure.
ConnectFails ==
  /\ calls.consent \in {"exchanging", "degraded", "reauth_required"}
  /\ IF calls.consent = "exchanging" THEN Spend("faults") ELSE UNCHANGED budget
  /\ \E reauth \in BOOLEAN :
       /\ calls.consent = "exchanging" \/ reauth = (calls.consent = "reauth_required")
       /\ nest' = [nest EXCEPT !.status = IF reauth THEN "reauth_required" ELSE "disconnected"]
       /\ timer' = [timer EXCEPT !.on = @ /\ ~reauth]
  /\ calls' = [calls EXCEPT !.consent = "none"]
  /\ UNCHANGED <<registry, account, google, poll, ing, cmd, hist>>

\* disconnect stops the timer before it knows whether Google agrees.
LeaveStarts ==
  /\ calls.leaving = "idle"
  /\ Spend("left")
  /\ calls' = [calls EXCEPT !.leaving = "asked", !.session = FALSE]
  /\ timer' = [timer EXCEPT !.on = FALSE]
  /\ UNCHANGED <<registry, nest, account, google, poll, ing, cmd, hist>>

LeaveFails ==
  /\ calls.leaving = "asked"
  /\ Spend("faults")
  /\ calls' = [calls EXCEPT !.leaving = "idle"]
  /\ UNCHANGED <<registry, nest, account, google, poll, ing, timer, cmd, hist>>

LeaveForgets ==
  /\ calls.leaving = "asked"
  /\ calls' = [calls EXCEPT !.leaving = "clearing"]
  /\ account' = 0
  /\ UNCHANGED <<registry, nest, google, poll, ing, timer, cmd, budget, hist>>

\* clearGoogleNest: the records are listed, and removed one after the other.
HomeCleared ==
  /\ nest' = Gone
  /\ \E order \in SetToSeqs(DOMAIN home) :
       LET reg[n \in 0..Len(order)] == IF n = 0 THEN Now ELSE Removed(reg[n - 1], order[n])
       IN home' = reg[Len(order)].home /\ aliases' = reg[Len(order)].aliases

LeaveClears ==
  /\ calls.leaving = "clearing"
  /\ HomeCleared
  /\ calls' = [calls EXCEPT !.leaving = "idle"]
  /\ hist' = [hist EXCEPT !.cut = @ \/ Storing,
       !.outlived = poll.phase # "idle" \/ cmd.phase # "idle" \/ calls.consent # "none"]
  /\ UNCHANGED <<account, google, poll, ing, timer, cmd, budget>>

(***************************************************************************)
(* Users: the devices.                                                      *)
(***************************************************************************)
\* completeDeviceSetup
Assign(k) ==
  /\ k \in DOMAIN home /\ home[k].area # home[k].shows
  /\ Spend("assigned")
  /\ Upsert(k, [home[k] EXCEPT !.area = home[k].shows])
  /\ hist' = [hist EXCEPT !.cut = @ \/ Storing]
  /\ UNCHANGED <<nest, account, google, poll, ing, timer, cmd, calls>>

RemoveHides(k) ==
  /\ k \in DOMAIN home /\ calls.removing = NoName
  /\ Spend("removed")
  /\ nest' = [nest EXCEPT !.ignored = @ \cup {k}]
  /\ calls' = [calls EXCEPT !.removing = k]
  /\ UNCHANGED <<registry, account, google, poll, ing, timer, cmd, hist>>

RemoveDeletes ==
  /\ calls.removing # NoName
  /\ Delete(calls.removing)
  /\ calls' = [calls EXCEPT !.removing = NoName]
  /\ hist' = [hist EXCEPT !.cut = @ \/ Storing]
  /\ UNCHANGED <<nest, account, google, poll, ing, timer, cmd, budget>>

Restore(r) ==
  /\ r \in nest.ignored /\ ~calls.restoring
  /\ Spend("restored")
  /\ nest' = [nest EXCEPT !.ignored = @ \ {r}]
  /\ calls' = [calls EXCEPT !.restoring = TRUE]
  /\ UNCHANGED <<registry, account, google, poll, ing, timer, cmd, hist>>

RestoreRefreshes ==
  /\ calls.restoring
  /\ calls' = [calls EXCEPT !.restoring = FALSE]
  /\ IF nest.configured THEN AskForPoll(FALSE) ELSE UNCHANGED poll
  /\ UNCHANGED <<registry, nest, account, google, ing, timer, cmd, budget, hist>>

(***************************************************************************)
(* Google, and restarts.                                                    *)
(***************************************************************************)
Renamed(t) ==
  /\ google.gen[t] = 0
  /\ Spend("renamed")
  /\ google' = [google EXCEPT !.gen[t] = 1]
  /\ UNCHANGED <<registry, nest, account, poll, ing, timer, cmd, calls, hist>>

JoinsOrLeaves(t) ==
  /\ Spend("joins")
  /\ google' = [google EXCEPT !.in = IF t \in @ THEN @ \ {t} ELSE @ \cup {t}]
  /\ UNCHANGED <<registry, nest, account, poll, ing, timer, cmd, calls, hist>>

HubRestarts ==
  /\ Spend("restarts")
  /\ poll' = NoPoll /\ ing' = [j \in Jobs |-> NoIngest] /\ cmd' = NoCommand
  /\ timer' = [on |-> FALSE, busy |-> FALSE]
  /\ calls' = [NoCalls EXCEPT !.starting = TRUE]
  /\ UNCHANGED <<registry, nest, account, google, hist>>

PollStep ==
  \/ PollSigns \/ PollStored
  \/ \E s \in Listings : PollListed(s)
  \/ \E status \in Failures, retryAfter \in BOOLEAN : PollFails(status, retryAfter)
IngestStep(j) == IngestNext(j) \/ \E k \in Resource : IngestSweeps(j, k)
NestNext ==
  \/ PollStep \/ TimerFires \/ RefreshRequested \/ Start
  \/ \E j \in Jobs : IngestStep(j)
  \/ CommandSent \/ CommandRecovers \/ CommandRead \/ CommandConfirmed \/ RequestFails
  \/ AuthorisationBegins \/ SessionEnds \/ ConsentGiven \/ Exchanged \/ ConnectFails
  \/ LeaveStarts \/ LeaveFails \/ LeaveForgets \/ LeaveClears
  \/ RemoveDeletes \/ RestoreRefreshes \/ HubRestarts
  \/ \E r \in Resource : Command(r) \/ Assign(r) \/ RemoveHides(r) \/ Restore(r)
  \/ \E t \in Thermostat : Renamed(t) \/ JoinsOrLeaves(t)

NestSpec == NestInit /\ [][NestNext]_nestVars

(***************************************************************************)
(* What must hold.                                                          *)
(***************************************************************************)
\* Names that lead astray: a thermostat without a record of its own was given
\* another's; a former name, or a record as it was before, came back; a user
\* changed a record while a snapshot was being stored.
Astray == hist.strange \/ hist.back \/ hist.cut

\* However the names change, a record never carries the setup or the state of
\* another thermostat than its own, and a command reaches the thermostat that the
\* user's device stood for, though its name is retired meanwhile; only a thermostat
\* that had no record may be given another's.  A record is found under its own name,
\* and a home that left the account has none, unless names lead astray or a poll,
\* a command or an authorisation was in flight.
\* About ingestGoogleNestSnapshot, deviceReconciliation, recoverCommandResource and
\* disconnect.
OwnRecords ==
  /\ ~hist.strange =>
       /\ \A k \in DOMAIN home : home[k].area \in {NoThermostat, Owner(k)} /\ home[k].shows = Owner(k)
       /\ hist.sent # <<>> => Owner(hist.sent[2]) = hist.sent[1]
  /\ ~Astray =>
       /\ \A k \in DOMAIN home : Found(k) = {k}
       /\ ~nest.configured /\ ~hist.outlived => home = Empty

Carrying(t) == Cardinality({k \in DOMAIN home : home[k].area = t})
\* A setup moves with its record: unless a user acts, or names lead astray, it is
\* neither lost, copied nor brought back: not when a record migrates, is found
\* unavailable or confirmed, whichever snapshots are being stored.
\* About migrateDeviceIdentity and ingestGoogleNestSnapshot.
SettingsMove ==
  [][\/ Astray' \/ budget' # budget \/ calls' # calls
     \/ \A t \in Thermostat : Carrying(t)' = Carrying(t)]_home
=============================================================================
