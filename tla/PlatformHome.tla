----------------------------------- MODULE PlatformHome -----------------------------------
(***************************************************************************)
(* The hub and the platform: pairing, the periodic synchronisation and what *)
(* it carries, the usage counters and the incidents' outbox                 *)
(* (src/src/platformPairing.js, the wiring in src/src/server.js).           *)
(*                                                                          *)
(* syncNow marks itself running only after the handshake of a pairing, so   *)
(* two may run until the pairing is complete.  A request may be lost before *)
(* or after the platform has served it.  The whole state is one file: a     *)
(* save of any part saves all.  The platform is external: it keeps what it  *)
(* receives, proves a new credential for each challenge and answers with    *)
(* its versions and its reset.                                              *)
(*                                                                          *)
(* Every behaviour begins with one of the Scenarios, which bound how often  *)
(* each thing may happen; they share every action.                          *)
(***************************************************************************)
EXTENDS Incidents, UsageCounters

CONSTANTS
  MaxSyncs,    \* bound: calls of syncNow at a time
  Lamps, Boiler, Areas,
  Seen,        \* the values observed
  Elapsed,     \* the times between observations
  MaxEpochs,   \* bound: epochs drawn
  Scenarios    \* bounds: how often each kind of event happens

Kinds == {"device", "battery", "integration", "observed", "heated", "resets", "versions", "attempts", "crashes", "faults", "updated"}

ASSUME PlatformAssumption ==
  /\ Boiler \notin Lamps /\ NoArea \notin Areas /\ Elapsed \subseteq Nat /\ Seen \subseteq Values
  /\ MaxSyncs \in Nat /\ MaxEpochs \in Nat /\ Scenarios \subseteq [Kinds -> Nat]

Syncs == 1..MaxSyncs

VARIABLES
  link,       \* store: platform (paired, the attempt, agentSeenVersion)
  vault,      \* the machine credential in the vault, 0 for none
  syncing,    \* PlatformPairing: syncing
  backoff,    \* nextRetryAt lies ahead
  syncs,      \* the calls of syncNow
  electric, heat,   \* store: electricUsage, heatingUsage
  disk,       \* the state file
  cloud,      \* the platform
  budget,     \* the events that are left of the scenario
  past        \* history

pairingVars == <<link, vault, syncing, backoff, syncs>>
usage == <<electric, heat>>
vars == <<incidents, pairingVars, usage, disk, cloud, budget, past>>

Quiet == [pc |-> "idle", attempt |-> 0, credential |-> 0, seen |-> 0, latest |-> 0, reset |-> 0,
          rows |-> {}, heated |-> {}, ack |-> 0, heatAck |-> 0, sent |-> <<>>]
Stored == [link |-> link, electric |-> electric, heat |-> heat, active |-> active, outbox |-> outbox]

Spend(kind) == budget[kind] > 0 /\ budget' = [budget EXCEPT ![kind] = @ - 1]

(***************************************************************************)
(* Usage.                                                                   *)
(***************************************************************************)
\* What has been counted under each epoch, and which rows are dirty again.
Counted(E, H) ==
  past' = [past EXCEPT
    !.counted = [k \in DOMAIN @ |-> IF \E e \in E.live \cup E.pending \cup H.live : e.epoch = k
                                    THEN (CHOOSE e \in E.live \cup E.pending \cup H.live : e.epoch = k).seconds ELSE @[k]],
    !.unsent = @ \ {e.epoch : e \in {x \in E.live \cup E.pending \cup H.live : x.dirty}},
    !.epochs = IF \E e \in E.live : e.epoch > @ THEN @ + 1 ELSE @]

LampObserved(lamp, area, value, elapsed) ==
  /\ Spend("observed")
  /\ electric' = Observed(electric, lamp, area, value, elapsed, past.epochs + 1)
  /\ Counted(electric', heat)
  /\ UNCHANGED <<incidents, pairingVars, heat, disk, cloud>>

LampRetired(lamp, elapsed) ==
  /\ Spend("observed")
  /\ electric' = Retired(electric, lamp, elapsed)
  /\ Counted(electric', heat)
  /\ UNCHANGED <<incidents, pairingVars, heat, disk, cloud>>

BoilerObserved(value, elapsed) ==
  /\ Spend("heated")
  /\ heat' = Heated(heat, Boiler, value, elapsed)
  /\ Counted(electric, heat')
  /\ UNCHANGED <<incidents, pairingVars, electric, disk, cloud>>

(***************************************************************************)
(* syncNow.                                                                 *)
(***************************************************************************)
Go(s, pc) == syncs' = [syncs EXCEPT ![s].pc = pc]

\* What a synchronisation sends, read with the platform record it will write back.
Sent ==
  [Quiet EXCEPT !.pc = "sent", !.seen = link.seen, !.rows = Payload(electric), !.heated = Payload(heat),
                !.ack = electric.ack, !.heatAck = heat.ack, !.sent = outbox]

Begins(s) ==
  /\ syncing' = TRUE
  /\ syncs' = [syncs EXCEPT ![s] = Sent]
  /\ UNCHANGED <<link, vault, backoff>>

\* The interval, a retry, a change of the areas or a version to publish.
Calls(s) ==
  /\ syncs[s].pc = "idle" /\ (\A o \in 1..s-1 : syncs[o].pc # "idle") /\ ~syncing /\ ~backoff
  /\ \/ /\ link.paired /\ Begins(s) /\ UNCHANGED past
     \/ /\ ~link.paired /\ link.attempt > 0
        /\ syncs' = [syncs EXCEPT ![s] = [Quiet EXCEPT !.pc = "challenged", !.attempt = link.attempt]]
        /\ past' = [past EXCEPT !.raced = @ \/ \E o \in Syncs : syncs[o].pc # "idle"]
        /\ UNCHANGED <<link, vault, syncing, backoff>>

SyncCalled(s) == Calls(s) /\ UNCHANGED <<incidents, usage, disk, cloud, budget>>

\* completeProvisioningHandshake: the platform proves and delivers a credential,
Proved(s) ==
  /\ syncs[s].pc = "challenged" /\ syncs[s].attempt = link.attempt
  /\ cloud' = [cloud EXCEPT !.issued = @ + 1]
  /\ syncs' = [syncs EXCEPT ![s].pc = "proved", ![s].credential = cloud.issued + 1]
  /\ UNCHANGED <<incidents, usage, link, vault, syncing, backoff, disk, budget, past>>

\* Faulty variant: a credential in the vault is kept.
CredentialOnce(s) ==
  /\ syncs[s].pc = "proved"
  /\ vault' = IF vault = 0 THEN syncs[s].credential ELSE vault
  /\ Go(s, "kept")
  /\ UNCHANGED <<incidents, usage, link, syncing, backoff, disk, cloud, budget, past>>

\* which goes to the vault,
CredentialKept(s) ==
  /\ syncs[s].pc = "proved"
  /\ vault' = syncs[s].credential
  /\ Go(s, "kept")
  /\ UNCHANGED <<incidents, usage, link, syncing, backoff, disk, cloud, budget, past>>

\* is acknowledged,
CredentialAcknowledged(s) ==
  /\ syncs[s].pc = "kept"
  /\ cloud' = [cloud EXCEPT !.credential = syncs[s].credential]
  /\ Go(s, "acknowledged")
  /\ UNCHANGED <<incidents, usage, link, vault, syncing, backoff, disk, budget, past>>

\* and the hub is paired.
HandshakeCompletes(s) ==
  /\ syncs[s].pc = "acknowledged"
  /\ link' = [link EXCEPT !.paired = TRUE, !.attempt = syncs[s].attempt]
  /\ Go(s, "pairing")
  /\ UNCHANGED <<incidents, usage, vault, syncing, backoff, disk, cloud, budget, past>>

\* Once that is saved, the same call goes on with the synchronisation.
SyncAfterHandshake(s) ==
  /\ syncs[s].pc = "paired"
  /\ Begins(s)
  /\ UNCHANGED <<incidents, usage, disk, cloud, budget>>
  /\ past' = [past EXCEPT !.raced = @ \/ syncing]

\* A request or its answer is lost during the handshake.
HandshakeFails(s) ==
  /\ Spend("faults")
  /\ syncs[s].pc \in {"challenged", "proved", "kept", "acknowledged"}
  /\ syncs' = [syncs EXCEPT ![s] = Quiet]
  /\ UNCHANGED <<incidents, usage, link, vault, syncing, backoff, disk, cloud, past>>

\* The platform serves a synchronisation.
Served(s) ==
  LET me == syncs[s]
      word(i) == LastWord(me.sent, i, cloud.told[i])
      rows == me.rows \cup me.heated
  IN /\ me.pc = "sent"
     /\ cloud' = [cloud EXCEPT
          !.rows = [k \in DOMAIN @ |-> IF \E r \in rows : r.epoch = k THEN (CHOOSE r \in rows : r.epoch = k).seconds ELSE @[k]],
          !.published = IF me.seen > @ THEN me.seen ELSE @,
          !.told = [i \in Ids |-> word(i)]]
     /\ syncs' = [syncs EXCEPT ![s].pc = "answered", ![s].latest = cloud.latest, ![s].reset = cloud.reset]
     /\ UNCHANGED <<incidents, usage, link, vault, syncing, backoff, disk, budget, past>>

\* A lost request or answer: the next call waits.
SyncFails(s) ==
  /\ Spend("faults")
  /\ syncs[s].pc \in {"sent", "answered"}
  /\ backoff' = TRUE /\ syncing' = FALSE
  /\ syncs' = [syncs EXCEPT ![s] = Quiet]
  /\ UNCHANGED <<incidents, usage, link, vault, disk, cloud, past>>

RetryDue ==
  /\ backoff /\ backoff' = FALSE
  /\ UNCHANGED <<incidents, usage, link, vault, syncing, syncs, disk, cloud, budget, past>>

\* The answer is saved: the version seen never falls below the one it began with.
AnswerSaved(s) ==
  LET me == syncs[s]
  IN /\ me.pc = "answered"
     /\ link' = [link EXCEPT !.paired = TRUE, !.seen = IF me.latest > me.seen THEN me.latest ELSE me.seen]
     /\ Go(s, "saving")
     /\ UNCHANGED <<incidents, usage, vault, syncing, backoff, disk, cloud, budget, past>>

\* The heating tracker takes the reset, what was uploaded, and the reset that
\* was acknowledged,
HeatApplied(T, me) == ResetAcknowledged(Acknowledged(ResetApplied(T, me.reset), me.heated), me.heatAck)

\* and so does the electric one.
Applied(T, me, rows, ack) == ResetAcknowledged(Acknowledged(ResetApplied(T, me.reset), rows), ack)

\* acknowledgeIncidentEnvelopes: the platform names the envelopes it was sent,
\* by id and revision; the others are kept in their order.
Acked(sent) == {k \in DOMAIN outbox : \E j \in DOMAIN sent : sent[j].id = outbox[k].id /\ sent[j].revision = outbox[k].revision}

Orders(S) == {p \in [1..Cardinality(S) -> S] : (\A k \in S : \E j \in DOMAIN p : p[j] = k) /\ (\A j, k \in DOMAIN p : j < k => p[j] < p[k])}

Acknowledges(sent) ==
  \E place \in Orders(DOMAIN outbox \ Acked(sent)) : outbox' = [k \in DOMAIN place |-> outbox[place[k]]]

\* The ids an envelope of which was dropped from the full outbox and queued
\* anew: the acknowledgement of the older one takes the new one.
Requeued(sent) ==
  {i \in Ids : ~\E n \in 0..Len(sent) :
     /\ n =< Len(outbox) /\ \A k \in 1..n : outbox[k] = sent[Len(sent) - n + k]
     /\ \A k \in Acked(sent) : outbox[k].id = i => k =< n}

\* onSyncResult, and the end of the call.
SyncEnds(s) ==
  LET me == syncs[s]
      resets(T) == {e.epoch : e \in T.live \cup T.pending} \ {e.epoch : e \in ResetApplied(T, me.reset).live \cup ResetApplied(T, me.reset).pending}
  IN /\ me.pc = "saved"
     /\ heat' = HeatApplied(heat, me)
     /\ electric' = Applied(electric, me, me.rows, me.ack)
     /\ Acknowledges(me.sent)
     /\ slips' = [slips EXCEPT !.untold = @ \cup Requeued(me.sent)]
     /\ past' = [past EXCEPT !.unsent = @ \cup resets(electric) \cup resets(heat)
                   \cup Cleared(ResetApplied(electric, me.reset), me.rows) \cup Cleared(ResetApplied(heat, me.reset), me.heated)]
     /\ syncing' = FALSE /\ backoff' = FALSE
     /\ syncs' = [syncs EXCEPT ![s] = Quiet]
     /\ UNCHANGED <<home, active, jobs, sweep, recent, hour, link, vault, disk, cloud, budget>>

(***************************************************************************)
(* Saves, restarts and the platform.                                        *)
(***************************************************************************)
\* A save lands.  The file is followed for as long as a restart may come.
Saved ==
  LET file == IF budget["crashes"] > 0 THEN Stored ELSE disk
  IN
  /\ disk # file \/ \E s \in Syncs : syncs[s].pc \in {"pairing", "saving"}
  /\ disk' = file
  /\ syncs' = [s \in Syncs |-> [syncs[s] EXCEPT !.pc = CASE @ = "pairing" -> "paired" [] @ = "saving" -> "saved" [] OTHER -> @]]
  /\ UNCHANGED <<incidents, usage, link, vault, syncing, backoff, cloud, budget, past>>

Crash ==
  /\ Spend("crashes")
  /\ link' = disk.link /\ electric' = disk.electric /\ heat' = disk.heat
  /\ syncing' = FALSE /\ backoff' = FALSE
  /\ syncs' = [s \in Syncs |-> Quiet]
  /\ IncidentsLost(disk)
  /\ past' = [past EXCEPT
       !.unsent = @ \cup {k \in DOMAIN past.counted :
          ~\E e \in disk.electric.live \cup disk.electric.pending \cup disk.heat.live :
             /\ e.epoch = k /\ e.seconds = past.counted[k]
             /\ e.dirty \/ ~\E x \in electric.live \cup electric.pending \cup heat.live : x.epoch = k /\ x.dirty}]
  /\ UNCHANGED <<vault, disk, cloud>>

\* A provisioning attempt is registered.
AttemptRegistered ==
  /\ Spend("attempts") /\ ~link.paired
  /\ link' = [link EXCEPT !.attempt = @ + 1]
  /\ UNCHANGED <<incidents, usage, vault, syncing, backoff, syncs, disk, cloud, past>>

VersionAppears ==
  /\ Spend("versions")
  /\ cloud' = [cloud EXCEPT !.latest = @ + 1]
  /\ UNCHANGED <<incidents, usage, pairingVars, disk, past>>

UsageReset ==
  /\ Spend("resets")
  /\ cloud' = [cloud EXCEPT !.reset = @ + 1]
  /\ UNCHANGED <<incidents, usage, pairingVars, disk, past>>

-----------------------------------------------------------------------------

Init ==
  /\ budget \in Scenarios
  /\ IncidentsInit(budget["updated"] > 0)
  /\ link = [paired |-> budget["attempts"] = 0, attempt |-> 0, seen |-> 0]
  /\ vault = 0 /\ syncing = FALSE /\ backoff = FALSE
  /\ syncs = [s \in Syncs |-> Quiet]
  /\ electric = Tracker /\ heat = Tracker
  /\ disk = Stored
  /\ cloud = [credential |-> 0, issued |-> 0, latest |-> 0, published |-> 0, reset |-> 0,
              rows |-> [k \in 0..MaxEpochs |-> Zero], told |-> [i \in Ids |-> "resolved"]]
  /\ past = [counted |-> [k \in 0..MaxEpochs |-> Zero], unsent |-> {}, epochs |-> 0, raced |-> FALSE]

SyncStep(s) ==
  \/ SyncCalled(s) \/ Proved(s) \/ CredentialKept(s) \/ CredentialAcknowledged(s) \/ HandshakeCompletes(s)
  \/ SyncAfterHandshake(s) \/ Served(s) \/ AnswerSaved(s) \/ SyncEnds(s)

Elsewhere == UNCHANGED <<pairingVars, usage, disk, cloud, past>>
Jobs == Elsewhere /\ UNCHANGED budget /\ \E k \in DOMAIN jobs : JobStep(k)
Checks == Elsewhere /\ UNCHANGED budget /\ IntegrationChecked
Sweeps == Elsewhere /\ UNCHANGED budget /\ (SweepBegins \/ SweepStep)
Hours == Elsewhere /\ UNCHANGED budget /\ HourPasses

Observations ==
  \/ \E l \in Lamps, t \in Elapsed : LampRetired(l, t) \/ \E a \in Areas, v \in Seen : LampObserved(l, a, v, t)
  \/ \E v \in Seen, t \in Elapsed : BoilerObserved(v, t)

Changes ==
  \/ Elsewhere /\ Spend("device") /\ DeviceChanges(~home.up, home.battery)
  \/ Elsewhere /\ Spend("battery") /\ \E l \in Levels : DeviceChanges(home.up, l)
  \/ Elsewhere /\ Spend("integration") /\ IntegrationChanges

Next ==
  \/ \E s \in Syncs : SyncStep(s) \/ HandshakeFails(s) \/ SyncFails(s)
  \/ RetryDue \/ Saved \/ Crash \/ Jobs \/ Checks \/ Sweeps \/ Hours \/ Observations \/ Changes
  \/ AttemptRegistered \/ VersionAppears \/ UsageReset

Spec == Init /\ [][Next]_vars

\* Timers fire and promises settle; a request that is not lost is answered.
FairSpec ==
  /\ Spec
  /\ \A s \in Syncs : WF_vars(SyncStep(s))
  /\ WF_vars(RetryDue) /\ WF_vars(Saved) /\ WF_vars(Jobs) /\ WF_vars(Checks) /\ WF_vars(Sweeps) /\ WF_vars(Hours)

-----------------------------------------------------------------------------
(***************************************************************************)
(* Properties.                                                              *)
(***************************************************************************)
\* Every second that was counted is the platform's, or in a row that is still
\* to be sent, also over lost answers, new segments, retired lamps and resets;
\* unless two synchronisations ran at a time, for an older one may come last.
\* unsent: what grew while its upload was under way, which the acknowledgement
\* clears, and what a restart or a reset took.  About acknowledgeUploaded.
UsageAccounted ==
  ~past.raced => \A k \in DOMAIN past.counted :
    \/ cloud.rows[k] = past.counted[k]
    \/ k \in past.unsent
    \/ \E e \in electric.live \cup electric.pending \cup heat.live : e.epoch = k /\ e.dirty

\* A paired hub holds the credential the platform heard acknowledged last,
\* whatever was lost or restarted during the handshake; unless two handshakes
\* ran at a time.  About completeProvisioningHandshake.
CredentialAgrees == link.paired /\ cloud.issued > 0 /\ ~past.raced => vault = cloud.credential

\* When the hub has nothing left to do or to tell, the platform takes for open
\* what the hub does, whatever synchronisation is under way; unless an envelope
\* was masked by a pending one of the same revision, was taken for a repetition,
\* dropped from a full outbox or lost by a restart, or the handlers of two
\* changes ran out of order, or two synchronisations at a time.
\* About record, queueIncidentEnvelopeInState and the handlers.
ToldAgrees ==
  ~past.raced /\ jobs = <<>> /\ sweep = Asleep /\ outbox = <<>> =>
    \A i \in Ids \ (slips.untold \cup slips.overtaken) :
      cloud.told[i] = "open" <=> active[i].state \in {"open", "recovering", "critical"}

Fine(i) == CASE i = "device_offline" -> home.up [] i = "integration_offline" -> home.healthy [] OTHER -> home.battery = "fine"

\* An alarm the platform shows is cleared when what it is about stays well, but
\* for envelopes and saves that slipped.  About the recovery in sweep.
AlarmsClear ==
  \A i \in Ids :
    cloud.told[i] = "open" /\ Fine(i) /\ hour = 0
      ~> cloud.told[i] # "open" \/ ~Fine(i) \/ i \in slips.untold \cup slips.stale \cup slips.overtaken
=============================================================================
